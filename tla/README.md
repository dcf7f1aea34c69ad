# A TLA+ specification of lucy

`src/src/lucy` is a C runtime for message driven services: a master thread, a
fixed number of worker threads, services that are run by the threads one message
at a time, and an event manager through which the master waits for sockets. The
modules here model the runtime of `core/master.c` (its threads, messages, socket
events, memory and tables), the two protocols with which its threads sleep, the
string matcher, and the service that receives HTTP requests on a coroutine. TLC
checks them on small instances, and TLAPS proves for every size the safety
properties of the runtime, of its sleeping protocols and socket events, of its
memory and tables, of the string matcher and of the receiving service. Line
numbers below are of
`src/src/lucy/core/master.c` unless another file is named.

    tlc -workers 2 -config workers_exit.cfg Runtime    # each .cfg: see "Runs"
    tlapm Runtime_proofs.tla

## 1. Inventory

| Component | State | Operations | Talks to | Makes it correct |
|---|---|---|---|---|
| **Master loop** (617-1912) | `l_msg_rxq`, per-worker queues `mq`, `txms`, `txmq`, service table, worker weights | wait, handle the master's messages, route messages to services, deliver, exit | workers (queues, condition variables, join), event manager | every message reaches its service's thread in order; nothing reaches a freed service; exit ends |
| **Worker loop** (1554-1615, 1914-1953, 619-645) | `rxmq`, `txms`, `txmq`, `msgwait` | sleep, take a batch, call entries, free services, flush | master (queues, event manager) | runs a service alone; loses no wakeup |
| **Service life cycle** (head comment 1-15, 1147-1224) | `thread`, `flagw`, `flags`, `evfd`, `evmk`, `svid` | create, start, send, close, free | master and its worker | start first, close last and once, then freed and never touched |
| **Master's sleep** (`osi/eventpoll.c` 613-691) | `wakeup_count`, eventfd, epoll ready list | wakeup, timed wait | all workers | no lost wakeup, one write at a time |
| **Socket events** (1226-1351, 1496-1552, `eventpoll.c` 485-611) | `evfd`, `evmk`, epoll registrations | add, modify, delete, accept, connect, dispatch | master, services | an event mask is reported once and not lost; no descriptor is lost |
| **Buffer and thread pools** (403-524) | free buffer queue with `size` and `frmem`, workers in order of weight | init, free, acquire, release | all allocations of a thread | no block lost or used twice, an exact account, balanced load |
| **Service table** (989-1121) | slots, chains, count | add, find, delete, delete front | master only | a set of services with unique ids |
| **Coroutines** (731-961) | Lua thread and continuation of a service | resume, yield, free | a service and Lua | the continuation that runs is the one that was set |
| **Queues** (`core/queue.c`) | linked lists | push, pop, append a queue | everything | they are sequences |
| **String matching** (`core/match.c`) | bit set of candidates for each character | build a map, match once, n times, until | HTTP | the right one of match, no match and more text; a search that is taken up again finds what one search finds |
| **Hash table, heap** (`core/table.c`, `core/heap.h`) | slots; array | add, find, delete | libraries | a map; a minimum |
| **HTTP service** (`net/http*`) | stage and buffers of a request | listen, receive | sockets, coroutines, matching | a request is read to its end, once, however it is cut into reads |
| **String building, Lua scripts, OS layer, base library, configuration, tools, vendored Lua/LPeg** | | I/O, formatting | | |

Messages are the only way in which threads interact, with four exceptions: the
flag `L_SERVICE_STOPRX` and the event fields of a service, the pool of service
ids, and the `index` of an exited worker.

### How a message travels

    entry on worker t --l_message_send_impl--> txms[t] --flush--> rx[0]    --> master handles
                                          \--> txmq[t] --flush--> l_msg_rxq --> rxmq of l_master_loop
                                          \--> rx[t] (own thread)                 |  route: find service
                                                                                  v
    entry on worker u <-- batch of u <-- rx[u] <-- deliver, msgwait, signal <-- mq[u-1]

A worker flushes `txms` before `txmq` and then wakes up the master; the master
handles its own messages first, then routes, then delivers. Without workers (the
shipped `conf/init.lua` has `workers = 0`) routing ends in the master's own
`txms`, and the master calls the entries itself.

### What is hard

The behaviours that a test would hardly reach, each with its line and the
properties that cover it, are listed in `PROJECT.json` under "hazards". In short:
wakeups that race with going to sleep (1892, `eventpoll.c:629`), pointers in
queues while the service closes (1588), two ways of removing a service that race
(1687 and 1701), messages that overtake the start message (652), order through
four queues, counters over many rounds (1691, 1623), exit while everything else
goes on (1749), recycled memory (435), the event mask between the master and a
worker (1543), descriptor numbers that outlive their sockets (1519), edges that
epoll reports once (`linuxsock.c:799`, `http_socket_util.c:60`), ids that wrap
(1154), and line ends that lie across two reads (`http_socket_util.c:59`).

## 2. Modules

| Module | Models | Extends / instantiates |
|---|---|---|
| `Actor` | what the runtime promises to a service: one thread, one message at a time, a last message, then freed | |
| `Runtime` | `master.c`: threads, queues, life cycle, exit | implements `Actor` |
| `Mailbox` | what a queue with a sleeping reader promises | |
| `WorkerWait` | a worker's sleep on its condition variable | implements `Mailbox` |
| `MasterWakeup` | the master's sleep in `epoll_wait` | implements `Mailbox`, twice |
| `SocketEvent` | socket events of services: kernel, master and a worker | |
| `Lists` | what intrusive lists promise: sequences, no object in two of them | |
| `Storage` | the pointers of `queue.c`, free buffers, service ids, service table, worker pool | implements `Lists` |
| `StringMatch` | the matchers of `match.c`, as operators | |
| `StringSearch` | every map of strings against every text as it arrives | extends `StringMatch` |
| `Coroutine` | a service's coroutine and the Lua registry, as operators | |
| `HttpReceive` | the service that reads requests from one connection | extends `StringMatch`, `Coroutine` |
| `MCHttpReceive` | the streams of its clients, for TLC | extends `HttpReceive` |
| `Runtime_proofs` | theorems: one thread a service | `Runtime` |
| `RuntimeLife_proofs` | theorems: the life of a service and its messages, `Runtime` implements `Actor` | `Runtime_proofs` |
| `WorkerWait_proofs`, `MasterWakeup_proofs` | theorems: no wakeup is lost, the safety part of `Mailbox` | the modules they are named after |
| `SocketEvent_proofs` | theorems: types, no freed service is used, no condition is forgotten, who owns a descriptor, what epoll knows of it | `SocketEvent` |
| `Storage_proofs` | theorems: lists, blocks, account, table, pool, service ids | `Storage` |
| `StringSearch_proofs` | theorems: the matchers | `StringSearch` |
| `HttpReceive_proofs` | theorems: the reader, the coroutine and the registry | `HttpReceive` |

### Runtime

*State.* One variable for each queue (`rx`, `txms`, `txmq`, `msgRxq`, `route` for
the local `rxmq` of `l_master_loop`, `out` for its `mq`), one for each field of a
worker (`alive` for `index # 0`, `weight`, `threadExit`) or service (`thread`,
`closing`, `stoprx`) that matters, the table, and `memory[s]` for what became of
the service's buffer. `batch[t]` is the local `msgq` of the thread, `sweep` the
loop index of the exit handler, `exitedWorkers` the local of
`l_master_handleMessage`, `pc` the place in the loop. `log[s]` is a history
variable: the messages the entry of `s` was called with.

*Steps.* A step is one critical section, one message handled, or one call made by
an entry. Between two lock operations a thread works on private queues, so finer
steps would add nothing that another thread can see. The exceptions are the
sleeping protocols, which `WorkerWait` and `MasterWakeup` model access by access;
`Runtime` uses what those modules establish (a nonempty queue is taken, a flush
wakes up the master). The entry of a service is any sequence of creating,
starting (with and without a given thread), sending, closing itself and
`l_master_exit`; nothing is assumed of it but that it returns (for liveness).

*Messages.* A message is a record of its id, its service, the thread index in
the high bits of `dest`, whether `dest` has been replaced by a pointer, and the
sender and number of a user message. The identity of the buffer and the payload
are left out.

*Details of the code that are kept on purpose.* `exitedWorkers` starts at 0 in
each round. `index` of an exited worker is 0, so that messages created later are
addressed to thread 0 and dropped. A message routed to an exited worker moves
`mq + i`, one past the array, to the free queue: the model lets the process
survive or crash. The buffer of a freed service is handed out again by the same
thread with its old flags. Only buffers of services are recycled for services: on
a 64-bit build a message of up to 48 bytes has no word at the place of `flagw`.
A longer one has: that of a connection (`l_connind_message`, 56 bytes) has its
address there and at `coref`. It and custom messages of such a size are left out
of `Runtime`; `HttpReceive` has the service that is made of one. The bootstrap
service's first two messages are in the master's queue in the initial state,
which is the state in which `l_master_loop` enters its loop.

*Conversions.* `ptr` turns true where line 1866 replaces the id in `dest` by the
pointer; a message that is handled with an id in `dest` crashes.

### WorkerWait and MasterWakeup

Every lock, test, unlock, signal, write and read is an action. `WorkerWait` has
the signal after the unlock and skipped when `msgwait` is set, the worker's own
sends to its queue, and spurious wakeups. `MasterWakeup` has several workers,
the two queues that a flush fills in separate critical sections, the count that
is set before the write and cleared after the read, and an eventfd that epoll
reports once for each write (`EPOLLET`). The eventfd and epoll are what Linux
documents.

`Mailbox` is their common promise: messages are taken in order, each once, and
if there is one the reader comes for it. `SafeSpec` is the first half of it, which
is proved; `Spec` adds the second, which is fairness and is checked.

### SocketEvent

A composition of three actors: the kernel, in which conditions become true of
sockets and epoll keeps the edges it has yet to report (`ready`); the master,
which goes round waiting, dispatching (1508-1552), handling its messages and
routing; and one worker that runs every service (1554-1615). Under `svmtx` are
`evfd`, `evmk` and `flags`; the actions are its critical sections. Two writes of
`flags` are split into a read and a write, because the worker makes its own under
another mutex (1606) than the master (1536). Descriptors are numbers, and the
kernel gives the lowest free one, so that a number may be another socket by the
time it is used. The calls of an entry are opening and closing sockets, starting
a service, setting, replacing and deleting an event, closing, and returning.
Three pieces of the code are kept as they are: the test at 1239 that refuses an
event before the start, the descriptor that 1327 deletes, and the error bit that
`eventpoll.c:499` tests. The messages of services to each other are left to
`Runtime`.

The history variables say what the properties need: `given`, the conditions an
entry has seen; `dropped`, descriptors whose message was not handled;
`replaced`, once an event took the place of another; `exhausted`, once accept
found no descriptor.

### Storage

One word of memory for each block is its list node, whichever list it is in; the
model has that word (`next`), the heads of the queues and of the slots, and
`tail`. An action is an operation with all its pointer writes; the loops that
give memory back (475-485) and sweep the table (1695-1713) are one turn a step.
The program around it takes a block, sends it, makes it a service with an id,
puts it into the table and frees it. Ids are counted modulo `SvidRange`, which is
small so that they wrap. A worker's place in the pool is its place in a doubly
linked list ordered by weight; taking it out and putting it back with another
weight is one action, as it is one call.

`Lists` is the abstract specification: queues that grow at their end and lose
their front, chains that grow at their front and lose any element, and one queue
appended to another. `Storage` implements it with the walk along the pointers as
refinement mapping.

### StringMatch and StringSearch

`match.c` keeps, for the i-th character of the subject, one word of bits for the
strings that have it there and one for those that end with it there; here the
words are sets of indices. A pointer is the number of characters before it.
`MatchEx` is 215-279: `AtStart` what the loop starts with, `Turn` one turn of
it for one character, `Scan` the loop with its early exits; the other operators are
its callers. The functions are recursive functions, not `RECURSIVE` operators,
so that they can be proved about. In `StringSearch` a text arrives one character
at a time, which gives the properties that relate an interrupted search to its
continuation.

### Coroutine and HttpReceive

`Coroutine` has what `l_service_setResume`, `resume`, `yield` and `freeState` do
to the coroutine's status, its function and its reference in the registry, whose
free places are a list as in Lua's `luaL_ref`. `HttpReceive` has a client that
sends a stream character by character and may hang up, an edge-triggered socket
whose events the master collects and the worker takes, and the reading functions
of `httpd_receive_service.c` and `http_socket_util.c`. The worker's steps are a
mask that it takes, one turn of a reading loop (search what is there; return,
yield, fail or read on), and what the handler does when the coroutine comes back
(`Back`); the client and the master go on between any two of them, so that what a
read gets is what has come by then. `run` is what the coroutine has on its stack:
the function and the `count` and `n` of the last read, which are 0 when a function
begins (`Enters`). A line is named by its first character. Line ends are
the five of `match.c:45-52`, with one separator of several bytes.

A connection comes about in three ways.

- `Connect(s, FALSE)`: `l_service_setEvent` refuses the service, as line 1239 does
  with every one. epoll never knows of its socket (`watched`, `Raise`): nothing of
  it is read, and nobody closes it. When the next connection comes, what is left
  of it is the place of its coroutine (`held`).
- `Connect(s, TRUE)`: the event is set, as it would be without that fault. All that
  is said of reading and answering is about these.
- `ConnectClosing`: the service is made of a buffer that is not cleared (428-438) and
  has `L_SERVICE_CLOSING` where its flags are. Neither `l_service_createFrom` (1184-1187) nor
  `httpd_receive_service.c:15-28` resets them, and the worker drops every message to it
  (1582). What else it inherits (stage, positions) is then never looked at, and
  the place of its coroutine is never given back.

The safety properties hold in all three. `Answered` is stated for a service whose
event is set and whose memory was clean, which means that at this commit no
request is answered, and that the reading code would answer it if 1239 tested for
the flag. Nor is it built at this commit: `platform.mk` has `HTTPOBJ` commented out
of the program (line 55), and the HTTP files call
the runtime by slightly older names. `l_httpd_write_response` has an empty body:
it never yields and its value is any, so that the branch of the receiving service
for a suspended response is not reached.

### Seeded faults

An operator whose comment begins with "Seeded fault" is a wrong variant of the
definition that follows it, written as a plausible slip in that code. No action
uses it. It is there to show that a property is sensitive: with the wrong
definition in the place of the right one TLC finds the property violated.
`PROJECT.json` ("mutants") says which goes with which.

## 3. Runs

All runs use model values for services. `CHECK_DEADLOCK FALSE` is set where the
system may stop: the program has ended, or nobody sends anything any more.

| Run | Instance | Properties | Shows |
|---|---|---|---|
| `workers_exit` | 2 workers, 2 services, 3 sends, or 1 send and an exit | `SingleThreaded`, `NoDangling`, `CloseIsLast`, `WeightIsLoad`, `SenderOrder`, `ImplementsActor` | one thread a service, order, close by the service and by exit with a message on its way, the promises of `Actor` |
| `one_worker_live` | 1 worker, 2 services, 2 sends, exit, fair | `ExitCompletes`, `OnlineIsClosed`, `StoppedIsFreed`, `Delivered` | exit ends, after every service has closed; nothing gets stuck |
| `no_workers` | 0 workers, 3 services, 1 send, exit, fair | `ImplementsActor`, `ExitCompletes` | the shipped configuration, and recycled memory |
| `worker_wait` | 5 messages | `NoLostWakeup`, `ImplementsMailbox` | the worker's sleep |
| `master_wakeup` | 2 workers, 4 messages | `OneWrite`, `NoLostWakeup`, `ImplementsMailboxes` | the master's sleep |
| `socket_events` | 2 services, 2 descriptors, 2 arrivals, 1 socket opened, 2 changes of event, fair | `TypeOK`, `Announced`, `NoDangling`, `OneOwner`, `Agreed`, `Noticed`, `Accepted` | no condition and no connection is forgotten; every descriptor has one owner; epoll and the services agree |
| `storage` | 3 blocks of one size, 2 slots, 2 workers, 4 ids of 3 | `NothingLost`, `AccountExact`, `PoolOrdered`, `FreshIds`, `Found`, `ImplementsLists` | the pointers are lists, the account and the order of the pool hold, the table finds |
| `string_match` | 3 strings of up to 3 letters, texts of up to 3 | `Answers`, `Counted`, `Resumes`, `SpacesStay` | the three answers of the matcher, and that a search may be interrupted |
| `http_requests` | 10 streams, 2 connections, event set or refused, memory clean or not, cut anywhere, fair | `LinesRead`, `AnsweredComplete`, `Drained`, `NeverMisused`, `RefsKept`, `Answered` | a request is read as it was sent, and answered by a service whose event is set; the places of the registry are kept apart |

*Bounds.* `MaxSends`, `MaxExits`, `MaxCalls` and the number of services bound
what entries do; `MaxMsgs` bounds the messages of the sleeping protocols. Two
workers are the least for which routing can go wrong and for which a batch of one
worker meets a delivery to another; two services with the bootstrap service among
them give a sender and a receiver on the same or on different workers. Three
services are needed for a service made from the memory of another while a third
creates it (`no_workers`). Three sends are the least for order: a message of one
sender can only overtake an earlier one if the sender handles two batches between
two rounds of the master, and the second batch needs a message of its own. One
exit meets every stage of a life cycle and a message on its way; three sends and
an exit together are too many states for two workers, which is what `MaxCalls`
says: an exit counts for two sends. Four messages in `MasterWakeup` let each of
two workers flush to both queues, so that a flush meets every stage of another
worker's write and of the master's read.

In `SocketEvent` two descriptors are the least for a listening socket and a
connection, for a number that is used again, and for accept to run out of them;
two arrivals let an edge come while another is collected, dispatched or taken;
two changes of a service's event replace one. The conditions are reading and
hanging up: writing would be told from reading by nothing, and an error alone is
what `eventpoll.c:499` loses. In `Storage` three blocks make a queue of three, a
chain of two and something in between; three ids in two slots put two different
ids into one chain, and the fourth id is the first again. Buffers have one size,
so that the case of a free buffer which is grown is not reached: it is counted in
with its old size when it comes free and out with its new one when it is taken
(433, 436), which makes `frmem` too small by the difference. `resized` says that this
has happened, and `AccountExact`, the run and the theorem leave exactly this case
out: they show that nothing else makes the account wrong. In `StringSearch` three strings of three letters, with one pair of
upper and lower case, have every relation of prefixes that the bit sets tell
apart. In `HttpReceive` the streams are every kind of request with line ends of
one and two characters, a body, a chunked one, two requests in a row, a line that
is no request, and a header over the limit; a read takes 3 characters at a time,
so that reading takes several turns; a second connection meets the registry the
first one left, whether the first was closed, was never watched or was made of a
buffer that says closing. What is proved (section 4) does not depend on these bounds.

*Fairness.* `FairSpec` has weak fairness of each thread as a whole: the operating
system runs every thread, critical sections are short and entries return. It
does not assume that a service sends, closes or exits: `WF_vars(WorkerStep(w))`
is met by the entry's return, and an entry cannot go on for ever because its
calls are bounded. The sleeping protocols assume that a delivery or
flush that was begun goes on and that the reader runs; they assume no spurious
wakeup, no socket event and no further message. `WaitOther`, the return of
`epoll_wait` for another reason, is not fair, so that a wakeup has to come from
the protocol. The exit of a program is fair with respect to threads only;
`ExitCompletes` does not need an entry to do anything. `SocketEvent` has weak
fairness of the master and of the worker, and none of the kernel and the peers;
that an entry returns follows from the bounds of its calls. `HttpReceive` has
weak fairness of the master's collecting and of the worker's handling, none of
the client. The second is written with `CanHandle` and `Handles`, which say
when the worker has something to do and that it does it: `WF_vars(Handle)` with
its ENABLED spelled out, which would have TLC search every line again.

*Conditions in properties.* Some properties hold only as long as something has
not happened that the code does get wrong, and say so: `replaced` (an event took
the place of another, 1327), `exhausted` (no descriptor for accept), `resized` (a
free buffer was grown), `halved` (a read ended between `\r` and `\n`, or
`\n` and `\r`: the line end is then counted twice, `http_socket_util.c:51`), and `plain > 0` (a service
without a coroutine gave back reference 0, 776). `Answered` holds of a service whose
event was set (`watched`), which 1239 prevents. Each is reached in the run or,
for `resized`, left out of its instance.

### Runs that find a violation

Each of these states what a comment of the code says, and TLC shows a behaviour
of the code that differs.

| Run | Property | What happens |
|---|---|---|
| `exit_two_workers` | `ExitCompletes` | The answers of two workers arrive in two rounds of the master, and the local `exited_workers` (1623) never reaches 2. |
| `modify_event` | `EventIsOpen` | A service that replaces its event sends the new descriptor to be deleted (1327): the master closes it under the service. |
| `second_request` | `AnswersRead` | After the first response the stage is reset (`httpd_receive_service.c:88`) but not the function of the coroutine: the next event writes two responses and reads nothing. |

Four more behaviours of the code differ from what one might expect of it. The
modules have them, and no run is about them:

- The start message may come second. `l_msg_rxq` is emptied in front of the
  master's own `txmq` (650-652), so that what a creator sends at once overtakes
  the L_MSGID_SERVICE_START that the head comment (8) calls the first message.
- A message sent by `l_service_id()` to a service of the sender's own worker goes
  straight into its `rxmq` (605-610) with the id in `dest`, which the worker takes
  for a pointer (1581). `FullIds` allows this; the runs set it to FALSE, as the
  code's own callers use the id a service was created with.
- Without workers WORKER_EXIT_RSP is in `txms` and the close messages are in
  `txmq`: the master returns before the services are closed (1715).
- A recycled buffer is not cleared (428-438, against the comment at 421), so that
  a new service may start out closing or stopped.

## 4. Theorems

| Theorem | Statement |
|---|---|
| `Runtime_proofs!Invariance`, `TypeCorrect`, `RunsOnOneThread` | `Spec => []Inv`, `[]TypeOK`, `[]SingleThreaded` |
| `RuntimeLife_proofs!FlowInvariance`, `NothingDangles`, `CloseComesLast`, `OrderIsKept`, `WeightIsRight` | `Spec => []FlowInv`, `[]NoDangling`, `[]CloseIsLast`, `[]SenderOrder`, `[]WeightIsLoad` |
| `RuntimeLife_proofs!RuntimeIsActor` | `Spec => ImplementsActor` |
| `WorkerWait_proofs!Invariance`, `TypeCorrect`, `NoWakeupIsLost`, `WorkerHasMailbox` | `Spec => []Inv`, `[]TypeOK`, `[]NoLostWakeup`, the safety part of `Mailbox` |
| `MasterWakeup_proofs!Invariance`, `TypeCorrect`, `WrittenOnce`, `NoWakeupIsLost`, `MasterHasMailboxes` | `Spec => []Inv`, `[]TypeOK`, `[]OneWrite`, `[]NoLostWakeup`, the safety part of both mailboxes |
| `SocketEvent_proofs!TypeCorrect`, `FreedIsLast`, `NothingForgotten` | `Spec => []TypeOK`, `[]NoDangling`, `[]Announced` |
| `SocketEvent_proofs!SocketHasOneOwner`, `EpollAgrees` | `Spec => []OneOwner`, `[]Agreed` |
| `Storage_proofs!IdsInvariance`, `IdsAreFresh` | `Spec => []IdsInv`, `[]FreshIds` |
| `Storage_proofs!KeptInvariance`, `ListsAreKept` | `Spec => []Kept`, `Spec => ImplementsLists` |
| `Storage_proofs!NothingIsLost`, `AccountIsExact`, `ServicesAreFound`, `PoolIsOrdered` | `Spec => []NothingLost`, `[]AccountExact`, `[]Found`, `[]PoolOrdered` |
| `StringSearch_proofs!AnswersAreRight`, `RepeatIsCounted` | `Spec => []Answers`, `[]Counted` |
| `StringSearch_proofs!SearchResumes`, `SkippedForGood` | `Spec => Resumes`, `SpacesStay` (action properties) |
| `HttpReceive_proofs!ExactInvariant`, `TypeCorrect` | `Spec => []IInv`, `[]TypeOK` |
| `HttpReceive_proofs!LinesReadExactly`, `AnsweredWhole`, `SuspendedDrained` | `Spec => []LinesRead`, `[]AnsweredComplete`, `[]Drained` |
| `HttpReceive_proofs!CoroutineNeverMisused`, `ReferencesKept` | `Spec => []NeverMisused`, `[]RefsKept` |

They hold for every number of workers (also 0), every finite set of services,
every number of descriptors, ids, blocks, slots, sizes, strings, characters and
connections, every set of streams and every bound, under the named assumptions of
the modules. With them every invariant and every action property of a passing run
is proved.

*Runtime: one thread.* `SingleThreaded` is not inductive: a thread runs a service
because a message was in its batch, because it was routed there, because the
master had set the thread of the service before. `Attached` says this of every
queue. A message that makes its handler run a service (a routed message, or a
close message) is in `rx`, `batch` or `out` of the service's thread only; a
message that is still to be routed carries the service's thread, or 0 when the
worker had exited at its creation; no master message is ever routed; a service has
no thread before it is created. The proof goes queue by queue (lemmas `PostOK`,
`ConsumeOK`, `HeadOK`, `QueueStays`), and splits the invariant into its typed
part (`StepKeeps`) and one lemma for each group of variables, with one case for
each action. The thread of a service never changes once it is set, unless the
service is started without one: then no message can be on its way (`HandledStays`,
`AddressedStays`). Full ids are covered: what such a message breaks is not which
thread runs a service.

*Runtime: life of a service.* `FlowInv` has three parts. `Kinds` says which
messages a queue may hold. `Life` says that a service is started by one message,
is then in the table, and is closed by one message; all the while its memory is in
use, and nothing that makes a thread run it is on its way before or after.
`Chain` says what may come before what on the way from a sender to an entry,
through up to five queues: a service is started once, nothing that runs it
follows its close message, and the user messages of one sender to one receiver are
in the order of their numbers. With these `NoDangling`, `CloseIsLast` and `SenderOrder` are
the last link of the chain, what an entry has already been called with.
`WeightIsLoad` goes with the steps of the table, the only ones that change a
weight. `RuntimeIsActor` maps `StartService` to `Create`, `HandleServiceMsg` to
`Enter`, `CloseSelf` to `Quit`, `EntryReturn` to `Leave`, `HandleCloseRsp` to
`Finish` and `LastReturn` to `Free`; every other step of the master and of the
workers is a stutter of `Actor`.

*WorkerWait.* `NoLostWakeup` needs to know who holds the mutex (`MutexHeld`) and
what a set `msgwait` means while the worker sleeps (`SetMeansSignal`): the master
has yet to signal, for it would otherwise have been cleared.

*MasterWakeup.* The invariant says what the count means at each stage of the
master's read (`CountMeansWrite`), and that messages the master has passed by are
announced by the count or by a worker that will test it (`Announced`). The
mailboxes of both modules hold what was sent and not yet taken, so that a step of
the protocol is a send, a take or a stutter.

*SocketEvent.* The requests of a service to the master are taken as one sequence
in the order in which they will be handled (`Asked`), and so are the messages of
the master to it (`Sent`). `Life` is inductive with `Types`, `StagesOK` (the
stage of a service), `RequestsOK` (what it may still ask for), `ServedOK` (what it
may still be told) and `ThreadsOK` (what master and worker hold of it in their
hands). `Announced` follows from `Told`: a mask that is not empty has its message
on the way, in the hands of the master or of the worker. Only the steps of
`MaskSteps` touch a mask; for the others `ToldStays`. The lost write of the flags
(1536 against 1606) may drop L_SERVICE_STOPRX, and the proof shows that a freed
service is not reached all the same.

*Sockets: who owns them.* One fact holds always (`EventOK`: what the event fields of a service
may be). The rest holds until `replaced`, which is set once and never reset: one
message for each descriptor (`SingleOK`), one place for each open descriptor
(`PlaceOK`: the hands of a service, its event, a message that deletes or brings
it, or a message that was dropped), and what epoll has registered (`WatchOK`, `AddOK`, `RegisteredOK`, where `Doomed` are
the descriptors whose deletion is on its way). That a number is given again
(lowest first) is why `SingleOK` is part of it: a late message would otherwise
be about another socket.

*Storage: ids.* The ids that were taken are counted: `ids` is the rounds through
the range and the place of the seed in it, and the number of each service is its
id and the round it got it in (`IdsInv`). Two services with one id are then as
many ids apart as the range is long.

*Storage: lists.* `Represents(next, tail, c)` says that the pointers lead through
the sequences c, end where they should (at the head of a queue, with a null
pointer in a chain), that the tails are the last nodes, and that no block is twice
in c. For each pointer operation one lemma says which c comes of it
(`InsertRepresents`, `UnlinkRepresents`, `RemoveRepresents`, `ChainFirstRepresents`,
`JoinRepresents`). The walks of the module, which are recursive functions, follow
any c that is represented (`WalkIs`, by counting turns), so that `ListOf` is c.
`Kept` adds the blocks (each one allocated is held or in one list, `size` counts
the free ones) and the rows (a service is in the slot of its id and has a thread).
It is needed as a whole: what is put in a list must be in none, which is known
because the program holds it. Each step is then a step or a stutter of `Lists`.

*Storage: account, table, pool.* `Total` is a sum over a set of blocks; that the
order of the terms is of no matter, and what one term more or less does, is proved
by the size of the set (`BySize`, `AnyOrder`, `TotalMore`, `TotalLess`). `Account`
goes through every step with it. A step does nothing to the table, or a service
enters, or one leaves (`NextTable`): from this go the number of services and what
the sweep leaves behind (`Counted`) and the loads (`PoolKept`). The pool is a ring
through its head (`Ring`); `RingRemove`, `PushPlace` and `RingInsert` are the three
parts of changing a worker's weight, and leave the ring with every worker and
ordered.

*StringSearch.* Induction over data is had by counting: if a property of numbers
failed, the numbers that lead up to the failure would be an injection of a set
into a smaller one (`Counting`, `CountingTo`), so that a step lemma proves a
statement about every turn of a loop. `Scanned` relates what the loop of `MatchEx`
holds after n characters (the candidates, the last end) to the reference
definitions `Cur` and `Ends`; `Answered` and `Chosen` draw from it the three
answers and the string that is named. `Places` does the same for
`l_string_matchUntil`. For counting matches `IsCount` and `NextCount` say what one
more match adds, `IsRest` and `RepeatFollows` where a repeated match goes on.
For the text that grows, `MatchGrows` says which answers stay the same with one
more character, and `UnmatchedStays`, `HitStays` and `SkippedStays` carry it to
the searches.

*HttpReceive.* `IInv` has four parts, each inductive with those before it.

- `Control`: `Shape` says what may run in each stage, that a coroutine is suspended
  only while it reads, and that a request has been read before a response is
  written; with `Refs` these give `NeverMisused` and `RefsKept`. Every way back to
  the handler is one lemma (`BackControl`). For the registry `TakePlace` says what a
  new coroutine does to the places that are free, taken and held, and `GivePlace` what
  a closed one does; the other steps leave them alone (`RefsPlaces`, `RefsFromPlaces`).
- `Silent`: a service whose event was refused is told nothing, so that nothing of
  it runs.
- `Data`: the buffer is a prefix of what was sent (`Came`), the positions are in
  order (`Positions`), and when the last read was short, all that was sent has been
  read or an event is on its way (`Fresh`). `Drained` is `Fresh` of a suspended
  coroutine.
- `Exact`: as long as not `halved`, the end of the last line is one of `LineEnds` of
  the stream, as many as were counted lie before it, and no line end lies between it
  and the place from which the search goes on (`Lines`); the method, the length
  and the chunked header are those that the lines up to there have, and none of
  these lines is empty (`Request`).

`Exact` needs to know what the search finds. `NextBreak` says it of
`l_string_matchUntil` and the five line ends, from the turns of the matcher
(`FirstTurn`, `SecondTurn`, `ScanTurns`); `PartSearch` says that a search in what has
come finds the end of the line in the stream, if nothing was passed over before
and the line end does not go on behind it. On the other side `EndOfLineIs`,
`LineEndsApart` and `NextLine` say how the reference definitions of the stream
grow by a line, and `NextHeader` and `RequestEndIs` what that means for the request.
Both are recursive functions and are proved about by counting, as in
`StringSearch`. `WholeLine` joins the two: a line that the reader ends is the next
line of the stream. The condition `halved` cannot be dropped: a halved line end
leaves the reader in the middle of it, at a place that is not in `LineEnds`.

## 5. Model-checked only, and not modelled

Model-checked only: liveness (`ExitCompletes`, `OnlineIsClosed`, `StoppedIsFreed`,
`Delivered`, `Noticed`, `Accepted`, `Answered`, and the fairness part of the
mailboxes), since the prover does not handle fairness or ENABLED.

Not modelled, beside the components with that status in `PROJECT.json`:

- *Runtime*: failures of memory allocation on the way of a message (the code logs
  and goes on), services created by threads outside of the runtime, the command
  line.
- *SocketEvent*: a master without workers, the sweep of `l_master_exit` (which
  leaves the descriptors of its services to the end of the process), an event set
  by a service that was not started, and `l_eventmgr_mod`, which nobody calls.
- *Storage*: buffers of two sizes are in the module and the theorems but not in
  the run;
  `l_dqueue`, which the runtime does not use.
- *StringMatch*: `match.c:123-127` cuts a string that is longer than the map's
  `maxstrlen`; `Size` is the length of the longest string, so that none is. The maps the
  code makes have room for their strings.
- *HTTP*: the split of a line into method, URL and version; a chunked body, of
  which the code has only the beginning; the writing of a response, an empty
  function at this commit; the listening service, whose part of the sockets is in
  `SocketEvent`; the pages.
- *Hash table* (`core/table.c`): its chains are those of the service table, and
  only the interning of short strings uses it. `core/heap.h` is in no build.

## 6. Plan

1. An instance of `Storage` with two sizes, once the number of its states allows.
2. A second request of a connection in `HttpReceive`, once the code reads one (see
   the run `second_request`).
