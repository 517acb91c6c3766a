# A verification of code_practise

TLA+ models of the concurrent and networked programs of this repository, the
TLC configurations that check them on small instances, and TLAPS proofs of the safety
of all of them: the blocking queue and the two programs on it, the shared pointer, the
three event loops, the server that forks twice, the three small services and the sorting
functions.
Paths are relative to `src/`.

## 1. The system

The repository is a diary of C++ practice: one directory per day, each with
small programs that share nothing with those of other days. What has state worth
modelling is the following.

| Component | Where | State | Operations | Hard part |
|---|---|---|---|---|
| `BlockQueue<T>` | `code_2026_05_25/code1/BlockQueue.hpp` | queue, `stop_`, one mutex, two condition variables | `push`, `pop`, `stop`, `demo()` | notifications after the unlock, `notify_one` with several sleepers, `stop` against sleepers |
| queue program | `code_2026_05_25/code1/main.cpp` | an atomic counter, five threads | push loops, pop loops, joins | two rounds of joins around `stop()` |
| `mySharedPtr<T>` | `code_2026_05_27/code2/mySharedPtr.h` | pointer and counter pair per handle, atomic counter per object | constructors, `operator=`, `swap`, destructor | copies and releases of several threads on one counter |
| `SelectServer`, `PollServer`, `EpollServer` with `Socket.hpp` and `tcp_client.cpp` | `code_2026_05_24/code1..3` | a descriptor table (select, poll) or an interest list (epoll), the kernel's connections | the wait, the dispatcher, `Accepter`, `Recver` | readiness that goes stale while handlers close and reuse descriptors; full tables; clients that vanish |
| `TcpServer` (fork twice) and `HttpServer` | `code_2026_05_23/code2` | processes, their copies of the descriptors | accept, fork, fork, close, waitpid, serve, exit | failing forks, descriptors open in several processes, zombies, a blocked parent |
| HTTP request and response | `code_2026_05_23/code2/HttpServer.hpp`, `Util.hpp` | path, text, code and headers of one exchange; the directory of pages | parse, choose file, status, headers, length | pages that change between `open`, the second `open` and `stat`; incomplete request lines; a missing page for errors |
| `TcpServer` (thread per connection) | `code_2026_05_23/code1` | detached threads and the descriptor each captured | accept, receive, reply | one descriptor table for all threads, descriptors never closed, errors retried, `std::thread` throwing |
| UDP echo pair | `code_2026_05_22` | none beyond the sockets | `recvfrom`, `sendto` | loss, duplication, empty datagrams |
| sorting | `code_2026_05_28/code1/Sort.h` | the array | heap, three-way quick and merge sort | index arithmetic at the boundaries |
| `Logger` | `code_2026_05_23/code2`, `code_2026_05_24/*` | a mutex, a stream | log lines | none: each process logs from one thread |
| practice programs | `code_2026_05_21`, `code_2026_05_27/code1`, `code_2026_05_27/code2/main.cpp` | none | straight-line code | none |

How they interact. The threads of `main.cpp` and `demo()` meet only in the
queue, under its mutex. Handles of `mySharedPtr` meet in the atomic counter. A
client program and an event loop server exchange messages over a connection that
the kernel keeps; the server learns of its events in batches and works on its
table in between. The fork server's processes share connections through the
copies of descriptors `fork()` makes, and the parent waits for one of them.

What makes each part correct: the queue is a bounded FIFO that loses no wakeup
and drains before it reports its end; the programs on it lose nothing and end;
an object of `mySharedPtr` is deleted once, when and only when its last handle
goes; a server acts on no stale readiness, leaks no descriptor, answers every
client it admitted and survives those that leave; the fork server keeps
accepting, spreads no descriptors, leaves no zombies, and ends no connection it
has begun to serve under a client that waits; an HTTP response is
about one page, with the length of that page; a thread of the threaded server
reaches its own connection only; a UDP reply is to the line just sent; a sorting
function returns its array's elements in order and never leaves the array.

## 2. Modules

| Module | Models | Lines of code |
|---|---|---|
| `BoundedFifo` | abstract: a bounded FIFO with instantaneous, closable operations | what `BlockQueue` promises |
| `BlockQueue` | `push`, `pop`, `stop`, each lock, wait and notification a step | `BlockQueue.hpp` 13-50 |
| `QueueMain` | `main.cpp` on the steps of `BlockQueue` | `main.cpp` 5-26 |
| `QueueDemo` | `demo()` on the steps of `BlockQueue` | `BlockQueue.hpp` 53-73 |
| `Queue_proofs` | theorems about `BlockQueue`, `QueueMain` and `QueueDemo` | |
| `ObjectLifetime` | abstract: an object lives as long as a handle refers to it | what `mySharedPtr` promises |
| `SharedPtr` | every operation of `mySharedPtr`, by any number of threads | `mySharedPtr.h` 9-61 |
| `SharedPtr_proofs` | theorems about `SharedPtr` | |
| `EchoService` | abstract: admit, turn away, ask, answer, finish | what the three servers promise |
| `TcpNet` | the client program, the kernel's connections, `Socket.hpp` | `tcp_client.cpp`, `Socket.hpp` |
| `SelectServer`, `PollServer`, `EpollServer` | one event loop each, on top of `TcpNet` | `*Server.hpp` |
| `TcpNet_proofs` | lemmas about `TcpNet`: clients, descriptors, places, the map to `EchoService` | |
| `SelectServer_proofs`, `PollServer_proofs`, `EpollServer_proofs` | theorems about the event loops | |
| `OneShotService` | abstract: connect, accept, ask, answer, leave, end, give up | what the fork-twice server promises |
| `ForkServer` | the fork-twice server with the control flow of the HTTP service | `TcpServer.hpp` 13-50, `HttpServer.hpp` 178-196 |
| `HttpService` | `HanderRequest` from `Recv` to `Send`, over pages that change | `HttpServer.hpp`, `Util.hpp` |
| `ThreadServer` | the main thread, its detached threads and `Service`, on top of `TcpNet` | `tcp_server.hpp` |
| `UdpEcho` | both loops of the UDP pair and the network between them | `udp_server.hpp`, `udp_client.cc` |
| `Services` | one of the three programs above runs | |
| `Services_proofs` | theorems about the three programs, and about `ForkServer` | |
| `SortArray` | the array and what a caller expects of it | `Sort.h` |
| `HeapSort`, `QuickSort`, `MergeSort` | one sorting function each, an action per turn of a loop | `Sort.h` |
| `Sort` | a call of one of the three | |
| `Sort_proofs` | lemmas and theorems about them | |
| `MC*` | finite values for the constants of a run | |

**BlockQueue.** `queue`, `stop` and `mtx` are the members; `pc[t]` says where
thread `t` is inside an operation and `reg[t]` holds its argument or result. The
threads asleep on `not_empty_` are those with `pc = "popWait"`, those on
`not_full_` those with `"pushWait"`. A step is what runs between two points at
which another thread can interfere: `PushLock`, `PushWait` (the predicate is
false: release the mutex and sleep, atomically), `PushStore` or `PushDiscard`
with the unlock, then `PushNotify` outside the mutex. `notify_one` picks any
sleeper, and does nothing if there is none. `SpuriousWakeup` wakes a sleeper at
any time. `QueueMain` and `QueueDemo` extend the module and add the programs'
own variables; a thread's step is a step of its program or of the queue. The names of
`QueueDemo` begin with `Demo` where `QueueMain` has the same idea, so that one proof
module can extend both.

**SharedPtr.** `ref[s]` is the object that slot `s` refers to; a slot is a
handle or the by-value parameter of a thread's `operator=`. `_ptr` and `_pcount`
are always set together, so one reference stands for both. A copy reads the
reference first (`CopyConstruct`, `AssignCopy`) and increments the counter in a
step of its own (`Increment`); a release decrements and tests in one atomic step
(`Release`) and deletes the object and the counter in two more. The client is the
most general one without a data race on a handle. The counter has its width:
`CountRange` values, more than there are handles.

**TcpNet and the three servers.** A connection is a record of counters: messages
sent, received, replied to, replies read, and how each side ended it. The server's
descriptors are numbers that `Accept` hands out lowest first, as the kernel does,
so that the reuse of numbers is part of the model. What `select`, `poll` or
`epoll_wait` reported is remembered together with the connection that owned the
descriptor at that moment; only the properties look at that owner, the server
acts on the bare number. `Accepter` and `Recver` act as a whole, except that
between `recv()` and `send()` other parties may act.
In `EpollServer` the kernel's ready queue decides the order of events.

**ForkServer.** The clients are `Browsers`; a connection has its client's name, and
`pending` is the backlog. Each process has a stage and the set of descriptors it holds;
`fork()` copies the set. The parent runs through accept, fork, close and waitpid;
the child closes the listening socket and forks again; whoever comes out of the
second fork on the serving side runs receive, send, close, exit. Either fork can
fail, and the code's behaviour in that case (exit for the outer, serving in the
wrong process for the inner) is modelled as it is. When the outer one fails, `exit(1)` closes
the last copy of the listening socket (`LastListener` proves that no child has one then), and
the kernel ends every connection in the backlog together with the one at hand. For `OneShotService` a connection is
open as long as any process has a copy of its descriptor (`Open`), and a question is to be
answered while it is unread or a process is about to send (`Question`).

**HttpService.** One process serves one request, so the state is that of one
exchange: `target`, `text`, `code` and `headers` are the members of the request
and response objects, `page` is the directory. What a path leads to is nothing, a
directory, a file that cannot be opened or a file, which is its length; a text is
the path it was read from and a length, and the history variable `outdated` remembers
whether that very file has changed since. The steps end where the program asks the
file system something: between them `Change` may replace, add or remove a page.
`ForkServer` has the process this handler runs in.

**ThreadServer.** The main thread's `sockfd`, and for each connection the stage of
its thread and the number it captured. What a call of a thread reaches is
`fds[captured[c]]`, whoever owns that number now. `Dies` is the end of the process,
by SIGPIPE or by `std::terminate` when the constructor of `std::thread` throws.

**UdpEcho.** Datagrams in both directions are bags: any may be received next, any
may be lost, some may be doubled. A datagram is its number at its client and
whether it is empty; `shown` is the number of the line that the last printed reply
answers, which neither program knows.

`Services` is the disjoint sum of these three small programs: `program` says which
one runs, the others stay in their initial states. They share nothing; one state
machine and one run keep the project small.

**Sorting.** An array is a function on `0 .. size - 1`; `input` remembers what the
caller passed. A step is a turn of one of the loops, a call or a return. The recursion
of `QuickSort` and of `MergeSort`'s helper is a stack of the calls and merges that
are still to come (`calls`, `tasks`); `rand()` may pick any position. `arr.size() - 1` is
what it is in C++: a `size_t`, the largest one for an empty vector, converted to `int`
(`SizeLess1`, `ToInt`, `LastIndex`).

## 3. Runs

| Run | Instance | Shows |
|---|---|---|
| `core` | 4 threads, 2 values, capacity 2, symmetry | `NoLostWakeup`, the inductive invariant `IInv` (with `TypeOK`: never above the capacity), `ImplementsFifo` |
| `main` | 2 producers with 2 values each, 2 consumers, capacity 2 | `EveryValueOnce` (all printed at the end), `ProducerOrder`, `Terminates` |
| `demo` | 6 values, capacity 2, 2 spurious wakeups | `InLockstep`, `DrainsAndEnds` |
| `sharedptr` | 3 threads, 3 handles, 2 objects | `NoUseAfterFree`, `CountExact`, the inductive invariant `IInv` (with `NoLeak`, and `TypeOK`: no counter wraps), `ImplementsLifetime`, `EventuallyDeleted` |
| `select` | 3 clients, 2 places, 1 message each, 4 descriptors | the inductive invariant `IInv` (with `TypeOK`, and `NeverKilled`: no `SIGPIPE`), `TableExact` (descriptors stay below the table's size), `NoStaleDispatch`, `NobodyWaitsForEver`, `ImplementsService` |
| `poll` | 3 clients, 2 places, 1 message each | `NoStaleDispatch`, `NobodyWaitsForEver`, `ImplementsService` |
| `epoll` | 3 clients, descriptors for 2, 2 messages each, 2 events per wait, 1 failure of `epoll_ctl` | `NoStaleEvents`, `LeakBounded`, `WatchedAnswered`, `ImplementsService` |
| `epoll_leak` | 2 clients, 1 failure of `epoll_ctl` | finding: `EveryFdManaged` is violated |
| `fork` | 3 clients, each fork failing at most once | `OwnDescriptorsOnly`, `NoZombiesPileUp`, `KeepsAccepting`, `ResponseEnds`, `ImplementsOneShot` |
| `fork_blocks` | 2 clients, the inner fork failing once | finding: `ParentNotBlockedByService` is violated |
| `sort` | every array of up to 6 elements out of 3 values, every pivot; `int` of 5 bits, `size_t` of 6 | the inductive invariant `IInv`, `Sorts`, `Terminates` |
| `services` | HTTP: 4 paths, files of 3 lengths, 1 change; threads: 3 clients, 2 descriptors for them, 2 messages each; UDP: 2 clients with 2 lines each, 1 duplicate, any losses | `OnePage`, `HonestLength`, `RequestAnswered`; `ThreadsApart`, `ServedAlone`; `MatchUnlessDuplicated`, `TextAnswered` |

Where no `TypeOK` is listed, the first invariant of the module has it as a conjunct.

Why these bounds are enough to be interesting.
* Four threads and two places let two sleepers on one condition variable meet two
  notifiers, or a notifier and a thread that stops the queue; the proofs remove
  the bound. `main` has two threads of each kind, so that one `notify_one` has to
  choose, and four values for two places, so that producers sleep as well.
* Three threads and three handles allow a copy, an assignment and a destruction
  on one object at the same time; the second object is what an assignment
  replaces.
* Three clients and two places make the table full while somebody leaves, so that
  slots and descriptor numbers are reused within one batch of events. One spare
  descriptor is what a forgotten `close()` would eat. Two events per wait are
  fewer than the three descriptors that can be ready. `select` and `poll` give a
  client one message, `epoll` two, so that several messages of one client are in the
  exchange; for the safety of `select` the proofs remove these bounds.
* The bound on messages (`MaxMsgs`) ends a client's input; the bounds on spurious
  wakeups and on failures of `fork` and `epoll_ctl` are in the guards of the
  actions that count them, and have no influence on what happens before.
* Six elements out of three values include every pattern of equal, smaller and
  larger neighbours a partition can meet, heaps of three levels with an incomplete
  last one, and merges of halves of different lengths; zero and one element are the
  boundaries. The proofs remove the bound.
* Three clients and two descriptors let the threaded server run out of descriptors
  with a client in the backlog. One change of a page (`MaxChanges`) falls between any
  two of the four steps that look at the file system. One duplicate is what it takes to confuse
  the UDP client, which is why `MatchUnlessDuplicated` has its condition.
* `fork`, `fork_blocks` and `services` do not check for deadlock: when all clients
  are done the server waits in `accept()` or `recvfrom()`, or has exited. Everywhere else a state without a
  successor would be an error, and the end of a program is an explicit step
  (`Ended`).

### Fairness

Weak fairness of each thread or process: the scheduler runs whatever can run.
None of the programs has a loop in which one thread can keep another from a
mutex for ever, so nothing stronger is asked of locks. Strong fairness of
successful `accept()` in the event loops: `accept()` may fail now and then
(a signal, a moment without memory) but, being retried as long as the listening
socket is readable, not every time. In `epoll` that condition cannot be met when
no descriptor is left, and there the fairness asks for nothing. A client's blocked
`recv()` returns when there is something to return. No client has to connect, to
send, to read its input to the end or to leave. `EventuallyDeleted` asks only that
an operation that has begun goes on.

In `Services` the fairness of all three programs is one conjunction. It stays
satisfiable whichever program runs, because the initial states of the other two
enable none of the actions it is about; the liveness of a program therefore follows
from its own conjuncts. The HTTP process runs. Each thread of the threaded server runs,
and `accept()` is strongly fair as above. Both UDP programs run, and a datagram that
is not lost is received in the end; nothing says that a datagram is not lost, so
`TextAnswered` names the loss. `Sort` is sequential: its one thread runs.

### Remarks and findings

A comment says at `code_2026_05_23/code1/tcp_server.hpp:85` that a client whose
`accept()` failed will connect again by itself. The repository's client does not, and
need not: its connection is complete and stays in the backlog, from which the next
`accept()` takes it (`ServedAlone`).


* `epoll_leak`: `code_2026_05_24/code3/EpollServer.hpp:82` only logs a failing
  `epoll_ctl(EPOLL_CTL_ADD)`. The accepted descriptor is not registered, so
  `Recver` never sees it and nobody calls `Close()`, by which, the comment at
  `code_2026_05_24/code3/Socket.hpp:42` says, descriptors are managed. The
  `epoll` run shows that the damage is one descriptor per failure (`LeakBounded`)
  and that the other clients are served (`WatchedAnswered`).
* `fork_blocks`: `code_2026_05_23/code2/TcpServer.hpp:38` takes the -1 of a failed
  inner `fork()` for the grandchild's 0, so the process the parent waits for
  serves the client; the comment one line above says the second fork is there to
  keep the parent from blocking. `KeepsAccepting` names this failure as its one
  exception.

## 4. Proofs

Each proof rests on an inductive invariant, which is the last section of the module that
it is about: `IInv`, or a name with the program's prefix where several programs meet in one
proof module (`MainIInv`, `DemoIInv`, `HttpIInv`, `TcpIInv`, `UdpIInv`, `ForkIInv`, `ServiceIInv`). TLC has
checked every one of them on the instance of section 3, those that are not listed there by
adding them to the configuration's invariants.

### The queue and its programs

`Queue_proofs` proves, for every finite set of threads, every set of values
and every natural capacity (`ThreadsAssumption`, `ItemsAssumption`,
`CapacityAssumption`):

| Theorem | Statement |
|---|---|
| `Inductive` | `Spec => []IInv` |
| `TypeCorrect` | `Spec => []TypeOK`, which includes `Len(queue) <= Capacity` |
| `NoWakeupIsLost` | `Spec => []NoLostWakeup` |
| `Implements` | `Spec => ImplementsFifo`: the queue refines `BoundedFifo` |

`NoLostWakeup` is not inductive. It says that somebody is on the way when a thread
sleeps on a true predicate, but one somebody may be too few: with two items stored
and two sleepers, a taker that takes one item and returns would leave a sleeper
with a true predicate and no one on the way. The strengthening counts:
`WakeupsCoverItems` says that, while the queue is open and a thread sleeps on
`not_empty_`, there are at least as many threads that will take an item or notify
a taker as there are items, and `WakeupsCoverPlaces` says the same of free places
and `not_full_`. `StopWakesSleepers` covers the stopped queue, in which the
counting no longer holds and need not. `CriticalSections` ties `mtx` to the program
counters and keeps what the predicate of a wait has established until it is used.

The proof of a step goes action by action. `Base` (types and critical sections) is
shown first and alone. For the counting parts, the lemmas `LosesOne`, `Grows` and
`Swaps` say how a step changes the cardinality of a set of threads: most steps only
enlarge it, a thread that takes an item leaves it together with the item, and a
`notify_one` swaps a notifier for the thread it wakes, or finds that nobody sleeps.
The refinement maps each critical section to the abstract operation and everything
else to a stutter or a call or return.

Of the program in `main.cpp` it proves, for every finite set of producers, every finite set
of consumers that is not empty, any number of iterations and any capacity
(`ProgramAssumption`):

| Theorem | Statement |
|---|---|
| `ProgramInductive` | `MainSpec => []MainIInv` |
| `ProgramUsesQueue` | `MainSpec => Spec`: the program uses the queue as its most general client may |
| `EveryValueIsPrintedOnce` | `MainSpec => []EveryValueOnce` |
| `ProducersStayInOrder` | `MainSpec => []ProducerOrder` |
| `ProgramWakesSleepers` | `MainSpec => []NoLostWakeup` |

`EveryValueOnce` says that a value is in one place, and nothing of how it got there.
`Values` adds where values come from: the counter is the number of iterations begun
(`Iterations`), and the values that two producers have drawn (`Own`) are different.
`Roles` says what each thread can be doing. Its two important parts are that the queue is
stopped only when all producers have returned, so that `PushDiscard` never happens, and
that a consumer returns only when the queue is stopped and empty, which is why everything
has been printed at the end. `Once` counts: each of the four steps that move a value
(`Draws`, `Stores`, `Takes`, `Prints`, each a lemma) takes it from one of the four counted
sets and adds it to the next. `ProducerOrder` is about the printed lines only, but its
reason is in the places before: `Ordered` says that of one producer's values the older is
ahead, printed before in a hand, in a hand before in the queue, and in the queue before the
one that is being pushed.

Of `demo()` it proves, for any number of pushes, any capacity and any number of spurious
wakeups (`DemoAssumption`):

| Theorem | Statement |
|---|---|
| `DemoInductive` | `DemoSpec => []DemoIInv` |
| `DemoUsesQueue` | `DemoSpec => Spec` |
| `DemoStaysInLockstep` | `DemoSpec => []InLockstep` |

With one producer and one consumer every value has its position, so counting is not needed:
`DemoValues` says that the printed values, the one in the consumer's hand (`Taken`), the
stored ones and the one in the producer's hand (`Drawn`) are numbered one after the other
up to the counter. `DemoRoles` says that the producer stops the queue after its last push.

### mySharedPtr

`SharedPtr_proofs` proves, for all finite sets of threads and handles, every set of
objects and every width of the counter that exceeds the number of handles
(`SlotsAssumption`, `NamesAssumption`, `RangeAssumption`):

| Theorem | Statement |
|---|---|
| `Inductive` | `Spec => []IInv` |
| `TypeCorrect` | `Spec => []TypeOK`: no counter wraps around |
| `CountIsExact` | `Spec => []CountExact` |
| `NothingUsedAfterFree` | `Spec => []NoUseAfterFree` |
| `Implements` | `Spec => ImplementsLifetime`: the counters refine `ObjectLifetime` |

`CountExact` and `NoUseAfterFree` need each other and three more parts.
`OneWriter` says what the client's discipline, which the guards ask for only when an
operation begins, keeps true until it ends: a slot has one writer, and while a copy
has read the pointers and not yet incremented the counter, the handle it comes from
stays where it is and refers to the same object. That is why a release which brings
the counter to zero cannot miss an uncounted copy: the copy's source is counted, and
it is a second handle (lemma `ReleaseFinds`). `LastHandle` says that a thread which
deletes has the only reference left, and `NoLeak` that a live object has a handle, so
that a new handle to it can only be a copy of an old one. The proof first shows types
and `OneWriter` (`Base`), then each of the other parts in a lemma of its own, action
by action; `CountExactStep` follows the set of counted slots, which a construction
starts, an increment or a release changes by one slot, and a move or a swap keeps in
size (`Replaces`). For the refinement a handle stops being one at the decrement that
reaches zero (`Owning`): that step is the abstract `Drop`, and `DeleteObject` the
abstract `Delete`.

### The event loops

`SelectServer_proofs` proves, for every set of clients, every number of messages, any
backlog, every table size above zero and every finite set of descriptor numbers
without gaps (`NetAssumption`, `SlotsAssumption`: the kernel hands out the lowest free
number, of numbers that have no holes):

| Theorem | Statement |
|---|---|
| `Inductive` | `Spec => []IInv` |
| `TableIsExact` | `Spec => []TableExact` |
| `NothingStale` | `Spec => []NoStaleDispatch` |
| `ServerSurvives` | `Spec => []NeverKilled` |
| `Implements` | `Spec => ImplementsService`: the server refines `EchoService` |

None of the four properties is inductive by itself. `OneAtATime` says how far a client
and the server can be apart: the client program sends only when it has its reply, so
`sent` is at most one above `got`, and a connection that was reset has had its last
reply, which is why a received message is never answered into a reset (`SendsFinds`,
`NeverKilled`). `OnePlace` says that a connection is in the backlog or behind one
descriptor, and alive in both. `DispatchInv` is the statement about staleness: the slots
ahead of the dispatcher are fresh, and as long as the listening socket has not had its
turn, the whole set is; so a number that `accept()` takes is not in the set, although
its slot is still ahead. Clients cannot spoil that, since what is readable stays readable
until the server acts (`ClientSides`). The bound on descriptors is a pigeonhole argument
(`RoomBelow`), and so is the count of places in the refinement (`PlacesUsed`): the table
is full exactly if as many clients are admitted as there are places.

All three servers have `NetInv` in common (types, `OneAtATime`, `OnePlace`), and select and
poll the exact table (`Tabled`), so the lemmas about clients, `Accept`, `Recv`, `Send`,
`Close`, places and the map to `EchoService` are in `TcpNet_proofs`, stated once and free of
any server's variables.

`PollServer_proofs` proves the same for `PollServer`, for every table size and any numbers of
descriptors, with or without gaps:

| Theorem | Statement |
|---|---|
| `Inductive` | `Spec => []IInv` |
| `TableIsExact` | `Spec => []Tabled(fdOf, NoFd)`: an entry for each connection that is open, and no other |
| `NothingStale` | `Spec => []NoStaleDispatch` |
| `ServerSurvives` | `Spec => [](pc # "killed")` |
| `Implements` | `Spec => ImplementsService` |

Here what `poll()` reported is stored in the entries themselves, `revents` outlives the
connection it was about, and `Add` puts a new descriptor into the first empty entry, which
may be one the dispatcher has still to visit. What saves the code is the order: the
listening socket is entry 0, `Add` is called in its turn only, and at that time every empty
entry has `revents` 0, because `poll()` clears those of negative descriptors. That is the
second part of `DispatchInv`; without it the first (`Fresh` entries ahead) is not inductive.

`EpollServer_proofs` proves, for any number of events per wait and of failures of
`epoll_ctl` (`EpollAssumption`):

| Theorem | Statement |
|---|---|
| `Inductive` | `Spec => []IInv` |
| `NothingStale` | `Spec => []NoStaleEvents` |
| `LeakIsBounded` | `Spec => []LeakBounded`: a descriptor is lost per failure, and no other |
| `ServerSurvives` | `Spec => [](pc # "killed")` |
| `Implements` | `Spec => ImplementsService`, with failures of `epoll_ctl` |

The events are copied out, so the danger is an event about a descriptor that an earlier
event of the same batch has closed and `accept()` has handed out again. `DispatchInv` rules
it out because a descriptor has one event per batch and only its own event closes it: what
`accept()` takes is not watched, and what the events ahead name is. `LeakBounded` is part of
the invariant: it says which descriptors are watched.

### The server that forks twice

`Services_proofs` proves, for every set of clients, any backlog and any number of failures
of either fork (`ServerAssumption`):

| Theorem | Statement |
|---|---|
| `ForkInductive` | `ForkSpec => []ForkIInv` |
| `DescriptorsDoNotSpread` | `ForkSpec => []OwnDescriptorsOnly` |
| `ChildrenAreReaped` | `ForkSpec => []NoZombiesPileUp` |
| `ServiceInductive` | `ForkSpec => []ServiceIInv` |
| `ForkImplements` | `ForkSpec => ImplementsOneShot`: the processes refine `OneShotService` |

`fork()` copies whatever its caller has open, so what a worker holds depends on what the
accepting process held at that moment. `OneChild` keeps that exactly for every step of the
parent's loop, and that the loop has one child at most. A process identifier is the
connection's, and `Pending` says that a connection in the backlog has had no worker yet
(`Untouched`), so that a fork never meets the remains of another. `OneService` says that of
child and grandchild one serves, with the descriptor it needs.

A client sees none of this: its connection is open while anybody has a copy of the
descriptor, so whether a `close` or an `exit` ends it depends on all the other processes.
`ServiceIInv` adds what decides that. `Copies` says that a process has copies of its own
connection only, and of the listening socket only until it has closed it; `Served`, that a
connection that has left the backlog and whose client waits is with the parent before
its first fork, or with a worker that has not finished, who by `OneService` has a copy; and
`Asked`, that a question is unread or read by the one process that is about to answer it.
`ServiceReleases` draws the conclusion once for all steps that only give up copies: such a
step ends the connection only if its client has the answer or has left. The exceptions are
those of `GiveUp`: a server whose outer `fork` fails exits, which ends the connection it has
just accepted and all that wait in the backlog. `Served` names them (`LetDown`: the server is
dead and no process was forked for the connection); a connection that a process serves is not
among them.

### The three small programs

`Services_proofs` also proves, for any clients, pages of any lengths, any numbers of
changes, messages, lines and duplicates (`HttpAssumption`, `NetAssumption` and those of the
other two modules):

| Theorem | Statement |
|---|---|
| `Inductive` | `Spec => [](HttpIInv /\ TcpIInv /\ UdpIInv)` |
| `OneResponsePage` | `Spec => []OnePage` |
| `LengthIsHonest` | `Spec => []HonestLength` |
| `ThreadsStayApart` | `Spec => []ThreadsApart` |
| `RepliesMatchLines` | `Spec => []MatchUnlessDuplicated` |

`PageInv` follows the response from stage to stage, whatever happens to the pages: once it is
decided which page is sent, code, target and text agree. `FreshInv` relates the response to
the directory under changes: the length announced is that of the file as it lies there now,
the body is what the file holds unless that file is `outdated`, and the status is right for
the page asked for if nothing has changed. So `HonestLength` covers the race between reading and
measuring: what it leaves open is exactly a body from before a change with the length from
after it. `ThreadsInv` says that a thread's number
belongs to its connection as long as it runs, which holds because no descriptor is ever
closed, and counts the replies. `OneOnItsWay` says that before the first duplicate one
datagram at most of each client is in transit, in either direction or in the server's hands,
about the client's last line, and none while the client does not wait; a loss only takes it away.

### The sorting functions

`Sort_proofs` proves, for arrays of every size as long as the index `parent * 2 + 1` of a heap's
child is an `int` (`SizesAssumption`), any widths of `int` and `size_t` (`WidthAssumption`), any
integers (`ValuesAssumption`) and every choice of pivots:

| Theorem | Statement |
|---|---|
| `Inductive` | `Spec => []IInv`: every index stays inside the array, no element is lost or doubled |
| `Correct` | `Spec => []Sorts`: at the return the caller's elements are in ascending order |

`Sorts` speaks of the last state only; what makes it true is one invariant per loop.
`HeapInv` is a heap with one position out of order: the element that rises in
`AdjustUp` (everything but it is a heap, and its children fit below its parent), or
the one that sinks in `AdjustDown`; behind the shrinking heap everything is in its
place. `QuickInv` says that two positions are in order already unless one range that
is still to be sorted holds both (`SortedElsewhere`), that those ranges are disjoint
and ascend (`CallsAscend`), and what the three parts of the partition hold
(`PartitionInv`). `MergeInv` says the same with the pending tasks, which nest: a
merge waits until both its halves are done (`TasksNest`, `HalvesSorted`), and
`Merging` that what has been merged is ordered, not above what has not, and consists
of what has been taken from both halves. That the elements stay the same is counted: for every
value, the number of positions that hold it. `Sort_proofs` begins with the lemmas about
counting (a swap changes no count, a range grows by one position, two ranges add up).
The recursion is a stack in the state, so that no induction over data is needed.

### Only model-checked

Every safety property and every refinement that a run checks is a theorem. What stays with
TLC is liveness, because fairness and `ENABLED` are beyond the proof system here: `Terminates`
of `main.cpp` and of the sorting functions, `DrainsAndEnds`, `EventuallyDeleted`,
`NobodyWaitsForEver`, `WatchedAnswered`, `KeepsAccepting`, `ResponseEnds`, `RequestAnswered`,
`ServedAlone` and `TextAnswered`. `EveryFdManaged` and `ParentNotBlockedByService` do not hold
(section 3). The refinements are of safety: `BoundedFifo`, `ObjectLifetime`, `EchoService` and
`OneShotService` state no fairness.

## 5. Not modelled, and why

* `Logger`: one thread per process uses it, so its mutex is never contended, and
  no property is about its text.
* Practice programs: no state that outlives a statement.
* Payloads: a message is its number, a reply the numbers it greets. NUL bytes and
  messages longer than the buffers of `recv()` are therefore outside the models,
  and so are segments that TCP splits.
* The start of the servers (`socket`, `bind`, `listen`, the first `epoll_ctl`):
  a failure ends the process before it serves anybody.
* Clients other than the repository's: one that sends without reading could make
  a server block in `send()`. UDP clients that a signal ends: their replies go to a
  closed port.
* `new` failing inside `push()`, and destructors of `T` that touch handles.
* The text of HTTP: header lines, the URI character by character, the format of the
  status line. A request line is one of the shapes the code distinguishes. A request
  in several segments is one whose end has not arrived, since the server receives once.
* The values of a sorted vector beyond the order on integers, and the overflow of
  `int` indices, which would need a vector of more than 2^30 elements.

## 6. Plan

The order of the work, most important first. Done: 1 to 14.

1. `BlockQueue` with its abstraction, the two programs on it, and the proofs.
2. `SharedPtr` and `ObjectLifetime`.
3. `TcpNet`, `EchoService` and the three event loops.
4. `ForkServer`.
5. `SharedPtr_proofs`: type correctness, exact counts, no use after free, refinement.
6. `HeapSort`, `QuickSort`, `MergeSort`, `Sort` and their proofs.
7. `HttpService`: request line to file, status and headers over changing pages.
8. `ThreadServer` and `UdpEcho`: descriptors that are never closed, errors that are
   retried; loss, duplication and reordering.
9. `SelectServer_proofs`: exact table, no stale readiness, survival, refinement.
10. `TcpNet_proofs`, `PollServer_proofs`, `EpollServer_proofs`: the same for poll, with
    `revents` that stay in reused entries, and for epoll, with the descriptors that failures
    of `epoll_ctl` leak.
11. `QueueMain` and `QueueDemo` in `Queue_proofs`: once, in order, all printed.
12. `HttpService`, `ThreadServer` and `UdpEcho` in `Services_proofs`.
13. `ForkServer` in `Services_proofs`: descriptors and zombies.
14. `OneShotService`, what the server that forks twice promises its clients, and that
    `ForkServer` implements it.
15. Left: of the liveness properties, the safety steps behind them (what a step that helps a
    waiting thread does to it) as action properties, which can be proved.
