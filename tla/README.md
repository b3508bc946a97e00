# A verification project for Libeva

Libeva (`src/`) is a C++17 network library in the style of muduo: one event loop
(reactor) per thread, functors to pass work between threads, a time wheel, TCP
servers on top, some concurrent containers (`ds`), and a small memcached
(`minimemcached`) as an application. This directory holds TLA+ models of it,
TLC configurations that check them, and proofs that TLAPS checks. Paths below are
relative to `src/`.

## 1. Inventory

| Component | State | Operations | Hard behaviour |
|---|---|---|---|
| `libeva/Reactor/Reactor` | `dispatching_`, `hasPendingFunctors_`, `callingPendingFunctors_` (atomics), `pendingFunctors_` (mutex), the eventfd's counter, `activeEvents_` | `dispatch`, `runInReactor`, `queueInReactor`, `stop`, timers | other threads queue and stop while the loop tests, sleeps, swaps and clears its flags |
| `Reactor/Event`, `Demultiplexer` | events asked for, `kNew/kAdded/kDeled`, the epoll set, `eventMap_` by descriptor | `enable*`, `disable*`, `remove`, `handle`, `demultiplex` | plain pointers in the batch of active events; descriptors that are used again; callbacks that go by what poll saw |
| `Reactor/ReactorThread`, `Thread/Thread`, `CountDownLatch` | `reactor_` (atomic pointer), the reactor on the thread's stack | `startDispatch`, destructor | publication of the pointer; destruction while the loop starts, runs or ends |
| `Reactor/ReactorThreadPool` | `reactors_`, `nextIndex_` | `start`, `getNextReactor` | round robin, joins in the destructor |
| `TimeWheel` | `slot_` (lists of timers), `start_`, `startIdx_` | `addTimer`, `cancel`, `tock` | truncated times, a loop that lags, timers added remotely, lists changed while they are traversed |
| `Net/Buffer` | `buffer_`, two indices | append, retrieve, prepend, `readFd`, shrink... | moving and growing |
| `Net/TcpConnection` | `state_`, the event, two buffers | `send`, `handleRead/Write/Close/Error`, `connectEstablished/Destroyed` | partial writes, sends of other threads, close and reset while an event is handled |
| `Net/TcpServer`, `Acceptor` | `connMap_`, acceptor, pool | `start`, `handleNewConnection`, `removeConnection`, destructor | a connection's life is spread over two threads and shared pointers in functors |
| `ds/FineGrainedQueue` | a linked list, two locks, a condition variable | `push`, `tryPop`, `waitAndPop` | the two ends work under different locks |
| `ds/StealingQueue`, `Thread/MyThreadPool` | `queues_` (a deque per worker), `shared_queue_`, `running_` | `run`, `start`, `stop`, the workers, destructor | stealing at the other end, tasks that wait for tasks, a thread that cannot be made |
| `ds/LazyList`, `ds/HashSet`, `utility/SpinLock` | a sorted list with a lock and a mark per node | `add`, `remove`, `contains`, `get` | readers without locks, nodes deleted under them |
| `minimemcached` | the conversation's state, the entries' table | `get`, `set` | requests and values that arrive in pieces |
| `Logger/LogStream` | a buffer of 4000 bytes | `<<` for each kind of item | numbers converted in place, quantities with a unit, a stream that is full |
| `Logger/Logging` | `g_logLevel`, a cached text of the time per thread | a log statement, FATAL | what `abort()` and the exit leave unwritten |
| `Logger/LogFile`, `FileUtil` | the file, `writtenBytes_`, `count_`, `lastRoll_`, `lastFlush_` | `append`, `flush`, `rollFile` | short writes, one file a second, a clock that is looked at seldom |
| `Timestamp`, `Net/Socket`, `InetAddr` | a time, a descriptor, an address | formatting, system calls | little control of its own |

How they interact. A thread hands a functor to a reactor (`runInReactor`); the
reactor's loop calls `Event::handle`, which calls back into connections and
acceptors; these call the program's callbacks, which call everything else. The
acceptor's reactor owns `connMap_`; each connection belongs to one reactor,
chosen round robin, and every change of it happens on that reactor's thread,
through functors that hold a `shared_ptr`. The time wheel is ticked by the loop.
`MyThreadPool` uses both queues of `ds`; `minimemcached` uses `TcpServer` and
`HashSet`. Everything logs: a statement composes its line in its own thread and
hands it to an output function, which `Logger/tests/logfile_test.cc` sets to a
`LogFile` that all threads share.

`PROJECT.json` lists the hazards, each at its line with the properties that
cover it, and maps every definition to the lines it models.

The build is `Release` with `-DNDEBUG`: the assertions are compiled out, so the
models go on where an assertion would stop the program. Some assertions are
properties: that of `makeSpace()` is `MovesToTheFront`, and those of
`TcpConnection.cc:156`, `TcpServer.cc:100` and `Demultiplexer.cc:60`, 106 to 108, 110
and 121 are `AssertionsHold`. One is false wherever it is reached,
`Demultiplexer.cc:136` (section 5).

## 2. The modules

    Executor      <-- Reactor  <-- ReactorThread      (EXTENDS Reactor)
    ByteString    <-- Buffer
    FifoQueue     <-- FineGrainedQueue
    TaskPool      <-- MyThreadPool
    KeyTable      <-- LazyList
    LogStream, LogFile  <-- Logging                   (EXTENDS both)
                      TimeWheel    TcpServer    TcpConnection    Conversation
    ReactorProofs       (EXTENDS ReactorThread, TimeWheel)
    TcpConnectionProofs (EXTENDS TcpConnection, Buffer)
    TcpServerProofs     (EXTENDS TcpServer)
    ConversationProofs  (EXTENDS Conversation)
    FineGrainedQueueProofs (EXTENDS FineGrainedQueue)
    MyThreadPoolProofs  (EXTENDS MyThreadPool)
    LazyListProofs      (EXTENDS LazyList)
    LoggingProofs       (EXTENDS Logging)

The arrow to an abstract specification (the first column of the first five
lines) comes from the detailed one that implements it. `MC*.tla` with its `.cfg`
instantiates a module for TLC. A definition whose comment begins with "Mutant of"
is no part of the model: it is what a plausible bug would turn the named
definition into, and substituted for it, it violates the property that
`PROJECT.json` pairs it with. The specifications of TimeWheel, Buffer and of the
composition in ReactorThread are named `WheelSpec`, `BufferSpec` and `ThreadSpec`, so
that one module of proofs can extend them next to another.

**Reactor.tla**, `Reactor.cc`. Every access to an atomic and every critical
section of `mutex_` is one step; `pc` is the owner's place in `dispatch()`, and
`call[t]` where thread `t` is between the push, the flag and the write to the
eventfd. `activeEvents` holds the wakeup event and one other descriptor, whose
callback may, like a timer's or a functor, call the reactor again. The counter of
the eventfd is only zero or not zero to its readers. `Executor.tla` is what all
this implements: a queue of functors, each executed once and in order, to which
the owner may prefer executing one on the spot. A functor is handed over at most
once in the model, so that order and duplication show.

**ReactorThread.tla**, `ReactorThread.cc` with `Thread.cc` and
`CountDownLatch.cc`. It extends Reactor with the life of the object
`threadFunc()` keeps on its stack and of the `ReactorThread` itself, and runs
Reactor's own actions under the conditions these put on them.
`DestroyAfterStart` says whether the program destroys the object only after
`dispatch()` has begun, and `FunctorsMayStop` whether a functor may call
`stop()`. The init callback may queue functors and does not stop the loop. The run
destroys the object after `dispatch()` has begun, as the repository's test does. With
`DestroyAfterStart = FALSE` the code loses the destructor's `stop()`, which
`dispatch()` overwrites (`Reactor.cc:60`), and `DtorReturns` is false. And if a
functor stops the loop, the destructor may call `stop()` of a reactor that is
destroyed already (`ReactorThread.cc:18`): in the model, `DtorStop` with `object`
"destroyed".

**FineGrainedQueue.tla**. Each access inside a critical section is a step, since
the other end's critical sections are not excluded by it; `getTail()` is one step
that needs `tail_mutex_` free. `FifoQueue.tla` is the abstract queue: a push
takes effect where `tail_` moves, a pop where `head_` moves.

**TimeWheel.tla**. Time is counted in units, `Unit` to the millisecond, and
`RoundedDown` holds the differences for which the product of a double by 1000
falls short of a whole number (1.001 s is one), so both truncations of the code
show. `slot[i]` is a list. `fault` records what ends the process or touches a
timer that is null or deleted. The run cancels only timers that head a list
that is not being traversed (`CancelAny = FALSE`): for another timer the code goes
through `pre_`, which is always null (`TimeWheel.cc:152`), and with
`CancelAny = TRUE` `NoFault` is false.

**Buffer.tla**. A buffer is a record of bytes and two indices, its operations
are functions, and `ByteString.tla` is the string its users see.

**TcpServer.tla**, `TcpServer.cc` with `Acceptor.cc`, the life of connections and the
demultiplexers. A reactor is reduced to what Reactor.tla shows of it: it reads the
events that are ready, handles the batch one by one, executes the functors queued so
far, in order, and tests for a stop. Handlers and functors are single steps, as all
they share across threads is the functor queues. A connection exists as long as
`Referenced` finds a `shared_ptr` to it, those of the functors in a batch among them,
which live until the batch ends; then its descriptor is free, and `accept4()` gives out
the lowest free one. `eventMap` is each demultiplexer's map from descriptors to
events, and `updateEvent()` and `unregisterEvent()` go by it and by the event's
state. `accept4()` may fail. `newConnCb_` and `finConnCb_` are counted.

**TcpConnection.tla**, the bytes of a connection in both directions. `Demultiplex` sees
what is ready; `handleRead`, `MessageTaken` (the return of `msgCb_`) and
`handleWrite` are the steps of `Event::handle`, which goes by `revents` whatever has
changed since. The socket holds at most `Room` bytes and takes any number of bytes it
has room for. The peer reads, sends, closes or resets, and a reset leaves an error
behind. A TCP socket that has `POLLHUP` has `POLLIN` too, so `handle()` never calls
`closeCallback_` by itself. `send()` on another thread is a test of `state_` and then
the queueing of a functor. That functor is bound to the plain `this`: the program is
assumed to keep the connection until it has run. `accepted` is the history of what
`sendInReactor()` took in while the connection was open, `taken` of what `msgCb_` took.

**Conversation.tla**, `minimemcached/Conversation.cc` with the entry it
assembles and the table of `MiniMemcached.cc`. The stream of a client consists
of whole lines, of the bytes of values and of the line ends behind them, and
arrives in pieces cut anywhere. A step is one turn of the loop of `msgCb()`; the
server has one sub reactor (`MiniMemcached.cc`, `setSubReactorNum(1)`), so one
`msgCb()` runs at a time and the locks of the shards never contend: they are one
table here (LazyList.tla shows that it is one). All keys have the same length.
Clients send while no callback runs, as nothing arrives during one. Replies other
than those of "get" are left out.

**MyThreadPool.tla**, `MyThreadPool.cc` with `StealingQueue.h` and `ThreadsJoiner`. Each
operation of a queue is one critical section and one step; the shared queue is the
FifoQueue that FineGrainedQueue implements. A scenario is a program: the tasks of the
owner, and what each task does (hand over a task, wait for one, stop the pool). Workers
start one by one, and those that run already search the queues there are. The vector
`queues_` is taken to have room for all: where it has not, `start()` moves it under
its readers (see the hazard at `MyThreadPool.cc:61`). `TaskPool.tla` is the abstract
pool, which runs each task once.

**LazyList.tla**, `LazyList.h` over the buckets of `HashSet.h`, with `SpinLock.h`. A step
is a node of the walk, a lock, the validation, a critical section's write: validation
and write are two steps, and that nothing comes between them which matters is what the
two locks are for. Deleted nodes leave the
domain of `node`, so that a link to one shows. `remove()` deletes its node at once,
which the code itself marks with a FIXME: it runs alone here, as in all the
repository's programs. `KeyTable.tla` is the abstract table; an `add` takes effect
where it links its node or overwrites one, a `remove` where it marks.

**LogStream.tla**, **LogFile.tla** and **Logging.tla**. A stream is a sequence of pieces
with their lengths; the digits of numbers are computed as the code does, with C++'s
truncating division, since that is where the edges are. So are the quantities of
`formatSI` and `formatIEC`, in two parts: the value that chooses the row of the text, and
the double that is printed, which in `formatSI` need not be the same (the row is that of
the integer, `LogStream.cc:134`, and integers of more than 53 bits have no double of
their own). A quantity is four digits and a power of ten, or hundredths of a power of
1024; where its double may begin with the next digits, or a half be printed downwards,
`SIDoubles` and `IECDoubles` have both. LogFile is `append`, `flush` and `rollFile` step by step
under the lock, with `fwrite` that may fall short. Logging wires the two as
`logfile_test.cc` does: composing a line touches nothing of other threads and is one
step, everything with the file is LogFile's. `ScenarioAssumption` says what a program
may log: any integer and any string, and all quantities of 64 bits that are not
negative. That the text of a
number is shorter than `kMaxNumericSize` is what `staticCheck()` of `LogStream.cc`
asserts of the types that `<<` takes.

## 3. The runs

| Run | Instance | Shows |
|---|---|---|
| `reactor` | 2 threads, 3 functors, 2 stops, 2 dispatches | `NoSleepOnPending`, `NoSleepAfterStop`: no lost wakeup, for functors and for stops. `BatchIsFixed`. `Implements`: Executor. `EveryFunctorRuns`, `StopEndsDispatch` |
| `reactor_thread` | creator and another thread, 2 functors, destroyed after its loop has begun | `NoMemberUseAfterDtor`, `DtorReturns` |
| `fine_grained_queue` | 2 producers, 2 consumers, 2 values, 2 pushes | `NodesSafe`: no race on a node and none used after its delete. `Implements`: FifoQueue. `CallsReturn` |
| `fine_grained_queue_lost_wakeup` | 1 producer, 1 consumer | **violation** of `WaitAndPopReturns`: a notification is lost |
| `time_wheel` | 2 timers, 5 slots, half milliseconds, a lag of 2 ms | `NoFault`, `TimersOnTime`, `TimerFires` |
| `buffer` | 3 byte values, 9 strings of up to 3 bytes, at most 6 bytes | `MovesToTheFront`, `Implements`: ByteString, `CallsAreExact` |
| `tcp_server` | 0 or 2 sub reactors, 2 connections | `CallbacksPaired`, `NoDanglingEvent`, `AssertionsHold`, `NoCallbackAfterDtor`, `ClosedIsDeleted` |
| `tcp_connection` | 1 other thread, messages of 3 and 1 bytes, room for 2, 3 sends, 2 bytes of the peer | `WritingWhileOutput`, `StreamIntact`, `NoWriteAfterClose`, `EverythingArrives` |
| `conversation` | 2 clients with 2 requests and 1, 2 keys, values of 2 and 3 bytes, `kMaxValue` 2 | `EntryFits`, `StoredWasSent`, `GetsAreAnswered` |
| `thread_pool` | 7 programs of up to 4 tasks on 1 to 3 threads | `Implements`: TaskPool. `EveryTaskRuns`, `DtorReturns` |
| `lazy_list` | 2 threads with 2 calls each, 3 keys in 2 buckets, 2 values | `ReadersSafe`, `Implements`: KeyTable, `CallsReturn` |
| `logging` | 2 threads of 2 to 4 statements, ticks, short writes; 1 statement of each kind of item and for each filling of the stream | `MessagesIntact`, `BufferedIsFresh`, `FilesBounded`, `LinesRight`, `EndsOnDisk` |

A module's type invariant (`TypeOK`, `FileTypeOK`, `ThreadTypeOK`) says what values its
variables take. Those of Reactor, Buffer, TcpConnection, TcpServer and
FineGrainedQueue are theorems; in the other proofs the types are part of the
inductive invariant. The finding in
`PROJECT.json` quotes, for the violation, what the repository's test expects.

Why the bounds are enough. Three functors make a batch of two with one queued
behind it; two dispatches let a stop and functors survive from one to the next;
two callers besides the owner race with each other and with it. Two pushes with
two values and four threads have every pair of critical sections overlap, with
the queue empty, of one element and of two. Two threads of LazyList with any
two calls each, in a bucket of two keys and one of one, overwrite, insert and remove
under each other's walks and fail each other's validations; a third thread would only
add to those who wait. Five slots, delays of up to 2.5 ms
and a lag of 2 ms let delays cross the end of the wheel, two timers share a slot,
and one `tock()` pass several slots; ten half milliseconds are one turn. A buffer
of at most 6 bytes with a prepend area of 1 moves, grows and spills. Two
connections on two sub reactors and on none cover both ways in which a functor is
posted, and the second may get the descriptor of the first on another reactor; the
third connection would repeat the first. A message longer than the
socket's room is written in parts. Of a client's two requests one value can be cut
or be too long while the other request is read right behind it; the second client
stores and reads between the pieces. Of the pool's programs, one has a task wait for
a task behind it in its own worker's queue, one two such tasks on three threads, others
stop the pool at any time, by the owner or by a task, fail to make the second thread,
or have one thread only. In the logger a file of 200 bytes takes four short lines, so
it rolls by size and, with a period of four seconds, by time; two short writes cut a
message; `Size` is the real 4000 bytes, filled up to every distance from its end
that the code tells apart, and the numbers are those at which a sign, a digit or a
unit changes. Where a run disables the deadlock check, the
system may really stop: the bounded calls have been made, or the loop sleeps with
nothing to do.

Fairness. A thread inside a call goes on with it, a loop goes on while it has
something to do, and callbacks return (weak fairness). Nothing makes
`epoll_wait` time out or another descriptor ready, so the liveness of the reactor
is owed to its wakeups alone. Threads never have to begin a call. In
FineGrainedQueue a thread takes a lock that is released again and again at last
(strong fairness); no implementation of `std::mutex` forbids it and the property
would be false of any lock without it. In TcpConnection a peer that keeps the
connection open reads, and as `Reactor.tla` shows that every queued functor is
executed, a queued send is (strong fairness, as an event may be in the loop's hands
at any one moment). In MyThreadPool the workers go on, and `start()` and the
destructor; nobody has to stop or destroy a pool. In LazyList calls go on; locks need
no more than that, as calls are bounded. Logging is checked for safety only. In
Conversation what was sent arrives, in pieces of any
size.

## 4. The proofs

Every safety property of a passing run, the invariants, the action properties and the
refinements, is stated by a theorem. Each rests on an inductive invariant, and on no
assumption but those the modules make of their constants and those named here.

`ReactorProofs.tla`, the reactor (for any threads, functors and bounds). The properties are not
inductive by themselves; `IInv` adds to the type invariant that a functor queued
where the loop will not see it (the flag is down, or the loop is past its last
look at it, `Blind`) is covered by the eventfd or by a caller that is still on its
way to write it (`Covered`), the same for a stop (`NoSleepAfterStop`), and that
only the other threads are between the push and the write (`OwnerCalls`). From it
follow

- `TypeCorrect`, `NothingForgotten`, `NoLostStop` and, from `~OwnerQueuesEarly`,
  `NoLostWakeup`: what the owner queues before `dispatch()` writes no wakeup
  (`Reactor.cc:128`), so without that assumption the statement is false;
- `BatchOnlyShrinks`, an action property;
- `ReactorImplementsQueue`: every step maps to a step of Executor or to a
  stutter, with `batch \o pendingFunctors` as the queue.

`ReactorProofs.tla`, the reactor and its thread (for any threads and functors, and
whatever `DestroyAfterStart` and `FunctorsMayStop` are). `Lockstep` says where the
creator and the started thread can be at the same time; `NoUseAfterDtor` follows.
`ThreadRunsReactor`: every step of the composition is a step of Reactor or leaves
Reactor's variables alone, so `ThreadSpec => Spec`, and what is proved about a
reactor holds for one that is started, published, used and destroyed by threads.

`ReactorProofs.tla`, the time wheel (for any timers, slots, units, lag, and any times
that the conversion to a double rounds down). `WheelNeverFails` and `TimersRunOnTime`,
under `WithinATurn`: a delay is at least a millisecond and, with the largest lag,
less than a turn of the wheel; functors that add timers are executed before their
timers are due (`Prompt`); and what is cancelled heads a list that is not being
traversed. Without the first the wheel is wrong (`TimeWheel.cc:59`), without the last
it goes through a null pointer (`TimeWheel.cc:152`). `Behind` says that the wheel is never
ahead of the clock, nor will be when `tock()` has turned it; `Waiting` that a timer
whose functor is queued is still due when it is added; `Lists` that each list holds
armed timers of its slot, once; and `Armed`, the heart, that the wheel comes to a
timer's slot in the millisecond before it is due: each slot the wheel advances brings
every other timer one nearer, and none is left in the slot it leaves, as a delay added
by a callback never has the present slot.

`ConversationProofs.tla` (for any clients, keys, values and limits).
`EntryIsLargeEnough`: no sequence of requests, cut in any way, takes an entry
beyond the memory it has. `EntryFits` needs to know that what a conversation
takes for a value are bytes and that a line announces a natural number, so `IInv`
adds the types of the streams; that `findCRLF` finds the first line end is the
least element of a set of naturals. The theorem rests on the assumption that
all keys have one length which the first entry can hold (`LengthsAssumption`).
With keys of several lengths it is false: `resetKey( key )` only asserts that the
new key fits (`Entry.h:45`), and after a "set" of a short key and value, to whose
length the entry is cut down, a "get" of a longer key does not.

`StoredValues`, in the same module: what the table holds for a key was sent for it by
some client, and is whole unless a value of that client was cut. `LinesAnnounce` says
this of the future: behind each line of a "set" that has not been read stands a value that
was sent for its key, of the length it announces, and the bytes that have arrived do not
end inside it. `ValueIsNext` is the same of the value a conversation waits for. It
is the stream of what has arrived and what is under way, one behind the other, that
they are about: an arrival does not change it, and a read takes its front
(`Shifted`).

`TcpConnectionProofs.tla`, the connection (for any messages, any threads that send, any number of
sends and any room in the socket). `WriteEventIsRight`, `BytesArriveInOrder` and
`NothingAfterClose`. `IInv` says that the connection writes only while it is
established, that what was accepted is what was received, what the socket holds
and what waits, in a row (`InRow`), and the same for the other direction; and
`EndInv`, without which the end of the stream is not inductive: what poll saw is
still there when `handle()` gets to it, or the peer is gone, and so a connection
that was closed because it read nothing has nothing left to read. Two lemmas about
strings in a row, `MoveToSecond` and `MoveToFirst`, carry all the steps.

`TcpConnectionProofs.tla`, the buffer (for any bytes, strings and sizes). One lemma
per operation says that it keeps a buffer well formed and what it does to the
content; the theorems `BufferTypeCorrect`, `MoveIsSafe`, `CallsCorrect` and
`BufferImplementsString` combine them.

`FineGrainedQueueProofs.tla` (for any producers, consumers and values). `Locks` says
whose critical section a lock is, `Room` that every push that has begun has a node,
`Chain` that the nodes are linked and filled up to the tail and how far the push
at the tail is, `Held` that a pop that unlinks has seen a node to unlink and that
no two pops hold the same node. `NodesAreSafe` is arithmetic from there: what a pop
holds is before `head`, and what a push writes is at `tail`. For
`ListImplementsQueue` the queue is the entries from `head` to `tail`; a push takes
effect where it moves the tail (`TailStep`), a pop where it moves the head
(`HeadStep`), and the entry a push writes before that is behind the queue
(`EntryStep`).

`MyThreadPoolProofs.tla` (for any programs, tasks and number of threads).
`EachTaskRunsOnce`: the pool implements TaskPool. `Apart` says that a task is in one
queue, once; `RunOnce` that a task a worker has is in no queue and in no other
worker's hands, and is not done; `Fresh` that a task whose `run()` has not been
called yet is nowhere, which is what makes the queues free of duplicates when it
is. Three lemmas about sequences (`AppendOnce`, `TailOnce`, `FrontOnce`) give the
two ends of the queues, and every step then is one of `HandsOver`, `Takes`,
`Finishes` or none. That the victim of `stealWork()` exists follows from `numQueue`,
read once, not being larger than `queues_`, which only grows. The theorem rests on
`HandedOverOnceAssumption`: each call of `run()` is given a task of its own, that
is, a task is named by the call that hands it over.

`TcpServerProofs.tla` (for any finite set of connections, any sub reactors and any
number of them). `ServerCallbacks`, `ServerEvents`, `ServerAssertions` (of the lines
that `AssertionsHold` names) and `ServerGone`. What the life of a connection hangs on are the functors that are still
to be executed, so `Inv` is about `Todo`, each reactor's functors as one sequence
across its batch and its queue: swapping the queue into a batch changes nothing of
it, and a functor is executed at its head. The parts of `Inv` are `Phases` and
`Handled` (the loop, and what it has in hand), `Unseen` and `Calls` (the state of a
connection and its callbacks), `Homes` (a functor is with the reactor that must
execute it, and none of a connection is before its `connectEstablished`), `Kept` (a
connection that is not finished is in `connMap_`, or its `connectDestroyed` is due, or
its reactor's loop is over), `Removals` (while the server is there a connection is
removed once), `Descriptors` and `Found` (connections that are not deleted have
descriptors of their own, and events are found by them) and `Joined` (the destructor
waits for the loops). That `accept4()` finds a free descriptor is the pigeonhole
principle, and that there is a lowest one the library's theorem that subsets
of a finite set are well-founded. Steps that move functors are compared by what
they do to `Todo` (`Ran`), once for the three kinds of functors. For the assertions two parts
are added, and carried over each step by where every functor of `Todo` was before it
(`Moves`): `Ends` (a connection that is in `connMap_`, or whose `connectDestroyed` is
still due, is registered once it has been established, and no second
`connectDestroyed` is due for it) and `FoundOnly` (a descriptor finds no event but the
registered one of the connection that has it).

`LazyListProofs.tla` (for any threads, buckets, keys, values and number of calls).
`Implementation`: the table that the linked nodes tell is KeyTable's, and a call takes
effect where it links, overwrites or marks. `SafeReaders`: at every moment the lists
are sound for those who follow them without a lock, and what such a call returns was
so during it. `Sorted` makes a list of the nodes that are linked, without saying what is
reachable: every link leads to the next greater key of its list that there is. `Locks`
says that a lock is held from a guard's beginning to its end, and that the two nodes
which have been validated under both locks stay unmarked neighbours until the call
writes: another `add` that could come between them needs one of the locks. `Removes`
and `RemoveOf` carry the condition that a `remove` runs alone. `Current` is about
readers: of a key that has been in the table all the time a reader has not passed
the place, and what a call has seen includes what the key has now. That the
linked nodes are those which are reached from the heads, a recursive function in the
model, is shown in both directions: after each number of links, a linked node has
been met or the walk is at a node before it (`LinkedReached`).

`LoggingProofs.tla` (for any threads, statements, sizes, intervals, ticks of the clock
and short writes). `Intact`, `FreshBuffer`, `BoundedFiles`, `DiskAtEnd` and `OwnLines`
follow from `LogInv` and from what a statement's stream comes to.

- A message goes to a file while its thread holds the mutex, so what a thread has
  written of it so far ends the current file (`Partly`); whose segment is in a file has
  begun (`Taken`), a segment that does not begin a message follows the one it continues
  (`Rows`), and a message begins once (`Once`). `Cuts` pays for each message that is cut
  with two of the short writes there have been, for the code writes again after one.
- `Counts`: the messages that have begun since a flush was due, and those in a file of
  another period, are no more than the calls `count_` has counted; so the call that
  would be the next one flushes, or rolls the file. `Bytes` and `Sizes` do the same for
  `writtenBytes_` and `rollSize_`: only the message being written goes beyond it.
- `Ends`: when `abort()` is called, what the fatal thread has output is behind its own
  flush. `Times`: a thread's cached text is that of its cached second.
- A stream is composed piece by piece: whatever is logged, `<<` writes a piece only
  where it fits, with the end that the code's test leaves free, and no piece is written
  but the right text of its item (`Streams`, `StreamRight`). The fold over a statement's
  items is a recursive function in the model (`Adds`).
- For numbers, `Numerals` is the sequence of digits which the recursion of `convert()`
  comes to; that it exists, that its first digit is not zero and that reading it from
  the left (`Horner`, what `Decimal` does) gives the number back, makes
  `Decimal(convert(v)) = v` a theorem for every integer, the least one included. The
  lengths of `formatSI` and `formatIEC` are found from the bounds of their units: a
  number of four digits with a decimal point comes of one SI quantity only (`SIFits`).

What a recursive function computes is shown in LoggingProofs, LazyListProofs and
ConversationProofs without a theorem of induction, which would take an operator: the set
of numbers at which a claim fails, if it is not empty, has a least element
(`LeastNumber`, `Least`), and the claim holds there by the step from the one below.

Only model-checked: the liveness properties (`EveryFunctorRuns`, `StopEndsDispatch`,
`DtorReturns`, `CallsReturn`, `TimerFires`, `ClosedIsDeleted`, `EverythingArrives`,
`GetsAreAnswered`, `EveryTaskRuns`), as TLAPS does not reason about fairness and ENABLED
here, and what TLC refutes, `WaitAndPopReturns`. The models that the proofs are about
are the ones the runs check.

## 5. Not modelled

Wrappers of single system calls (`Net/Socket`, `InetAddr`) and the texts of
`Timestamp`: they keep no state of their own. Files that no target builds
(`Thread/ThreadPool`, `ThreadLocal*`, `MyThread`, `UnorderedLazyList.h`, `MaxVal.h`).

Unreachable code: `shutdownInLoop()` (nothing assigns `kDisconnecting`),
`handleDelEvent()` (nobody enables a disabled event again), `tie()`, the timerfd variant
of the wheel, `restart()`, `delTimer()` and `Timer::Join()`.

Where the code breaks its own words, and no property says that it keeps them:

- `Demultiplexer.cc:136`: `handleExistEvent()` begins with `assert ( false )`, and every
  change of a registered event reaches it: `disableAll()` in each close, and
  `enableWriting()` and `disableWriting()`. The models are of what follows it in the build
  with `-DNDEBUG`; a build with assertions would end at the first close. It would not
  compile either: lines 110 (`kDeleted`), 129, 130, 137 and 138 (`fd`) and 139 (`state`)
  name what is not declared. Line 110 is checked as it is meant, with `kDeled`.
- `LogStream.h:193`: the text of `formatSI()` is said to have at most 5 characters. The
  integers from 99949999999999992 to 99949999999999999 are below the limit of
  `LogStream.cc:134`, but their double is not and prints as `100.0P`. `LinesRight` and the
  theorem `OwnLines` name this quantity as the exception (`IsTooLong`) and hold for every
  other one; the run `logging` includes it, and without the exception fails.

Of what is modelled:

- Reactor and threads: a `pthread_create` that fails, the growth of `eventList_`.
- TimeWheel: delays below a millisecond, for which the wheel is wrong (see the hazard
  at `TimeWheel.cc:59`).
- MyThreadPool: a second `start()`, and the reallocation of `queues_` under its readers,
  which is undefined behaviour the code does nothing against.
- LazyList: `setMaxKey()`, `traversal()` and the destructor, which are for a list nobody
  else uses; `remove()` next to other calls, which frees nodes under them.
- Logger: `ReadSmallFile`, the default output to stdout, `CheckNotNull`, a file that
  cannot be opened (`AppendFile` asserts that it is).
- minimemcached: keys of several lengths, values that contain line ends or spell a
  command (a value read as a line would then be obeyed), the parsing of a line into
  words and a number, and the parts of lines that wait for their end.

## 6. Plan

Done, in the order of their weight: Reactor first, because everything else relies on
its queue; the containers, the wheel, the server and the connection on top of it;
minimemcached; the pool, the lists and the logger.

Left to model: Conversation with keys of several lengths, where `resetKey( key )` can
violate its assertion, with TcpServer's callbacks as the source of its pieces.

Proved: all safety properties. What is left are the liveness properties, which need a
prover with rules for fairness, and, once the above is modelled, `EntryFits` under the
weakest assumption on the lengths of keys for which it is true.
