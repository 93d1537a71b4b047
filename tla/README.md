# Alfred.HttpServer: verification project

TLA+ models of the epoll HTTP server in `code/`, checked with TLC, with their
safety properties proved with TLAPS for any number of threads, connections,
descriptors and tasks. The server runs one `EventLoop` per thread: a base loop accepts
connections and hands them to sub loops, each of which serves its connections
with edge-triggered epoll, a keep-alive list and a timer (`test/mainTest.cc`
starts 12 sub loops).

## 1. The system

| part | state | operations | talks to |
|---|---|---|---|
| `EventLoop` | `pendingFunctors_` under `mutex_`, `quit_`, `callingPendingFucntors_`, `wakeupFd_` | `loop`, `quit`, `runInLoop`, `queueInLoop`, `doPendingFunctors`, `wakeup`, `wakeupRead` | called by every thread; polls `Epoll`, calls `Channel` and `HttpManager` |
| `Epoll`, `Channel` | `channelMap_`; `events_`, `revents_` and the descriptor | `poll`, `updateChannel`, `removeChannel`; `handleEvent`, `enable*`, `disable*` | the kernel; callbacks into the connection |
| `HttpConnection` | `state_`, `__in_buffer`, `__out_buffer`, weak `holder_` | `handleRead`, `handleWrite`, `handleClose`, `handleError`, `send` | `readn`/`writen`, its `Channel` |
| `HttpHandler` | parse state, `keepAlive_`, `timerNode_` | `newConnection`, `handleHttpReq` (parse, respond, keep or close) | its connection, `HttpManager` |
| `HttpManager` | `httpMap`, `keepAliveSet_`, `keepAliveList_` | add, `handler`, `delHttpConnection`, `flushKeepAlive`, `handleExpireEvent` | owns the handlers; driven by its `Timer` |
| `HttpServer` | `listenFd_`, `idleFd_` | `acceptor` | `getNextLoop`, `queueInLoop` of the sub loops |
| `EventLoopThreadPool` | `loops_`, `next_` | `start`, `getNextLoop` | the sub loops |
| `EventLoopThread`, `Thread`, `CountDownLatch` | `loop_`, condition variable; `started_`, `joined_`, `tid_`, latch | `startLoop`, `threadFunc`, `start`, `join`, destructors | creates and ends a loop |
| `ThreadPool` | `queue_`, `running_`, mutex, condition variable | `start`, `stop`, `addTask`, `take`, `runInThread` | used by `test/ThreadPoolTest.cc` only |
| `Timer` | `timerFd_` | periodic timer, `readCallback` | its `Channel` |

What is hard here:

* **Wake-ups.** Work is published in two steps (push, then write the eventfd),
  the loop reads it in two steps (epoll, then swap), `quit_` is a plain flag.
* **Edge triggering.** Data, room in the send buffer and connections on the
  listening socket are announced once. Whatever the code leaves behind needs an
  edge to come: new traffic, or an `epoll_ctl` on the descriptor.
* **A batch is not atomic.** `loop` handles a batch of events one channel at a
  time, and one event may report input, output and FIN together. Handlers close
  connections, which destroys objects that other events of the batch refer to.
* **errno.** `readn` and `acceptor` look at `errno` after calls that succeeded.
* **Descriptors.** The table is shared by all threads; `acceptor` frees a slot
  and hopes to get it back. Descriptors are closed by `~Channel`, whenever the
  last `shared_ptr` goes.
* **Iterators and two containers.** `keepAliveSet_` says whether `timerNode_`
  is a valid iterator of `keepAliveList_`.
* **Mutex, condition variable, unlocked reads** in `ThreadPool`.
* **Lifetimes across threads.** A loop lives on the stack of its thread and is
  used through pointers by others; a thread writes into the `Thread` object
  that started it; `pthread_create` may fail with somebody waiting.
* **Segmented input.** The parser sees what one read returned, which may be a
  part of a request or more than one.

`PROJECT.json` lists these hazards one by one, each at its line, with the
property that covers it or the reason why none does.

## 2. The modules

| module | models | abstract specification | theorems |
|---|---|---|---|
| `EventLoop` | the functor queue every connection passes through | `Mailbox` | `EventLoop_proof` |
| `HttpParse` | what the parser makes of a buffer | | `HttpParse_proof` |
| `HttpLoop` | what one loop does with its connections | `KeepAlive` | `HttpLoop_proof`, `KeepAlive_proof` |
| `Acceptor` | where connections come from | | `Acceptor_proof` |
| `LoopThread` | how the loops' threads begin and end | | `LoopThread_proof` |
| `ThreadPool`, `ThreadPoolTest` | the task queue, and its test program | `TaskQueue` | `ThreadPool_proof` |

`HttpLoop` extends `HttpParse`, `ThreadPoolTest` extends `ThreadPool`. The
modules meet where the code does: `Accept` of `HttpLoop` is the functor that
`Dispatch` of `Acceptor` queues and `EventLoop` delivers; `loops_` of
`LoopThread` is what `NextLoop` of `Acceptor` chooses from. They are not
composed in one specification: the product of their states tells nothing that
the interfaces do not. `MC*` modules hold the instances.

### Mailbox and EventLoop

`Mailbox` is what users of `queueInLoop` rely on: a FIFO queue, one consumer, no
threads, no locks, until the loop stops. `EventLoop` is the implementation, one
action per step another thread can observe:

| action | code (`EventLoop.cc`) |
|---|---|
| `QueueInLoop`, `AcquireForPush`, `Push`, `TestWakeup`, `Wakeup` | `queueInLoop` and `wakeup`: call, lock, `push_back` and unlock, the test of `isInLoopThread`/`callingPendingFucntors_`, the `write` |
| `Quit` | `quit`: the flag; from other threads a `Wakeup` follows |
| `Start`, `CheckQuit` | entry of `loop`, `while(!quit_)` |
| `PollWakeup`, `PollIo`, `PollTimeout` | `epoll_wait` returns |
| `WakeupRead`, `HandleIo` | `handleEvent` of the eventfd and of any other channel |
| `BeginPending`, `AcquireForSwap`, `Swap`, `RunFunctor`, `EndPending` | `doPendingFunctors` |

`UserCode` is any handler or functor: it may queue, quit or do neither. The
eventfd is two booleans, its counter (`eventfdSet`) and its place on epoll's
ready list (`edge`): edge triggering reports the second only while the first
holds. Producers are all other threads.

The loop's own thread queues only from handlers and functors. A functor it
queued before `loop()` would wait for the 10 s time-out; no code does that.

The data races on `quit_` and `callingPendingFucntors_` are plain loads and
stores here. `callingPendingFucntors_` decides only for the loop's own thread;
`quit_` is read once a turn, between opaque calls.

### HttpLoop

All connections of one loop, below the functor queue: `pendingConns_` stands for
the queued `addHttpConnection` calls.

| state | code |
|---|---|
| `sockIn`, `blocked`, `peer`, `sent` | the socket: requests received, send buffer full, what the peer did |
| `armed` | epoll's ready list |
| `revents_`, `timerReady`, `cur`, `loopPc` | the batch: events not handled yet, and where in `handleEvent`/`handler` the loop is |
| `events_`, `state_`, `inBuffer`, `outBuffer`, `keepAlive_` | `Channel`, `HttpConnection`, `HttpHandler` |
| `httpMap`, `keepAliveSet_`, `keepAliveList_` | `HttpManager` |
| `errno` | what the last failing call left: `EAGAIN` or another |

An event is handled in three steps (`handleRead`, `handleWrite`, then
`HttpManager::handler`), between which the peer may act. The channels of a batch
come in any order, the timer's channel anywhere among them. `HandleClose` takes
a connection out of epoll, `httpMap` and `keepAliveSet_` in one step, as
`handleClose` does, and leaves the list entry. A connection not in `httpMap` is
destroyed: running a callback of it is `UseAfterFree`, after which nothing is
said (`loopPc = "crashed"`). `HandleExpireEvent` looks a channel up with
`httpMap[channel]`, which enters a null handler for one that is not there: that
it always is (`Expired`, the entries whose channel is in `keepAliveSet_`) is
proved, not assumed (`ExpiryCloses`). `ErrnoAfter` says what handling a request
may leave in `errno`: any of its calls on a file may fail, and so may `shutdown`.

Data is abstracted to what the control depends on. A peer sends segments, a
`Requests` of them named in `HttpParse`, and the connection's buffer is the
concatenation of what one `readn` took out of the socket; a response is present
or not; a keep-alive entry holds the ticks to its expiry.

### KeepAlive

What the list of `HttpManager` is for, without the list: a clock for each timed
connection. `Refresh` sets it, `Close` and `Expire` stop it, `Expire` closes
every connection whose clock has run down and no other, and a connection that
was closed is never opened again. `HttpLoop` implements it with `left` read off
the entries of the connections in `keepAliveSet_` (`Clocks`) and `due` the timer
that has gone off: the stale entries, the order of the list and the walk of
`handleExpireEvent` that ends at the first entry still to come do not show.
`KeepAlive` has no fairness; that an expiry does come is `IdleConnectionsExpire`.

### HttpParse

`praseUrl`, `praseHeader`, `praseBody` and the setters as functions of the
buffer. A buffer is a sequence of line contents and line ends, so a request may
be cut at the end of a line or in front of its CRLF; a cut inside a word, or
between CR and LF, gives a line of one of the same sorts and is left out.
`Text` has whole requests (`keep`, `close`, `old`, `missing`, `bad`), the two
halves of one (`first`, `last`) and a header cut in a line (`cut`, `rest`).

`HeaderWalk` follows the loop of `praseHeader` with its `npos`: a last line
without CRLF has `epos + 2 = 1`, and the walk begins again in the request line.
If that has no colon the walk ends with an error; if it has one (a port, a time
in the path), it never ends. `HttpLoop` then stays in `ParseForever`
(`loopPc = "parsing"`) and the loop with all its connections is lost. The walk
is a recursive function of the place and the turns left, not a RECURSIVE
operator, so that it can be proved about. That a walk of as many turns as the
buffer has places (and one) never ends is a theorem, `ForeverIsForEver`.

### Acceptor

`HttpServer::acceptor` one system call at a time, beside threads that close
connections and open and close files at any moment. The descriptor table says
who owns each descriptor; the kernel gives out the lowest free one. `accept`
reserves a descriptor before it looks at the backlog, as Linux does, so a full
table gives `EMFILE` even with nothing to accept. The number of loops is chosen
initially, from none to `MaxLoops`: with none, the base loop serves connections
too, and an `open` that fails in `responseReq` leaves its `errno` to `acceptor`.
Every `accept` of `acceptor`, and its `open` of `/dev/null`, may also fail for
want of something other than a slot (`AcceptFails`, `AcceptIdleFails`,
`OpenIdleFails`: ENFILE, ENOMEM). The first ends the loop; the others leave
`idleFd_` at -1, and the code notices neither. `refused`, which no code keeps,
remembers a refused `open` until one succeeds: `IdleFdKept` excepts it.

### LoopThread

One owner (the thread that has the objects) and any number of threads. The owner
starts, joins and destroys plain `Thread`s and `EventLoopThread`s in any order
the interface allows; an owner that starts one loop after the other is
`EventLoopThreadPool::start`, with `loops_` what it collects.

| action | code |
|---|---|
| `Start`, `StartFails`, `LatchWait` | `Thread::start`, `pthread_create` that succeeds or fails, `CountDownLatch::wait` |
| `CondWait` | the wait of `startLoop` for `loop_` |
| `Join`, `JoinReturns`, `DestroyThread` | `Thread::join`, `~Thread` (which detaches) |
| `DestroyLoopThread`, `QuitAndJoin`, `QuitTouchesDeadLoop` | `~EventLoopThread`: the two halves of `EventLoop::quit`, then `join` |
| `StoreTid`, `CountDown`, `RunFunc` | `ThreadData::runInThread` |
| `ConstructLoop`, `Publish`, `TestQuit`, `Turn`, `Unwind` | `EventLoopThread::threadFunc` and `EventLoop::loop` |

A wait is two places of the owner, about to test the condition and asleep, so
that a notification may come before the wait and wake-ups may be spurious. The
loop exists from `ConstructLoop` to the step that sees `quit_`.
`QuitTouchesDeadLoop` is the window in which it has gone while `quit()` has yet
to read its `threadId_`: undefined, and an end of the behaviour.

### TaskQueue, ThreadPool and ThreadPoolTest

`TaskQueue` is what those who add tasks rely on: workers take the oldest task,
each one at a time, and run what they took; when the pool is closed, the workers
that were about to take (`late`) may take one task more. `ThreadPool` implements
it with `late` the workers at `lock` or `take`.

`ThreadPool` has an action per critical section and per unlocked read, a set of
workers in `wait`, `notify_one` that wakes any one of them, `notify_all`, and
spurious wake-ups. `queue_.size()` is read without the mutex: while a push or a
pop is under way the answer may be anything (`QueueInFlux`). `ThreadPoolTest`
restricts it to the repository's test program, `CountDownLatch` included.

### SequenceLemmas

Facts about `Append`, `Head`, `Tail` and `\o` that the proofs share.

## 3. What is checked

| run | instance | states | shows |
|---|---|---|---|
| `eventloop` | 2 producers, the loop, 3 functors | 44 thousand | no wake-up and no quit is lost, functors run in order, each once; every functor runs; quit ends the loop; `Mailbox` is implemented |
| `http_safety` | 2 symmetric connections, 3 segments between them (`first`, `last`), expiry 1 tick | 517 thousand | valid iterators, ordered list, no stranded input or output, nothing waits to be closed by a write that will not come, who sends is subject to the time-out; `KeepAlive` is implemented |
| `http_liveness` | 1 connection, 2 segments of 7, expiry 2 ticks | 14 thousand | whole header blocks are parsed to an end, resets end connections, responses are sent, idle connections expire |
| `acceptor` | 3 connections, 3 descriptors, 0 to 2 loops | 363 thousand | `idleFd_` never names another's descriptor, round robin, no stranded backlog, `acceptor` returns unless the table is full |
| `threadpool` | 2 workers, 2 adders, 3 tasks, queue of 1 | 12 thousand | no lost notification, `stop` returns; `TaskQueue` is implemented: tasks leave in order, each once |
| `loop_thread` | 2 loop threads, 2 plain threads, 1 failing `pthread_create` | 52 thousand | `start` knows the id, returned loops are live, no thread touches a destroyed object, starting and ending come to an end |

Each property is also checked to fail on a mutant: the operators commented
"Mutant:" in the modules are plausible slips of the code, and `PROJECT.json`
says which property rejects which.

The other six runs refute what a comment or a test of the repository says:

| run | claim | what happens |
|---|---|---|
| `http_use_after_free` | `HttpConnection.h:67` | the timer closes a connection whose event is later in the same batch; its callback runs on the destroyed object |
| `http_shutdown` | `HttpConnection.cc:83` | stale `EAGAIN` hides the FIN; the server answers 400 for ever |
| `http_answer` | `HttpConnection.cc:67` | a request that comes with the FIN while output is pending is dropped |
| `http_socket` | `HttpConnection.cc:106` | the keep-alive list holds the descriptor of a closed connection |
| `acceptor_leak` | `HttpServer.cc:99` | stale `EMFILE` sends an accepted connection into the branch that forgets it |
| `threadpool_latch` | `ThreadPoolTest.cc:43` | the last task is refused and the latch never opens |

The liveness properties of `HttpLoop` end in `\/ Stopped`, since nothing can be
said after a use after free or in an endless parse; the counterexample to
`ShutdownEndsConnection` has neither in it. In the same way `StartReturns`
excepts a failed `pthread_create`, `EndReturns` the dead loop of
`QuitTouchesDeadLoop`, and `AcceptorReturns` a table that is full again and
again: there the code does wait, crash or spin, and no document denies it.

### Bounds, and why they are enough

* `Functors` (3): one being run, one in the local batch, one behind it in the
  queue. Each is queued once. Two producers give contention for `mutex_` with
  and without the loop.
* `MaxRequests` (2 or 3 segments, over all connections): a request after an
  answered one, two segments in one buffer, and traffic on the other connection
  meanwhile. `Conns` (2): a batch in which one connection's handling or expiry
  disturbs another, and a list with an order.
* `Requests`: `http_safety` takes the two halves of a request. `first` alone is
  an error that leaves `keepAlive_` set by its HTTP/1.1; `last` alone is an error
  that leaves it as it was, so a new connection closes and an old one is kept;
  the two together are a whole request, for a missing file (`errno`), that
  closes. In every order and number they lead to each branch of
  `HandleHttpReq` but `ParseForever`, which `http_liveness` reaches with `cut`.
  `http_liveness` takes seven
  segments, whole, halved and cut, so that buffers of two hold every
  concatenation of them; the violation runs take the one or two they need.
* `ExpireTicks` (1 or 2): an entry that is fresh, and one that has expired;
  with 2, one in between.
* `MaxFd` (3): the idle descriptor, one to be raced for, one to be full with.
* `LoopThreads` (2): a start while another loop runs, and an order in `loops_`.
  `PlainThreads` (2): one to be joined and one to be detached. `MaxFailures` (1):
  a failure before, between or after successful starts.
* `MaxQueueSize` (1), `NumTasks` (3): full and overfull queues. In
  `threadpool_latch` the tasks exceed the queue by two, as in the test program.

Symmetry is used in `http_safety` only, which has no liveness property.
`CHECK_DEADLOCK FALSE` stands where the system may stop: the loop has returned,
the pool is stopped, every connection was used, or the model has crashed.

### Fairness

* `EventLoop`: the loop's thread and every thread inside a call take their
  next step, and a waiter gets `mutex_` (the calls in a behaviour are finite in
  number). Producers owe no call, I/O no event, and the time-out of
  `epoll_wait` is left out, so a lost wake-up cannot be hidden by it.
* `HttpLoop`: the loop's thread runs; the timer expires again and again (strong
  fairness: it is polled for only between batches); the clock advances. Peers
  owe nothing.
* `Acceptor`: the base loop's thread runs. Other threads owe nothing, so with a
  full table nobody need close a descriptor; `BacklogServed` holds even so,
  excepting the race for the idle slot and an `accept` or `open` that fails
  (`AcceptorFails` is owed to nobody), and so does
  `AcceptorReturns`, excepting a table that is full again and again.
* `LoopThread`: every thread takes its next step, and the owner goes on with what
  it has begun. A turn of a loop ends, by its events or by the 10 s time-out of
  `epoll_wait`. What the owner begins is its own choice.
* `ThreadPool`: every thread runs, tasks end, and the mutex is not withheld from
  one thread for ever (strong fairness of the acquisitions; weak fairness would
  not do, because spurious wake-ups may contend for it without end).
  `ThreadPoolTest` adds that the test program goes on with its own calls.

## 4. What is proved

Each proof module of a component has an inductive invariant `IInv`, a lemma per
conjunct and action, and the properties of the run as theorems
`<Property>Holds`. All of the constants are arbitrary up to the assumption
named, which states only what the code or the choice of "none" values gives.

| module | assumption | invariants | action properties, refinement |
|---|---|---|---|
| `EventLoop_proof` | `ThreadAssumption`: the loop's thread is no producer, "none" values are no members | `TypeOK`, `MutualExclusion`, `NoLostWakeup`, `NoLostQuit`, `FifoExactlyOnce`, `MutexIsReleased` | `ImplementsMailbox`, `LastTurn` |
| `HttpParse_proof` | none | about every buffer: `FirstStopIsOutcome`, `ForeverIsForEver`, `EmptyLineEndsWalk`, `EndsAtFirstEmptyLine` | |
| `HttpLoop_proof` | `ConnsAssumption`: requests are segments, expiry takes at least a tick | `TypeOK`, `KeepAliveNodes`, `ListInExpiryOrder`, `NoLostInput`, `NoStuckOutput`, `ClosingHasOutput`, `ActiveConnectionsExpire`, `ParsesWholeHeaders` | `DanglesByExpiryOrReset`, `BatchRunsOut` |
| `KeepAlive_proof` | `ConnsAssumption` | | `ImplementsKeepAlive`, `ClosedStaysClosed`, `ExpiryIsExact` |
| `Acceptor_proof` | `AcceptorAssumption`: finitely many connections, one descriptor at least | `TypeOK`, `IdleFdIsOurs`, `IdleFdKept`, `OneIdleFd`, `RoundRobin`, `NoStrandedBacklog` | `OthersLeftAlone`, `HomeIsForGood`, `LostOnlyAfterEmfile` |
| `ThreadPool_proof` | `ThreadPoolAssumption`: finitely many workers that are not adders, room for one task | `TypeOK`, `FifoOnce`, `AwakeForEachTask`, `AtMostOneEachAfterStop`, `MutexComesBack` | `ImplementsTaskQueue`, `WorkersRunOut` |
| `LoopThread_proof` | `ThreadsAssumption`: a thread is of one sort | `TypeOK`, `TidKnownAfterStart`, `ObjectOutlivesThread`, `ReturnedLoopsAreLive`, `OwnerIsOwed` | `ThreadsGoForward` |

Together they cover every invariant of the passing runs, and the refinements up
to their fairness. `FifoOnce` is stated and proved but in no run: it is the part
of `TaskQueueRefinement` that speaks of the order.

Why the invariants are stronger than the properties:

* `EventLoop`: `NoLostWakeup` says nothing of a loop about to re-enter
  `epoll_wait`, nor who reads the eventfd. `LoopInv`: `callingPendingFucntors_`
  holds exactly inside `doPendingFunctors`, and the local batch is empty outside
  `run`. `LockInv`: who holds `mutex_`. `WakeInv`: at every place from which the
  loop may reach `epoll_wait` without a swap, a queued functor has a readable
  eventfd with a fresh edge, or a thread on its way to write it. Work pushed by
  another thread is followed by a write; work pushed by a functor is too,
  because the flag is set before the swap and cleared after the batch; and every
  read of the eventfd is followed by a swap before the next sleep.
  `MutexIsReleased` and `LastTurn` are the safety half of `QuitEndsLoop`: nobody
  waits for a mutex that does not come back, and after `quit` the places of the
  loop are numbered. `LastTurn` needs no invariant.
* `HttpLoop`: `PlaceInv` says where in a batch the loop is and what a connection
  outside `httpMap` lacks; `NodesInv` adds to `KeepAliveNodes` that the entry of
  an open connection is in the set, without which an insertion could double it.
  `InputInv` adds that a reset still has its `ERR` to come, `OutputInv` that
  `EPOLLOUT` is subscribed exactly as long as there is output and reported only
  then, `ClosingInv` that a connection set to `kDisConnecting` has stopped
  reading, `ExpiryInv` that one outside `keepAliveSet_` that reads is on its way
  to the handler. Each is a statement about one connection (`InputAt` and so on):
  an action changes the connection it is about and leaves the others as they
  were. The parser stays opaque: any boolean and any outcome will do, but for
  `ParsesWholeHeaders`, which is `EmptyLineEndsWalk` applied to what was received.
  `DanglesByExpiryOrReset` says in which two ways a callback comes to run on a
  destroyed connection; `EventInv` rules out a third, `ReadNothing` followed by
  `handleWrite`: a connection that has answered nothing is not subscribed to
  `EPOLLOUT`. `BatchRunsOut` numbers the steps of a batch, the safety half of the
  liveness properties.
* `HttpParse`: an induction over the turns of the loop of `praseHeader`. The
  induction theorems of the library take a predicate as a parameter, which the
  provers cannot instantiate; instead the turns at which a fact holds form a set,
  and the least turn outside it (`LeastElement`, from the well-founded order of
  the naturals) contradicts the step (`EveryTurn`). The recursive function is
  shown to exist in the same way (`WalkExists`, `WalkUnfolds`). A walk stays on
  the starts of lines, so as many turns as there are places see them all.
* `KeepAlive`: `ClockIsInEntry` identifies the clock of a connection with the
  entry its `timerNode_` points to, `ClocksAfter` says what an action makes of
  the clocks. `PrefixIsExpired` is the core: since the list is ordered, the
  prefix that `handleExpireEvent` walks is the set of all entries that have run
  down. `TimerInv` says that no event of the timer outlives its
  batch. `ClosedStaysClosed` rests on `ExpiryCloses`: what the guard on
  `keepAliveSet_` lets through is in `httpMap`, so that `httpMap[it->first]` enters
  nothing. With the guard dropped (`ExpiredStale`) a stale entry brings a closed
  connection back, and `KeepAliveRefinement` is violated. `ExpiryIsExact` rests on
  `PrefixIsExpired` as well.
* `Acceptor`: `ConnInv` (a connection in the backlog has no descriptor yet),
  `DispatchInv` (what `Dispatch` is about to hand over), `IdleInv` (the
  `/dev/null` is open only outside the EMFILE branch), `AloneInv` (without other
  threads, the slot given up stays free until `/dev/null` is opened, unless an
  earlier `open` was refused). `RoundRobin` is inductive over the
  cardinalities of `Load`, given that each connection is dispatched once.
  `OthersLeftAlone` says of every system call of `acceptor` what `IdleFdIsOurs`
  says of the state before it. `LostOnlyAfterEmfile` bounds what the run
  `acceptor_leak` refutes: with `HeldInv` (where `connfd` and a stale `idleFd_`
  name anything), the branch entered with `EMFILE` left in `errno` is the only
  place where a connection's descriptor is lost.
* `ThreadPool`: `AwakeForEachTask` is inductive with the types, by counting:
  a push wakes one more, a take takes one task and one worker. `StopInv`: after
  `stop` nobody waits, and each worker on its way may take one task more.
  `WorkersRunOut` and `MutexComesBack` are the safety half of `StopReturns`: the
  places of a worker are numbered, after `stop` each of its steps goes to a
  smaller number, and whoever holds the mutex is a thread that can go on.
* `LoopThread`: `ThreadInv` ties what a thread has written to how far it has
  come, `OwnerInv` what the owner does to how far its thread has come,
  `LoopsInv` that what is being started is not in `loops_` yet. `OwnerIsOwed` and
  `ThreadsGoForward` are the safety half of `StartReturns` and `EndReturns`: what
  the owner waits for is still to come (`SleepInv`: it did not fall asleep after
  the notification), from a thread that never goes back. `OwnerIsOwed` names the
  one exception, a `startLoop` whose `pthread_create` failed.

Only model-checked: the liveness properties (`EveryFunctorRuns`, `QuitEndsLoop`,
`ResetEndsConnection`, `ResponsesAreSent`, `IdleConnectionsExpire`,
`BacklogServed`, `AcceptorReturns`, `TasksRun`, `StopReturns`, `StartReturns`,
`EndReturns`) and the `WF` parts of `MailboxRefinement` and
`TaskQueueRefinement`, since the prover reaches neither fairness nor ENABLED.

## 5. Not modelled

* `Timer` beyond its periodic expiry: `addTimer` and `reset` have no caller.
  A wall clock that is set back; the models' clock only advances.
* `epoll_wait` interrupted by a signal (`Epoll.cc:44`): the program installs no
  handler that would. Growth of the buffers.
* Destruction of loops and timers at the end of the program: the second `close`
  of `wakeupFd_` (`EventLoop.cc:66`) and `timerFd_`. `LoopThread` ends where
  `~EventLoop` begins.
* Connections queued to a loop that is told to quit: `EventLoop` and `Mailbox`
  let them go, and nothing in the repository says what should become of them.
* Descriptors of files whose `mmap` fails (`HttpHandler.cc:398`): in `Acceptor`
  a file that is never closed. No property counts them.
* Cuts of a request inside a word, see `HttpParse`; methods, since no property
  of the loop depends on them; the body, which `praseBody` does not read.
* A `pthread_create` that fails for a worker of `ThreadPool` (the `join` of
  `stop` would run into its assertion): it is in `LoopThread` only.
* A destructor that runs before `startLoop` has returned: no code does that.
* `InetAddress`, socket setup, the vendored load generator, the sample client,
  the web assets: no state, or not part of the server.

## 6. Plan

1. The `close` of a descriptor by two owners at the end of the program, with
   `Acceptor`'s table beside `LoopThread`.
2. `EventLoop` with several loops behind one `Acceptor`: connections dropped at
   quit.
