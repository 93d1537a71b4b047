------------------------------ MODULE EventLoop ------------------------------
(* One EventLoop and the threads that hand it work: the loop of              *)
(* EventLoop::loop, its pendingFunctors_ queue under mutex_, and the eventfd *)
(* that wakes it.  The eventfd is registered edge-triggered, so two things   *)
(* about it are kept apart: whether its counter is positive, and whether a   *)
(* write has put it on epoll's ready list since epoll_wait last took it off. *)
EXTENDS Naturals, Sequences

CONSTANTS Producers,   \* threads other than the loop's own
          LoopThread,  \* the thread that runs loop()
          Functors,    \* the functors of one behaviour, each queued at most once
          NoThread, NoFunctor

Threads == Producers \cup {LoopThread}

ASSUME ThreadAssumption ==
  /\ LoopThread \notin Producers
  /\ NoThread \notin Threads
  /\ NoFunctor \notin Functors

VARIABLES
  loopPc,                 \* where loop() is, see LoopPcs
  active,                 \* channels of activeChannels not handled yet
  looping_,
  quit_,
  callingPendingFucntors_,
  pendingFunctors_,       \* shared, guarded by mutex_
  functors,               \* the local batch of doPendingFunctors, unexecuted part
  mutex_,                 \* the thread that holds it, or NoThread
  eventfdSet,             \* the counter of wakeupFd_ is positive
  edge,                   \* wakeupFd_ is on epoll's ready list
  call,                   \* per thread: its place inside queueInLoop() or quit()
  cb,                     \* per thread: the functor it is queueing
  unposted,               \* functors no thread has queued yet
  posted, executed        \* history: order of push_back, order of execution

vars == <<loopPc, active, looping_, quit_, callingPendingFucntors_,
          pendingFunctors_, functors, mutex_, eventfdSet, edge, call, cb,
          unposted, posted, executed>>

loopVars  == <<loopPc, active, looping_, callingPendingFucntors_, functors>>
queueVars == <<pendingFunctors_, mutex_>>
fdVars    == <<eventfdSet, edge>>
callVars  == <<call, cb, unposted>>

LoopPcs == {"start", "check", "poll", "handle", "lock", "swap", "run", "done"}
CallPcs == {"none", "lock", "push", "test", "wakeup"}

(* A wake-up channel, and one that stands for every other channel.           *)
Channels == {"wakeup", "io"}

TypeOK ==
  /\ loopPc \in LoopPcs
  /\ active \in SUBSET Channels
  /\ looping_ \in BOOLEAN
  /\ quit_ \in BOOLEAN
  /\ callingPendingFucntors_ \in BOOLEAN
  /\ pendingFunctors_ \in Seq(Functors)
  /\ functors \in Seq(Functors)
  /\ mutex_ \in Threads \cup {NoThread}
  /\ eventfdSet \in BOOLEAN
  /\ edge \in BOOLEAN
  /\ call \in [Threads -> CallPcs]
  /\ cb \in [Threads -> Functors \cup {NoFunctor}]
  /\ \A t \in Threads : call[t] \in {"lock", "push"} => cb[t] \in Functors
  /\ unposted \subseteq Functors
  /\ posted \in Seq(Functors)
  /\ executed \in Seq(Functors)

Init ==
  /\ loopPc = "start"
  /\ active = {}
  /\ looping_ = FALSE
  /\ quit_ = FALSE
  /\ callingPendingFucntors_ = FALSE
  /\ pendingFunctors_ = <<>>
  /\ functors = <<>>
  /\ mutex_ = NoThread
  /\ eventfdSet = FALSE
  /\ edge = FALSE
  /\ call = [t \in Threads |-> "none"]
  /\ cb = [t \in Threads |-> NoFunctor]
  /\ unposted = Functors
  /\ posted = <<>>
  /\ executed = <<>>

-----------------------------------------------------------------------------
(* queueInLoop() and quit(), called from any thread.                         *)

(* Mutant: the functor is moved away before it is pushed.                    *)
QueueInLoopMovedFrom(t, f) ==
  /\ call[t] = "none"
  /\ f \in unposted
  /\ unposted' = unposted \ {f}
  /\ call' = [call EXCEPT ![t] = "lock"]
  /\ UNCHANGED cb

(* runInLoop() from another thread comes here too; from the loop's own       *)
(* thread it runs the functor in place and leaves the EventLoop alone.       *)
QueueInLoop(t, f) ==
  /\ call[t] = "none"
  /\ f \in unposted
  /\ unposted' = unposted \ {f}
  /\ cb' = [cb EXCEPT ![t] = f]
  /\ call' = [call EXCEPT ![t] = "lock"]

(* Mutant: quit() only sets the flag.                                        *)
QuitWithoutWakeup(t) ==
  /\ call[t] = "none"
  /\ quit_' = TRUE
  /\ UNCHANGED call

(* quit() from the loop's own thread sets the flag and returns.              *)
Quit(t) ==
  /\ call[t] = "none"
  /\ quit_' = TRUE
  /\ call' = [call EXCEPT ![t] = IF t = LoopThread THEN "none" ELSE "wakeup"]

AcquireForPush(t) ==
  /\ call[t] = "lock"
  /\ mutex_ = NoThread
  /\ mutex_' = t
  /\ call' = [call EXCEPT ![t] = "push"]
  /\ UNCHANGED <<loopVars, quit_, pendingFunctors_, fdVars, cb, unposted,
                 posted, executed>>

(* push_back, then the unique_lock goes out of scope.                        *)
Push(t) ==
  /\ call[t] = "push"
  /\ pendingFunctors_' = Append(pendingFunctors_, cb[t])
  /\ posted' = Append(posted, cb[t])
  /\ mutex_' = NoThread
  /\ cb' = [cb EXCEPT ![t] = NoFunctor]
  /\ call' = [call EXCEPT ![t] = "test"]
  /\ UNCHANGED <<loopVars, quit_, fdVars, unposted, executed>>

(* Mutant: callingPendingFucntors_ is not looked at.                         *)
NeedsWakeupFromOthersOnly(t) == t # LoopThread

NeedsWakeup(t) == t # LoopThread \/ callingPendingFucntors_

TestWakeup(t) ==
  /\ call[t] = "test"
  /\ call' = [call EXCEPT ![t] = IF NeedsWakeup(t) THEN "wakeup" ELSE "none"]
  /\ UNCHANGED <<loopVars, quit_, queueVars, fdVars, cb, unposted, posted,
                 executed>>

(* write() on the eventfd: the counter grows and epoll sees a new edge.      *)
Wakeup(t) ==
  /\ call[t] = "wakeup"
  /\ eventfdSet' = TRUE
  /\ edge' = TRUE
  /\ call' = [call EXCEPT ![t] = "none"]
  /\ UNCHANGED <<loopVars, quit_, queueVars, cb, unposted, posted, executed>>

(* What a thread outside the loop does: queue a functor, or quit the loop    *)
(* (once: ~EventLoopThread is its only caller).                              *)
ProducerQueues(p) ==
  /\ \E f \in unposted : QueueInLoop(p, f)
  /\ UNCHANGED <<loopVars, quit_, queueVars, fdVars, posted, executed>>

ProducerQuits(p) ==
  /\ ~quit_
  /\ Quit(p)
  /\ UNCHANGED <<loopVars, queueVars, fdVars, cb, unposted, posted, executed>>

-----------------------------------------------------------------------------
(* loop(), run by LoopThread.  It goes on only when no call it made itself   *)
(* is in progress.                                                           *)
LoopAt(pc) == loopPc = pc /\ call[LoopThread] = "none"

(* Mutant: loop() begins with quit_ = false.                                 *)
StartResetsQuit ==
  /\ LoopAt("start")
  /\ looping_' = TRUE
  /\ quit_' = FALSE
  /\ loopPc' = "check"
  /\ UNCHANGED <<active, callingPendingFucntors_, functors, queueVars, fdVars,
                 callVars, posted, executed>>

Start ==
  /\ LoopAt("start")
  /\ looping_' = TRUE
  /\ loopPc' = "check"
  /\ UNCHANGED <<active, quit_, callingPendingFucntors_, functors, queueVars,
                 fdVars, callVars, posted, executed>>

CheckQuit ==
  /\ LoopAt("check")
  /\ loopPc' = IF quit_ THEN "done" ELSE "poll"
  /\ looping_' = ~quit_
  /\ UNCHANGED <<active, quit_, callingPendingFucntors_, functors, queueVars,
                 fdVars, callVars, posted, executed>>

(* epoll_wait reports a ready-list entry only if the descriptor is readable, *)
(* and takes it off the list either way.                                     *)
WakeupReady == edge /\ eventfdSet

PollReturns(channels) ==
  /\ LoopAt("poll")
  /\ active' = channels
  /\ edge' = FALSE
  /\ loopPc' = "handle"
  /\ UNCHANGED <<looping_, quit_, callingPendingFucntors_, functors, queueVars,
                 eventfdSet, callVars, posted, executed>>

PollWakeup ==
  /\ WakeupReady
  /\ \E io \in SUBSET {"io"} : PollReturns({"wakeup"} \cup io)

PollIo == ~WakeupReady /\ PollReturns({"io"})

(* kEPollTimeMs went by without an event.                                    *)
PollTimeout == ~WakeupReady /\ PollReturns({})

(* wakeupRead(): read() takes the counter back to zero.                      *)
WakeupRead ==
  /\ LoopAt("handle")
  /\ "wakeup" \in active
  /\ active' = active \ {"wakeup"}
  /\ eventfdSet' = FALSE
  /\ UNCHANGED <<loopPc, looping_, quit_, callingPendingFucntors_, functors,
                 queueVars, edge, callVars, posted, executed>>

(* User code on the loop's thread may queue a functor, quit, or do neither.  *)
UserCode ==
  \/ UNCHANGED <<quit_, callVars>>
  \/ \E f \in unposted : QueueInLoop(LoopThread, f) /\ UNCHANGED quit_
  \/ Quit(LoopThread) /\ UNCHANGED <<cb, unposted>>

(* Any other channel's handleEvent(), such as HttpServer::acceptor.          *)
HandleIo ==
  /\ LoopAt("handle")
  /\ "io" \in active
  /\ active' = active \ {"io"}
  /\ UserCode
  /\ UNCHANGED <<loopPc, looping_, callingPendingFucntors_, functors, queueVars,
                 fdVars, posted, executed>>

(* doPendingFunctors() starts once every active channel was handled.         *)
BeginPending ==
  /\ LoopAt("handle")
  /\ active = {}
  /\ callingPendingFucntors_' = TRUE
  /\ loopPc' = "lock"
  /\ UNCHANGED <<active, looping_, quit_, functors, queueVars, fdVars, callVars,
                 posted, executed>>

(* Mutant: doPendingFunctors() swaps without the lock.                       *)
AcquireForSwapUnlocked ==
  /\ LoopAt("lock")
  /\ loopPc' = "swap"
  /\ UNCHANGED <<active, looping_, quit_, callingPendingFucntors_, functors,
                 queueVars, fdVars, callVars, posted, executed>>

AcquireForSwap ==
  /\ LoopAt("lock")
  /\ mutex_ = NoThread
  /\ mutex_' = LoopThread
  /\ loopPc' = "swap"
  /\ UNCHANGED <<active, looping_, quit_, callingPendingFucntors_, functors,
                 pendingFunctors_, fdVars, callVars, posted, executed>>

(* Mutant: the queue is copied, not swapped.                                 *)
SwapCopies ==
  /\ LoopAt("swap")
  /\ functors' = pendingFunctors_
  /\ mutex_' = NoThread
  /\ loopPc' = "run"
  /\ UNCHANGED <<active, looping_, quit_, callingPendingFucntors_,
                 pendingFunctors_, fdVars, callVars, posted, executed>>

Swap ==
  /\ LoopAt("swap")
  /\ functors' = pendingFunctors_
  /\ pendingFunctors_' = <<>>
  /\ mutex_' = NoThread
  /\ loopPc' = "run"
  /\ UNCHANGED <<active, looping_, quit_, callingPendingFucntors_, fdVars,
                 callVars, posted, executed>>

(* Mutant: the batch is run as a stack.                                      *)
RunFunctorNewestFirst ==
  /\ LoopAt("run")
  /\ functors # <<>>
  /\ executed' = Append(executed, functors[Len(functors)])
  /\ functors' = SubSeq(functors, 1, Len(functors) - 1)
  /\ UserCode
  /\ UNCHANGED <<loopPc, active, looping_, callingPendingFucntors_, queueVars,
                 fdVars, posted>>

RunFunctor ==
  /\ LoopAt("run")
  /\ functors # <<>>
  /\ executed' = Append(executed, Head(functors))
  /\ functors' = Tail(functors)
  /\ UserCode
  /\ UNCHANGED <<loopPc, active, looping_, callingPendingFucntors_, queueVars,
                 fdVars, posted>>

(* Mutant: the queue is cleared once the batch has run.                      *)
EndPendingClearsQueue ==
  /\ LoopAt("run")
  /\ functors = <<>>
  /\ pendingFunctors_' = <<>>
  /\ callingPendingFucntors_' = FALSE
  /\ loopPc' = "check"
  /\ UNCHANGED <<active, looping_, quit_, functors, mutex_, fdVars, callVars,
                 posted, executed>>

EndPending ==
  /\ LoopAt("run")
  /\ functors = <<>>
  /\ callingPendingFucntors_' = FALSE
  /\ loopPc' = "check"
  /\ UNCHANGED <<active, looping_, quit_, functors, queueVars, fdVars, callVars,
                 posted, executed>>

-----------------------------------------------------------------------------
CallStep(t) == AcquireForPush(t) \/ Push(t) \/ TestWakeup(t) \/ Wakeup(t)

ProducerStarts(p) == ProducerQueues(p) \/ ProducerQuits(p)

(* The loop's own progress, without the events of the environment.           *)
LoopStep ==
  \/ Start \/ CheckQuit \/ PollWakeup \/ WakeupRead \/ HandleIo
  \/ BeginPending \/ AcquireForSwap \/ Swap \/ RunFunctor \/ EndPending

Next ==
  \/ LoopStep
  \/ PollIo
  \/ PollTimeout
  \/ \E t \in Threads : CallStep(t)
  \/ \E p \in Producers : ProducerStarts(p)

(* Every thread that can take its next step does so eventually, and a thread *)
(* waiting for mutex_ gets it.  Nothing forces a producer to begin a call,   *)
(* nor an I/O event to arrive; nor is the 10 s time-out of epoll_wait relied *)
(* on, so a lost wake-up shows as a functor that never runs.                 *)
Fairness ==
  /\ WF_vars(LoopStep)
  /\ \A t \in Threads : WF_vars(CallStep(t))

Spec == Init /\ [][Next]_vars /\ Fairness
-----------------------------------------------------------------------------
(* Properties.                                                               *)

Elements(s) == {s[i] : i \in DOMAIN s}

InCriticalSection(t) ==
  \/ call[t] = "push"
  \/ t = LoopThread /\ loopPc = "swap"

(* pendingFunctors_ is touched by one thread at a time: the push_back of     *)
(* queueInLoop and the swap of doPendingFunctors never overlap.              *)
MutualExclusion ==
  \A t, u \in Threads :
     InCriticalSection(t) /\ InCriticalSection(u) => t = u /\ mutex_ = t

(* A thread that has pushed or asked to quit and has yet to write the        *)
(* eventfd, or is about to find out that it has to.                          *)
WakeupOnItsWay ==
  \E t \in Threads :
     \/ call[t] = "wakeup"
     \/ call[t] = "test" /\ NeedsWakeup(t)

(* The loop never sleeps on queued work: while loop() blocks in epoll_wait   *)
(* with a functor pending, the eventfd is readable by an edge not yet        *)
(* reported, or a thread in queueInLoop is about to write it.                *)
NoLostWakeup ==
  loopPc = "poll" /\ pendingFunctors_ # <<>> => WakeupReady \/ WakeupOnItsWay

(* quit() from another thread cannot be missed by the `while(!quit_)` test:  *)
(* a loop asleep in epoll_wait after it has a wake-up, or one on its way.    *)
NoLostQuit ==
  loopPc = "poll" /\ quit_ => WakeupReady \/ WakeupOnItsWay

(* Functors run in the order of their push_back, each exactly once, whatever *)
(* the batches doPendingFunctors cuts them into.                             *)
FifoExactlyOnce == executed \o (functors \o pendingFunctors_) = posted

(* Every functor queued is executed, unless the loop returns first: the loop *)
(* is notified of work that other threads add (EventLoop.cc:169), and of     *)
(* what its own functors add.                                                *)
EveryFunctorRuns ==
  \A f \in Functors :
     f \in Elements(posted) ~> (f \in Elements(executed) \/ loopPc = "done")

(* Once quit() was called, loop() returns, without waiting for a time-out.   *)
QuitEndsLoop == quit_ ~> loopPc = "done"

(* The loop implements the mailbox: the batch being run and the queue behind *)
(* it are the one queue its users know.                                      *)
AsMailbox == INSTANCE Mailbox WITH
  queue <- functors \o pendingFunctors_,
  stopped <- loopPc = "done"

MailboxRefinement == AsMailbox!Spec
=============================================================================
