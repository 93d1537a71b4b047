------------------------------ MODULE LoopThread ------------------------------
(* How a thread is started and ended: Thread with its CountDownLatch, and     *)
(* EventLoopThread, whose thread builds an EventLoop on its own stack,        *)
(* publishes it to startLoop() and runs it until ~EventLoopThread quits it.   *)
(* One owner, a main thread, has all the objects; EventLoopThreadPool::start  *)
(* is an owner that calls startLoop() on each of its threads and destroys     *)
(* none.  A region locked by a mutex is one step: it touches nothing but what *)
(* that mutex protects.                                                       *)
EXTENDS Naturals, Sequences

CONSTANTS LoopThreads,  \* the EventLoopThread objects, each with its thread_
          PlainThreads, \* Thread objects with a function that ends
          MaxFailures,  \* bound: how often pthread_create fails
          NoThread      \* what the owner works on when it is idle

Threads == LoopThreads \cup PlainThreads

ASSUME ThreadsAssumption ==
  /\ LoopThreads \cap PlainThreads = {}
  /\ NoThread \notin Threads
  /\ MaxFailures \in Nat

VARIABLES
  owner,     \* what the owner does, see OwnerPcs
  obj,       \* the object it does that to
  thread,    \* what each thread does, see ThreadPcs
  failures,  \* pthread_create calls that failed
  failed,    \* objects whose last pthread_create failed
  freed,     \* objects that are destroyed
  started_, joined_, tid_, latch_,  \* Thread; tid_ is known or still 0
  loop_,     \* EventLoopThreads that have published their loop
  quit_,     \* EventLoops that were told to quit
  loops_     \* EventLoopThreadPool: what startLoop() returned, in order

objVars == <<failures, failed, freed, started_, joined_>>
vars == <<owner, obj, thread, objVars, tid_, latch_, loop_, quit_, loops_>>

(* "latch" and "cond": about to test the condition that CountDownLatch::wait  *)
(* and startLoop() wait for; "asleep": in condition_.wait or cond_.wait of    *)
(* the one or the other.  "quit": between the two halves of EventLoop::quit.  *)
OwnerPcs == {"idle", "latch", "latchAsleep", "cond", "condAsleep", "quit", "join",
             "crashed", "aborted"}

(* "poll" is a turn of EventLoop::loop; from "unwind" on the EventLoop is     *)
(* destroyed.                                                                 *)
ThreadPcs == {"none", "begin", "count", "func", "publish", "loop", "poll", "unwind",
              "done"}

(* The threads that have an EventLoop on their stack.                         *)
LoopIsLive(t) == thread[t] \in {"publish", "loop", "poll"}

TypeOK ==
  /\ owner \in OwnerPcs
  /\ obj \in Threads \cup {NoThread}
  /\ (obj = NoThread) <=> (owner = "idle")
  /\ thread \in [Threads -> ThreadPcs]
  /\ failures \in 0 .. MaxFailures
  /\ failed \subseteq Threads
  /\ freed \subseteq Threads
  /\ started_ \subseteq Threads
  /\ joined_ \subseteq started_
  /\ tid_ \subseteq Threads
  /\ latch_ \in [Threads -> {0, 1}]
  /\ loop_ \subseteq LoopThreads
  /\ quit_ \subseteq LoopThreads
  /\ loops_ \in Seq(LoopThreads)

Init ==
  /\ owner = "idle"
  /\ obj = NoThread
  /\ thread = [t \in Threads |-> "none"]
  /\ failures = 0
  /\ failed = {}
  /\ freed = {}
  /\ started_ = {}
  /\ joined_ = {}
  /\ tid_ = {}
  /\ latch_ = [t \in Threads |-> 1]
  /\ loop_ = {}
  /\ quit_ = {}
  /\ loops_ = <<>>

-----------------------------------------------------------------------------
(* The owner.                                                                 *)

OwnerIs(pc, t) == owner = pc /\ obj = t
OwnerGoes(pc, t) == owner' = pc /\ obj' = t
OwnerIsDone == OwnerGoes("idle", NoThread)

(* Thread::start, by itself or at the beginning of startLoop().               *)
Start(t) ==
  /\ owner = "idle" /\ t \notin started_ \cup freed
  /\ started_' = started_ \cup {t}
  /\ thread' = [thread EXCEPT ![t] = "begin"]
  /\ failed' = failed \ {t}
  /\ OwnerGoes("latch", t)
  /\ UNCHANGED <<failures, freed, joined_, tid_, latch_, loop_, quit_, loops_>>

(* pthread_create fails: start() returns like one that succeeded, so that     *)
(* startLoop() goes on to wait for a loop that nobody will publish.           *)
StartFails(t) ==
  /\ owner = "idle" /\ t \notin started_ \cup freed
  /\ failures < MaxFailures
  /\ failures' = failures + 1
  /\ failed' = failed \cup {t}
  /\ IF t \in LoopThreads THEN OwnerGoes("cond", t) ELSE OwnerIsDone
  /\ UNCHANGED <<thread, freed, started_, joined_, tid_, latch_, loop_, quit_, loops_>>

OwnerElse == <<thread, objVars, tid_, latch_, loop_, quit_>>

(* CountDownLatch::wait, then the rest of startLoop() if it is an             *)
(* EventLoopThread.                                                           *)
LatchWait(t) ==
  /\ OwnerIs("latch", t)
  /\ IF latch_[t] > 0 THEN OwnerGoes("latchAsleep", t)
     ELSE IF t \in LoopThreads THEN OwnerGoes("cond", t)
     ELSE OwnerIsDone
  /\ UNCHANGED <<OwnerElse, loops_>>

(* Mutant: startLoop() waits once and does not test loop_ again.              *)
CondWaitOnce(t) ==
  /\ OwnerIs("cond", t)
  /\ OwnerIsDone
  /\ loops_' = Append(loops_, t)
  /\ UNCHANGED OwnerElse

(* startLoop() waits for loop_ and returns it; the pool keeps it in loops_.   *)
CondWait(t) ==
  /\ OwnerIs("cond", t)
  /\ IF t \in loop_
       THEN OwnerIsDone /\ loops_' = Append(loops_, t)
       ELSE OwnerGoes("condAsleep", t) /\ UNCHANGED loops_
  /\ UNCHANGED OwnerElse

SpuriousWakeup(t) ==
  /\ \/ OwnerIs("latchAsleep", t) /\ OwnerGoes("latch", t)
     \/ OwnerIs("condAsleep", t) /\ OwnerGoes("cond", t)
  /\ UNCHANGED <<OwnerElse, loops_>>

(* Thread::join of a thread that start() was called for.                      *)
Join(t) ==
  /\ owner = "idle" /\ t \in PlainThreads \ (joined_ \cup freed)
  /\ \/ /\ t \in started_
        /\ joined_' = joined_ \cup {t}
        /\ OwnerGoes("join", t)
     \/ /\ t \in failed              \* assert(started_)
        /\ OwnerGoes("aborted", t)
        /\ UNCHANGED joined_
  /\ UNCHANGED <<thread, failures, failed, freed, started_, tid_, latch_, loop_, quit_,
                 loops_>>

(* ~Thread; a thread that runs is detached and goes on by itself.             *)
DestroyThread(t) ==
  /\ owner = "idle" /\ t \in PlainThreads \ freed
  /\ freed' = freed \cup {t}
  /\ UNCHANGED <<owner, obj, thread, failures, failed, started_, joined_, tid_, latch_,
                 loop_, quit_, loops_>>

(* Mutant: ~EventLoopThread joins, but does not quit.                         *)
DestroyUnquit(t) ==
  /\ owner = "idle" /\ t \in loop_ \ freed
  /\ OwnerGoes("quit", t)
  /\ UNCHANGED <<thread, objVars, tid_, latch_, loop_, quit_, loops_>>

(* ~EventLoopThread, of one whose startLoop() has returned, up to the store   *)
(* to quit_, the first half of EventLoop::quit.                               *)
DestroyLoopThread(t) ==
  /\ owner = "idle" /\ t \in loop_ \ freed
  /\ quit_' = quit_ \cup {t}
  /\ OwnerGoes("quit", t)
  /\ UNCHANGED <<thread, objVars, tid_, latch_, loop_, loops_>>

(* Mutant: ~EventLoopThread leaves its thread to ~Thread, which detaches it.  *)
QuitAndDetach(t) ==
  /\ OwnerIs("quit", t)
  /\ freed' = freed \cup {t}
  /\ OwnerIsDone
  /\ UNCHANGED <<thread, failures, failed, started_, joined_, tid_, latch_, loop_, quit_,
                 loops_>>

(* The second half: isInLoopThread(), wakeup(), and on to thread_.join().     *)
QuitAndJoin(t) ==
  /\ OwnerIs("quit", t)
  /\ joined_' = joined_ \cup {t}
  /\ OwnerGoes("join", t)
  /\ UNCHANGED <<thread, failures, failed, freed, started_, tid_, latch_, loop_, quit_,
                 loops_>>

(* The loop saw quit_ before the second half began and is destroyed: reading  *)
(* its threadId_ and wakeupFd_ is undefined.                                  *)
QuitTouchesDeadLoop(t) ==
  /\ OwnerIs("quit", t) /\ ~LoopIsLive(t)
  /\ OwnerGoes("crashed", t)
  /\ UNCHANGED <<OwnerElse, loops_>>

(* pthread_join returns; ~EventLoopThread ends with it.                       *)
JoinReturns(t) ==
  /\ OwnerIs("join", t) /\ thread[t] = "done"
  /\ OwnerIsDone
  /\ freed' = IF t \in LoopThreads THEN freed \cup {t} ELSE freed
  /\ UNCHANGED <<thread, failures, failed, started_, joined_, tid_, latch_, loop_, quit_,
                 loops_>>

-----------------------------------------------------------------------------
(* A thread.                                                                  *)

Goes(t, from, to) ==
  /\ thread[t] = from
  /\ thread' = [thread EXCEPT ![t] = to]

Notify(t, asleep, awake) ==
  /\ owner' = IF OwnerIs(asleep, t) THEN awake ELSE owner
  /\ UNCHANGED obj

(* Mutant: runInThread() stores the id in a copy, not in the Thread object.   *)
StoreTidLost(t) ==
  /\ Goes(t, "begin", "count")
  /\ UNCHANGED <<owner, obj, objVars, tid_, latch_, loop_, quit_, loops_>>

(* Mutant: runInThread() counts down as it begins, and again later.           *)
StoreTidCountsDown(t) ==
  /\ Goes(t, "begin", "count")
  /\ tid_' = tid_ \cup {t}
  /\ latch_' = [latch_ EXCEPT ![t] = @ - 1]
  /\ Notify(t, "latchAsleep", "latch")
  /\ UNCHANGED <<objVars, loop_, quit_, loops_>>

(* ThreadData::runInThread: *tid_ points into the Thread object.              *)
StoreTid(t) ==
  /\ Goes(t, "begin", "count")
  /\ tid_' = tid_ \cup {t}
  /\ UNCHANGED <<owner, obj, objVars, latch_, loop_, quit_, loops_>>

(* CountDownLatch::countDown.                                                 *)
CountDown(t) ==
  /\ Goes(t, "count", "func")
  /\ latch_' = [latch_ EXCEPT ![t] = @ - 1]
  /\ Notify(t, "latchAsleep", "latch")
  /\ UNCHANGED <<objVars, tid_, loop_, quit_, loops_>>

(* func_() of a plain Thread; startThread() returns.                          *)
RunFunc(t) ==
  /\ t \in PlainThreads
  /\ Goes(t, "func", "done")
  /\ UNCHANGED <<owner, obj, objVars, tid_, latch_, loop_, quit_, loops_>>

(* EventLoopThread::threadFunc: EventLoop loop, and callback_(&loop).         *)
ConstructLoop(t) ==
  /\ t \in LoopThreads
  /\ Goes(t, "func", "publish")
  /\ UNCHANGED <<owner, obj, objVars, tid_, latch_, loop_, quit_, loops_>>

(* Mutant: the owner is not notified.                                         *)
PublishSilently(t) ==
  /\ Goes(t, "publish", "loop")
  /\ loop_' = loop_ \cup {t}
  /\ UNCHANGED <<owner, obj, objVars, tid_, latch_, quit_, loops_>>

(* loop_ = &loop and notify_one(), under mutex_.                              *)
Publish(t) ==
  /\ Goes(t, "publish", "loop")
  /\ loop_' = loop_ \cup {t}
  /\ Notify(t, "condAsleep", "cond")
  /\ UNCHANGED <<objVars, tid_, latch_, quit_, loops_>>

(* EventLoop::loop: while(!quit_); poll() returns by an event or by timeout.  *)
TestQuit(t) ==
  /\ Goes(t, "loop", IF t \in quit_ THEN "unwind" ELSE "poll")
  /\ UNCHANGED <<owner, obj, objVars, tid_, latch_, loop_, quit_, loops_>>

Turn(t) ==
  /\ Goes(t, "poll", "loop")
  /\ UNCHANGED <<owner, obj, objVars, tid_, latch_, loop_, quit_, loops_>>

(* ~EventLoop has run; threadFunc() and startThread() return.                 *)
Unwind(t) ==
  /\ Goes(t, "unwind", "done")
  /\ UNCHANGED <<owner, obj, objVars, tid_, latch_, loop_, quit_, loops_>>

-----------------------------------------------------------------------------
(* What the owner does once it has begun; what it begins is its own choice.   *)
OwnerStep(t) ==
  \/ LatchWait(t) \/ CondWait(t) \/ QuitAndJoin(t) \/ QuitTouchesDeadLoop(t)
  \/ JoinReturns(t)

OwnerChoice(t) ==
  \/ Start(t) \/ StartFails(t) \/ Join(t) \/ DestroyThread(t) \/ DestroyLoopThread(t)

ThreadStep(t) ==
  \/ StoreTid(t) \/ CountDown(t) \/ RunFunc(t) \/ ConstructLoop(t) \/ Publish(t)
  \/ TestQuit(t) \/ Turn(t) \/ Unwind(t)

Next ==
  \E t \in Threads :
     OwnerChoice(t) \/ OwnerStep(t) \/ SpuriousWakeup(t) \/ ThreadStep(t)

(* Every thread that can run is scheduled, and poll() returns after 10 s at   *)
(* the latest.  Spurious wake-ups are owed to nobody.                         *)
Fairness ==
  \A t \in Threads : WF_vars(OwnerStep(t)) /\ WF_vars(ThreadStep(t))

Spec == Init /\ [][Next]_vars /\ Fairness

-----------------------------------------------------------------------------
(* Properties.                                                                *)

(* What start() asserts (Thread.cc:135-136): when it returns, the thread it   *)
(* started has stored its id.                                                 *)
TidKnownAfterStart ==
  \A t \in started_ :
     (owner \in {"latch", "latchAsleep"} /\ obj = t) \/ t \in tid_

(* A thread never touches an object that is gone: of a Thread, tid_ and       *)
(* latch_, which it needs before func_(); an EventLoopThread, until its       *)
(* threadFunc() returns.                                                      *)
ObjectOutlivesThread ==
  \A t \in freed :
     thread[t] \in IF t \in LoopThreads THEN {"none", "done"}
                                        ELSE {"none", "func", "done"}

(* The pointers that startLoop() returned, the pool's loops_, are to loops    *)
(* that exist, each to another one, until ~EventLoopThread tells them to quit.*)
ReturnedLoopsAreLive ==
  /\ \A i \in DOMAIN loops_ : loops_[i] \in quit_ \/ LoopIsLive(loops_[i])
  /\ \A i, j \in DOMAIN loops_ : loops_[i] = loops_[j] => i = j

(* start() and startLoop() return: neither notification is lost.  A           *)
(* startLoop() whose pthread_create failed is the one that does not.          *)
StartReturns ==
  \A t \in Threads :
     (owner \in {"latch", "cond"} /\ obj = t) ~> (owner = "idle" \/ t \in failed)

(* ~EventLoopThread and join() return, and then the thread has ended.         *)
EndReturns ==
  \A t \in Threads :
     (owner \in {"quit", "join"} /\ obj = t) ~>
       ((owner = "idle" /\ thread[t] = "done") \/ owner = "crashed")
=============================================================================
