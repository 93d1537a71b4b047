--------------------------- MODULE EventLoop_proof ---------------------------
(* Proofs about EventLoop, for any number of threads and any functors.       *)
EXTENDS EventLoop, SequenceLemmas

(* LoopThread calls queueInLoop only from user code; callingPendingFucntors_ *)
(* is set exactly inside doPendingFunctors; the batch is empty outside it.   *)
LoopInv ==
  /\ call[LoopThread] # "none" => loopPc \in {"handle", "run"}
  /\ callingPendingFucntors_ <=> loopPc \in {"lock", "swap", "run"}
  /\ functors # <<>> => loopPc = "run"

(* mutex_ names the thread in its critical section, if there is one.         *)
LockInv == \A t \in Threads : InCriticalSection(t) <=> mutex_ = t

(* From the moment the batch was taken until the next one is sure to be      *)
(* taken, a pending functor comes with a wake-up.                            *)
WakeInv ==
  loopPc \in {"start", "check", "poll", "run"} /\ pendingFunctors_ # <<>> =>
    WakeupReady \/ WakeupOnItsWay

IInv == TypeOK /\ LoopInv /\ LockInv /\ WakeInv /\ NoLostQuit /\ FifoExactlyOnce
-----------------------------------------------------------------------------
(* Type correctness.                                                         *)

(* The part of TypeOK that concerns the calls in progress.                   *)
CallTypeOK ==
  /\ call \in [Threads -> CallPcs]
  /\ cb \in [Threads -> Functors \cup {NoFunctor}]
  /\ \A t \in Threads : call[t] \in {"lock", "push"} => cb[t] \in Functors
  /\ unposted \subseteq Functors

(* Beginning a call keeps the calls well typed.                              *)
LEMMA QueueInLoopType ==
  ASSUME CallTypeOK, NEW t \in Threads, NEW f \in unposted, QueueInLoop(t, f)
  PROVE  CallTypeOK'
BY DEF CallTypeOK, QueueInLoop, CallPcs

LEMMA QuitType ==
  ASSUME CallTypeOK, NEW t \in Threads, Quit(t), UNCHANGED <<cb, unposted>>
  PROVE  CallTypeOK' /\ quit_' = TRUE
BY DEF CallTypeOK, Quit, CallPcs

LEMMA UserCodeType ==
  ASSUME CallTypeOK, quit_ \in BOOLEAN, UserCode
  PROVE  CallTypeOK' /\ quit_' \in BOOLEAN
<1>1. LoopThread \in Threads
  BY DEF Threads
<1>2. CASE UNCHANGED <<quit_, callVars>>
  BY <1>2 DEF CallTypeOK, callVars
<1>3. CASE \E f \in unposted : QueueInLoop(LoopThread, f) /\ UNCHANGED quit_
  BY <1>1, <1>3, QueueInLoopType
<1>4. CASE Quit(LoopThread) /\ UNCHANGED <<cb, unposted>>
  BY <1>1, <1>4, QuitType
<1> QED
  BY <1>2, <1>3, <1>4 DEF UserCode

LEMMA TypeInductive == TypeOK /\ [Next]_vars => TypeOK'
<1> SUFFICES ASSUME TypeOK, [Next]_vars PROVE TypeOK'
  OBVIOUS
<1>c. CallTypeOK
  BY DEF TypeOK, CallTypeOK
<1>1. CASE UNCHANGED vars
  BY <1>1 DEF vars, TypeOK
<1>2. CASE Start
  BY <1>2 DEF Start, TypeOK, LoopPcs, queueVars, fdVars, callVars
<1>3. CASE CheckQuit
  BY <1>3 DEF CheckQuit, TypeOK, LoopPcs, queueVars, fdVars, callVars
<1>4. ASSUME NEW c \in SUBSET Channels, PollReturns(c) PROVE TypeOK'
  BY <1>4 DEF PollReturns, TypeOK, LoopPcs, queueVars, fdVars, callVars
<1>4a. CASE PollWakeup \/ PollIo \/ PollTimeout
  <2>1. \A io \in SUBSET {"io"} : {"wakeup"} \cup io \in SUBSET Channels
    BY DEF Channels
  <2>2. {"io"} \in SUBSET Channels /\ {} \in SUBSET Channels
    BY DEF Channels
  <2> QED
    BY <1>4, <1>4a, <2>1, <2>2 DEF PollWakeup, PollIo, PollTimeout
<1>5. CASE WakeupRead
  BY <1>5 DEF WakeupRead, TypeOK, queueVars, fdVars, callVars
<1>6. CASE HandleIo
  <2>1. CallTypeOK' /\ quit_' \in BOOLEAN
    BY <1>c, <1>6, UserCodeType DEF HandleIo, TypeOK
  <2> QED
    BY <1>6, <2>1 DEF HandleIo, TypeOK, CallTypeOK, queueVars, fdVars
<1>7. CASE BeginPending
  BY <1>7 DEF BeginPending, TypeOK, LoopPcs, queueVars, fdVars, callVars
<1>8. CASE AcquireForSwap
  BY <1>8 DEF AcquireForSwap, TypeOK, LoopPcs, Threads, fdVars, callVars
<1>9. CASE Swap
  BY <1>9 DEF Swap, TypeOK, LoopPcs, fdVars, callVars
<1>10. CASE RunFunctor
  <2>1. CallTypeOK' /\ quit_' \in BOOLEAN
    BY <1>c, <1>10, UserCodeType DEF RunFunctor, TypeOK
  <2> QED
    BY <1>10, <2>1 DEF RunFunctor, TypeOK, CallTypeOK, queueVars, fdVars
<1>11. CASE EndPending
  BY <1>11 DEF EndPending, TypeOK, LoopPcs, queueVars, fdVars, callVars
<1>12. ASSUME NEW t \in Threads, AcquireForPush(t) PROVE TypeOK'
  BY <1>12 DEF AcquireForPush, TypeOK, CallPcs, loopVars, fdVars
<1>13. ASSUME NEW t \in Threads, Push(t) PROVE TypeOK'
  BY <1>13 DEF Push, TypeOK, CallPcs, loopVars, fdVars
<1>14. ASSUME NEW t \in Threads, TestWakeup(t) PROVE TypeOK'
  BY <1>14 DEF TestWakeup, TypeOK, CallPcs, loopVars, fdVars, queueVars
<1>15. ASSUME NEW t \in Threads, Wakeup(t) PROVE TypeOK'
  BY <1>15 DEF Wakeup, TypeOK, CallPcs, loopVars, queueVars
<1>16. ASSUME NEW p \in Producers, ProducerStarts(p) PROVE TypeOK'
  <2>1. p \in Threads
    BY DEF Threads
  <2>2. CallTypeOK' /\ quit_' \in BOOLEAN
    BY <1>c, <1>16, <2>1, QueueInLoopType, QuitType
    DEF ProducerStarts, ProducerQueues, ProducerQuits, TypeOK
  <2> QED
    BY <1>16, <2>2 DEF ProducerStarts, ProducerQueues, ProducerQuits, TypeOK,
       CallTypeOK, loopVars, queueVars, fdVars
<1> QED
  BY <1>1, <1>2, <1>3, <1>4a, <1>5, <1>6, <1>7, <1>8, <1>9, <1>10, <1>11, <1>12,
     <1>13, <1>14, <1>15, <1>16 DEF Next, LoopStep, CallStep

LEMMA InitType == Init => TypeOK
<1> SUFFICES ASSUME Init PROVE TypeOK
  OBVIOUS
<1>1. <<>> \in Seq(Functors)
  OBVIOUS
<1>2. CallTypeOK
  BY DEF Init, CallTypeOK, CallPcs
<1> QED
  BY <1>1, <1>2 DEF Init, TypeOK, CallTypeOK, LoopPcs

(* Every variable keeps its type in every reachable state.                   *)
THEOREM TypeCorrect == Spec => []TypeOK
BY InitType, TypeInductive, PTL DEF Spec
-----------------------------------------------------------------------------
(* Where the loop is and who holds mutex_.                                   *)

(* What user code on the loop's thread may do to the calls in progress.      *)
LEMMA UserCodeCalls ==
  ASSUME TypeOK, UserCode, call[LoopThread] = "none"
  PROVE  /\ \A p \in Producers : call'[p] = call[p]
         /\ call'[LoopThread] \in {"none", "lock"}
         /\ \A t \in Threads : call'[t] = "push" <=> call[t] = "push"
BY ThreadAssumption
DEF UserCode, QueueInLoop, Quit, callVars, TypeOK, Threads

(* A producer that begins a call is not in its critical section.             *)
LEMMA ProducerStartsCalls ==
  ASSUME TypeOK, NEW p \in Producers, ProducerStarts(p)
  PROVE  /\ \A t \in Threads : t # p => call'[t] = call[t]
         /\ call[p] = "none"
         /\ call'[p] \in {"lock", "wakeup"}
         /\ quit_' => quit_ \/ call'[p] = "wakeup"
BY ThreadAssumption
DEF ProducerStarts, ProducerQueues, ProducerQuits, QueueInLoop, Quit, TypeOK,
    Threads

LEMMA LoopInductive == TypeOK /\ LoopInv /\ [Next]_vars => LoopInv'
<1> SUFFICES ASSUME TypeOK, LoopInv, [Next]_vars PROVE LoopInv'
  OBVIOUS
<1>0. LoopThread \in Threads
  BY DEF Threads
<1>1. CASE UNCHANGED vars
  BY <1>1 DEF vars, LoopInv
<1>2. CASE Start \/ CheckQuit \/ PollWakeup \/ PollIo \/ PollTimeout
  BY <1>2 DEF Start, CheckQuit, PollWakeup, PollIo, PollTimeout, PollReturns,
     LoopAt, LoopInv, callVars
<1>3. CASE WakeupRead \/ BeginPending \/ AcquireForSwap \/ Swap \/ EndPending
  BY <1>3 DEF WakeupRead, BeginPending, AcquireForSwap, Swap, EndPending, LoopAt,
     LoopInv, callVars
<1>4. CASE HandleIo \/ RunFunctor
  BY <1>4 DEF HandleIo, RunFunctor, LoopAt, LoopInv
<1>5. ASSUME NEW t \in Threads, CallStep(t) PROVE LoopInv'
  BY <1>0, <1>5 DEF CallStep, AcquireForPush, Push, TestWakeup, Wakeup, LoopInv,
     loopVars, TypeOK
<1>6. ASSUME NEW p \in Producers, ProducerStarts(p) PROVE LoopInv'
  <2>1. call'[LoopThread] = call[LoopThread]
    BY <1>0, <1>6, ThreadAssumption, ProducerStartsCalls
  <2> QED
    BY <1>6, <2>1 DEF ProducerStarts, ProducerQueues, ProducerQuits, LoopInv, loopVars
<1> QED
  BY <1>1, <1>2, <1>3, <1>4, <1>5, <1>6 DEF Next, LoopStep

LEMMA LockInductive == TypeOK /\ LoopInv /\ LockInv /\ [Next]_vars => LockInv'
<1> SUFFICES ASSUME TypeOK, LoopInv, LockInv, [Next]_vars,
                    NEW t \in Threads
             PROVE  InCriticalSection(t)' <=> mutex_' = t
  BY DEF LockInv
<1>0. /\ InCriticalSection(t) <=> mutex_ = t
      /\ t # NoThread
      /\ LoopThread \in Threads
  BY ThreadAssumption DEF LockInv, Threads
<1>1. CASE UNCHANGED vars
  BY <1>0, <1>1 DEF vars, InCriticalSection
<1>2. CASE Start \/ CheckQuit \/ PollWakeup \/ PollIo \/ PollTimeout
  BY <1>0, <1>2 DEF Start, CheckQuit, PollWakeup, PollIo, PollTimeout, PollReturns,
     LoopAt, InCriticalSection, queueVars, callVars
<1>3. CASE WakeupRead \/ BeginPending \/ EndPending
  BY <1>0, <1>3 DEF WakeupRead, BeginPending, EndPending, LoopAt,
     InCriticalSection, queueVars, callVars
<1>4. CASE AcquireForSwap
  <2>1. ~InCriticalSection(t)
    BY <1>0, <1>4 DEF AcquireForSwap
  <2> QED
    BY <1>4, <2>1 DEF AcquireForSwap, InCriticalSection, callVars
<1>5. CASE Swap
  <2>1. mutex_ = LoopThread
    BY <1>0, <1>5 DEF Swap, LoopAt, LockInv, InCriticalSection
  <2> QED
    BY <1>0, <1>5, <2>1 DEF Swap, LoopAt, InCriticalSection, callVars
<1>6. CASE HandleIo \/ RunFunctor
  <2>1. call'[t] = "push" <=> call[t] = "push"
    BY <1>6, UserCodeCalls DEF HandleIo, RunFunctor, LoopAt
  <2> QED
    BY <1>0, <1>6, <2>1 DEF HandleIo, RunFunctor, InCriticalSection, queueVars
<1>7. ASSUME NEW u \in Threads, AcquireForPush(u)
      PROVE  InCriticalSection(t)' <=> mutex_' = t
  <2>1. ~InCriticalSection(t)
    BY <1>0, <1>7 DEF AcquireForPush
  <2>2. u = LoopThread => loopPc # "swap"
    BY <1>7 DEF AcquireForPush, LoopInv
  <2> QED
    BY <1>7, <2>1, <2>2 DEF AcquireForPush, InCriticalSection, TypeOK, loopVars
<1>8. ASSUME NEW u \in Threads, Push(u)
      PROVE  InCriticalSection(t)' <=> mutex_' = t
  <2>1. mutex_ = u
    BY <1>8 DEF Push, LockInv, InCriticalSection
  <2>2. u = LoopThread => loopPc # "swap"
    BY <1>8 DEF Push, LoopInv
  <2> QED
    BY <1>0, <1>8, <2>1, <2>2 DEF Push, InCriticalSection, TypeOK, loopVars
<1>9. ASSUME NEW u \in Threads, TestWakeup(u) \/ Wakeup(u)
      PROVE  InCriticalSection(t)' <=> mutex_' = t
  BY <1>0, <1>9 DEF TestWakeup, Wakeup, InCriticalSection, TypeOK, loopVars,
     queueVars
<1>10. ASSUME NEW p \in Producers, ProducerStarts(p)
       PROVE  InCriticalSection(t)' <=> mutex_' = t
  <2>1. call'[t] = "push" <=> call[t] = "push"
    BY <1>10, ProducerStartsCalls DEF Threads
  <2> QED
    BY <1>0, <1>10, <2>1 DEF ProducerStarts, ProducerQueues, ProducerQuits,
       InCriticalSection, loopVars, queueVars
<1> QED
  BY <1>1, <1>2, <1>3, <1>4, <1>5, <1>6, <1>7, <1>8, <1>9, <1>10
  DEF Next, LoopStep, CallStep
-----------------------------------------------------------------------------
(* Wake-ups.  A wake-up on its way stays so until the eventfd is written, and *)
(* only epoll_wait's return takes it away, after which the loop is bound to   *)
(* swap the queue before it sleeps again.                                     *)

(* Whatever the loop itself does between calls, a thread on its way to the    *)
(* eventfd is not LoopThread and stays where it is.                           *)
LEMMA OnItsWayStays ==
  ASSUME TypeOK, WakeupOnItsWay, call[LoopThread] = "none",
         \A p \in Producers : call'[p] = call[p]
  PROVE  WakeupOnItsWay'
<1>1. PICK t \in Threads : \/ call[t] = "wakeup"
                           \/ call[t] = "test" /\ NeedsWakeup(t)
  BY DEF WakeupOnItsWay
<1>2. t \in Producers /\ t # LoopThread
  BY <1>1, ThreadAssumption DEF Threads
<1> QED
  BY <1>1, <1>2 DEF WakeupOnItsWay, NeedsWakeup, Threads

(* The same for a step of a thread that leaves the others where they are.     *)
LEMMA OnItsWayOfAnother ==
  ASSUME TypeOK, WakeupOnItsWay, NEW u \in Threads,
         call[u] \notin {"test", "wakeup"},
         \A t \in Threads : t # u => call'[t] = call[t],
         UNCHANGED callingPendingFucntors_
  PROVE  WakeupOnItsWay'
<1>1. PICK t \in Threads : \/ call[t] = "wakeup"
                           \/ call[t] = "test" /\ NeedsWakeup(t)
  BY DEF WakeupOnItsWay
<1> QED
  BY <1>1 DEF WakeupOnItsWay, NeedsWakeup

(* A step inside queueInLoop keeps a wake-up that exists or is on its way;    *)
(* Push creates one unless the loop's own thread pushes between two swaps.    *)
LEMMA CallStepWakes ==
  ASSUME TypeOK, LoopInv, NEW t \in Threads, CallStep(t)
  PROVE  /\ WakeupReady \/ WakeupOnItsWay => (WakeupReady \/ WakeupOnItsWay)'
         /\ Push(t) /\ loopPc # "handle" => WakeupOnItsWay'
<1>0. LoopThread \in Threads
  BY DEF Threads
<1>1. CASE AcquireForPush(t)
  <2>1. WakeupReady => WakeupReady'
    BY <1>1 DEF AcquireForPush, WakeupReady, fdVars
  <2>2. WakeupOnItsWay => WakeupOnItsWay'
    BY <1>1, OnItsWayOfAnother DEF AcquireForPush, TypeOK, loopVars
  <2>3. ~Push(t)
    BY <1>1 DEF AcquireForPush, Push
  <2> QED
    BY <2>1, <2>2, <2>3
<1>2. CASE Push(t)
  <2>1. WakeupReady => WakeupReady'
    BY <1>2 DEF Push, WakeupReady, fdVars
  <2>2. WakeupOnItsWay => WakeupOnItsWay'
    BY <1>2, OnItsWayOfAnother DEF Push, TypeOK, loopVars
  <2>3. ASSUME loopPc # "handle" PROVE WakeupOnItsWay'
    <3>1. call'[t] = "test" /\ callingPendingFucntors_' = callingPendingFucntors_
      BY <1>2 DEF Push, TypeOK, loopVars
    <3>2. t = LoopThread => callingPendingFucntors_
      BY <1>2, <2>3 DEF Push, LoopInv
    <3> QED
      BY <3>1, <3>2 DEF WakeupOnItsWay, NeedsWakeup
  <2> QED
    BY <2>1, <2>2, <2>3
<1>3. CASE TestWakeup(t)
  <2>1. WakeupReady => WakeupReady'
    BY <1>3 DEF TestWakeup, WakeupReady, fdVars
  <2>2. ASSUME WakeupOnItsWay PROVE WakeupOnItsWay'
    <3>1. PICK u \in Threads : \/ call[u] = "wakeup"
                               \/ call[u] = "test" /\ NeedsWakeup(u)
      BY <2>2 DEF WakeupOnItsWay
    <3>2. u = t => call'[u] = "wakeup"
      BY <1>3, <3>1 DEF TestWakeup, TypeOK
    <3>3. u # t => call'[u] = call[u]
      BY <1>3 DEF TestWakeup, TypeOK
    <3> QED
      BY <1>3, <3>1, <3>2, <3>3 DEF TestWakeup, WakeupOnItsWay, NeedsWakeup, loopVars
  <2>3. ~Push(t)
    BY <1>3 DEF TestWakeup, Push
  <2> QED
    BY <2>1, <2>2, <2>3
<1>4. CASE Wakeup(t)
  BY <1>4 DEF Wakeup, WakeupReady, Push
<1> QED
  BY <1>1, <1>2, <1>3, <1>4 DEF CallStep

(* A producer that begins a call leaves a wake-up in place.                   *)
LEMMA ProducerStartsWakes ==
  ASSUME TypeOK, NEW p \in Producers, ProducerStarts(p)
  PROVE  /\ WakeupReady \/ WakeupOnItsWay => (WakeupReady \/ WakeupOnItsWay)'
         /\ quit_' => quit_ \/ WakeupOnItsWay'
<1>0. p \in Threads
  BY DEF Threads
<1>1. WakeupReady => WakeupReady'
  BY DEF ProducerStarts, ProducerQueues, ProducerQuits, WakeupReady, fdVars
<1>2. WakeupOnItsWay => WakeupOnItsWay'
  BY <1>0, ProducerStartsCalls, OnItsWayOfAnother
  DEF ProducerStarts, ProducerQueues, ProducerQuits, loopVars
<1>3. quit_' => quit_ \/ WakeupOnItsWay'
  BY <1>0, ProducerStartsCalls DEF WakeupOnItsWay
<1> QED
  BY <1>1, <1>2, <1>3

LEMMA WakeInductive == TypeOK /\ LoopInv /\ WakeInv /\ [Next]_vars => WakeInv'
<1> SUFFICES ASSUME TypeOK, LoopInv, WakeInv, [Next]_vars PROVE WakeInv'
  OBVIOUS
<1>1. CASE UNCHANGED vars
  BY <1>1 DEF vars, WakeInv, WakeupReady, WakeupOnItsWay, NeedsWakeup
<1>2. CASE Start \/ CheckQuit \/ EndPending
  <2>1. /\ loopPc \in {"start", "check", "run"}
        /\ call[LoopThread] = "none"
        /\ UNCHANGED <<pendingFunctors_, eventfdSet, edge, call>>
    BY <1>2 DEF Start, CheckQuit, EndPending, LoopAt, queueVars, fdVars, callVars
  <2> QED
    BY <2>1, OnItsWayStays DEF WakeInv, WakeupReady
<1>3. CASE PollWakeup \/ PollIo \/ PollTimeout
  BY <1>3 DEF PollWakeup, PollIo, PollTimeout, PollReturns, WakeInv
<1>4. CASE WakeupRead \/ BeginPending \/ AcquireForSwap \/ HandleIo
  BY <1>4 DEF WakeupRead, BeginPending, AcquireForSwap, HandleIo, LoopAt, WakeInv
<1>5. CASE Swap
  BY <1>5 DEF Swap, WakeInv
<1>6. CASE RunFunctor
  <2>1. /\ loopPc = "run"
        /\ call[LoopThread] = "none"
        /\ UNCHANGED <<pendingFunctors_, eventfdSet, edge>>
        /\ \A p \in Producers : call'[p] = call[p]
    BY <1>6, UserCodeCalls DEF RunFunctor, LoopAt, queueVars, fdVars
  <2> QED
    BY <2>1, OnItsWayStays DEF WakeInv, WakeupReady
<1>7. ASSUME NEW t \in Threads, CallStep(t) PROVE WakeInv'
  <2>1. CASE Push(t)
    <3>1. loopPc' = loopPc
      BY <2>1 DEF Push, loopVars
    <3> QED
      BY <1>7, <2>1, <3>1, CallStepWakes DEF WakeInv
  <2>2. CASE ~Push(t)
    <3>1. UNCHANGED <<loopPc, pendingFunctors_>>
      BY <1>7, <2>2 DEF CallStep, AcquireForPush, TestWakeup, Wakeup, loopVars,
         queueVars
    <3> QED
      BY <1>7, <3>1, CallStepWakes DEF WakeInv
  <2> QED
    BY <2>1, <2>2
<1>8. ASSUME NEW p \in Producers, ProducerStarts(p) PROVE WakeInv'
  <2>1. UNCHANGED <<loopPc, pendingFunctors_>>
    BY <1>8 DEF ProducerStarts, ProducerQueues, ProducerQuits, loopVars, queueVars
  <2> QED
    BY <1>8, <2>1, ProducerStartsWakes DEF WakeInv
<1> QED
  BY <1>1, <1>2, <1>3, <1>4, <1>5, <1>6, <1>7, <1>8 DEF Next, LoopStep

LEMMA QuitInductive ==
  TypeOK /\ LoopInv /\ NoLostQuit /\ [Next]_vars => NoLostQuit'
<1> SUFFICES ASSUME TypeOK, LoopInv, NoLostQuit, [Next]_vars PROVE NoLostQuit'
  OBVIOUS
<1>1. CASE UNCHANGED vars
  BY <1>1 DEF vars, NoLostQuit, WakeupReady, WakeupOnItsWay, NeedsWakeup
<1>2. CASE LoopStep \/ PollIo \/ PollTimeout
  BY <1>2 DEF LoopStep, Start, CheckQuit, PollWakeup, PollIo, PollTimeout,
     PollReturns, WakeupRead, HandleIo, BeginPending, AcquireForSwap, Swap,
     RunFunctor, EndPending, LoopAt, NoLostQuit
<1>3. ASSUME NEW t \in Threads, CallStep(t) PROVE NoLostQuit'
  <2>1. UNCHANGED <<loopPc, quit_>>
    BY <1>3 DEF CallStep, AcquireForPush, Push, TestWakeup, Wakeup, loopVars
  <2> QED
    BY <1>3, <2>1, CallStepWakes DEF NoLostQuit
<1>4. ASSUME NEW p \in Producers, ProducerStarts(p) PROVE NoLostQuit'
  <2>1. UNCHANGED loopPc
    BY <1>4 DEF ProducerStarts, ProducerQueues, ProducerQuits, loopVars
  <2> QED
    BY <1>4, <2>1, ProducerStartsWakes DEF NoLostQuit
<1> QED
  BY <1>1, <1>2, <1>3, <1>4 DEF Next
-----------------------------------------------------------------------------
(* Order.  SequenceLemmas says how taking the head of the mailbox's queue and *)
(* extending its tail look in its two parts, the batch and the pending        *)
(* functors.                                                                  *)

(* The mailbox's queue: what is left of the batch, then what is pending.      *)
Queue == functors \o pendingFunctors_

(* How each step that touches the queue moves it.                             *)
LEMMA QueueSteps ==
  ASSUME TypeOK, LoopInv
  PROVE  /\ Queue \in Seq(Functors)
         /\ \A t \in Threads : Push(t) =>
               cb[t] \in Functors /\ Queue' = Append(Queue, cb[t])
         /\ Swap => Queue' = Queue
         /\ RunFunctor => /\ Queue # <<>>
                          /\ executed' = Append(executed, Head(Queue))
                          /\ Queue' = Tail(Queue)
<1>1. Queue \in Seq(Functors)
  BY ConcatProperties DEF TypeOK, Queue
<1>2. ASSUME NEW t \in Threads, Push(t)
      PROVE  cb[t] \in Functors /\ Queue' = Append(Queue, cb[t])
  <2>1. cb[t] \in Functors
    BY <1>2 DEF Push, TypeOK
  <2>2. Queue' = functors \o Append(pendingFunctors_, cb[t])
    BY <1>2 DEF Push, Queue, loopVars
  <2> QED
    BY <2>1, <2>2, AppendOfConcat DEF TypeOK, Queue
<1>3. ASSUME Swap PROVE Queue' = Queue
  <2>1. functors = <<>>
    BY <1>3 DEF Swap, LoopAt, LoopInv
  <2>2. Queue' = pendingFunctors_ \o <<>> /\ Queue = <<>> \o pendingFunctors_
    BY <1>3, <2>1 DEF Swap, Queue
  <2> QED
    BY <2>2, ConcatEmptySeq DEF TypeOK
<1>4. ASSUME RunFunctor
      PROVE  /\ Queue # <<>>
             /\ executed' = Append(executed, Head(Queue))
             /\ Queue' = Tail(Queue)
  <2>1. /\ functors \in Seq(Functors) /\ pendingFunctors_ \in Seq(Functors)
        /\ functors # <<>>
        /\ executed' = Append(executed, Head(functors))
        /\ functors' = Tail(functors) /\ pendingFunctors_' = pendingFunctors_
    BY <1>4 DEF RunFunctor, TypeOK, queueVars
  <2>2. /\ Queue # <<>> /\ Head(Queue) = Head(functors)
        /\ Tail(Queue) = Tail(functors) \o pendingFunctors_
    BY <2>1, HeadTailOfConcat DEF Queue
  <2>3. Queue' = Tail(functors) \o pendingFunctors_
    BY <2>1 DEF Queue
  <2> QED
    BY <2>1, <2>2, <2>3
<1> QED
  BY <1>1, <1>2, <1>3, <1>4

(* Every other step leaves the queue and the history alone.                   *)
LEMMA OtherSteps ==
  ASSUME [Next]_vars, ~Swap, ~RunFunctor, \A t \in Threads : ~Push(t)
  PROVE  UNCHANGED <<functors, pendingFunctors_, posted, executed>>
BY DEF Next, LoopStep, Start, CheckQuit, PollWakeup, PollIo, PollTimeout,
   PollReturns, WakeupRead, HandleIo, BeginPending, AcquireForSwap, EndPending,
   CallStep, AcquireForPush, TestWakeup, Wakeup, ProducerStarts, ProducerQueues,
   ProducerQuits, vars, loopVars, queueVars

LEMMA FifoInductive ==
  TypeOK /\ LoopInv /\ FifoExactlyOnce /\ [Next]_vars => FifoExactlyOnce'
<1> SUFFICES ASSUME TypeOK, LoopInv, executed \o Queue = posted, [Next]_vars
             PROVE  executed' \o Queue' = posted'
  BY DEF FifoExactlyOnce, Queue
<1>0. Queue \in Seq(Functors) /\ executed \in Seq(Functors)
  BY QueueSteps DEF TypeOK
<1>1. ASSUME NEW t \in Threads, Push(t) PROVE executed' \o Queue' = posted'
  <2>1. cb[t] \in Functors /\ Queue' = Append(Queue, cb[t])
    BY <1>1, QueueSteps
  <2>2. executed' = executed /\ posted' = Append(posted, cb[t])
    BY <1>1 DEF Push
  <2> QED
    BY <1>0, <2>1, <2>2, AppendOfConcat
<1>2. CASE Swap
  BY <1>2, QueueSteps DEF Swap
<1>3. CASE RunFunctor
  <2>1. posted' = posted
    BY <1>3 DEF RunFunctor
  <2> QED
    BY <1>0, <1>3, <2>1, QueueSteps, MoveHead
<1>4. CASE ~Swap /\ ~RunFunctor /\ \A t \in Threads : ~Push(t)
  BY <1>4, OtherSteps DEF Queue
<1> QED
  BY <1>1, <1>2, <1>3, <1>4

-----------------------------------------------------------------------------
(* The inductive invariant and what follows from it.                          *)

THEOREM Invariance == Spec => []IInv
<1>1. Init => IInv
  <2> SUFFICES ASSUME Init PROVE IInv
    OBVIOUS
  <2>1. LoopInv /\ LockInv
    BY ThreadAssumption DEF Init, LoopInv, LockInv, InCriticalSection, Threads
  <2>2. WakeInv /\ NoLostQuit
    BY DEF Init, WakeInv, NoLostQuit
  <2>3. FifoExactlyOnce
    <3>1. <<>> \in Seq(Functors)
      BY EmptySeq
    <3> QED
      BY <3>1, ConcatEmptySeq DEF Init, FifoExactlyOnce
  <2> QED
    BY <2>1, <2>2, <2>3, InitType DEF IInv
<1>2. IInv /\ [Next]_vars => IInv'
  BY TypeInductive, LoopInductive, LockInductive, WakeInductive, QuitInductive,
     FifoInductive DEF IInv
<1> QED
  BY <1>1, <1>2, PTL DEF Spec

(* The push_back of queueInLoop and the swap of doPendingFunctors never       *)
(* overlap, for any number of threads.                                        *)
THEOREM MutualExclusionHolds == Spec => []MutualExclusion
<1>1. IInv => MutualExclusion
  BY DEF IInv, LockInv, MutualExclusion
<1> QED
  BY <1>1, Invariance, PTL

(* loop() never sleeps in epoll_wait on queued work that nobody will wake it  *)
(* for.                                                                       *)
THEOREM NoLostWakeupHolds == Spec => []NoLostWakeup
<1>1. IInv => NoLostWakeup
  BY DEF IInv, WakeInv, NoLostWakeup
<1> QED
  BY <1>1, Invariance, PTL

(* loop() never sleeps in epoll_wait through a quit().                        *)
THEOREM NoLostQuitHolds == Spec => []NoLostQuit
<1>1. IInv => NoLostQuit
  BY DEF IInv
<1> QED
  BY <1>1, Invariance, PTL

(* Functors are executed in the order they were pushed, each exactly once.    *)
THEOREM FifoExactlyOnceHolds == Spec => []FifoExactlyOnce
<1>1. IInv => FifoExactlyOnce
  BY DEF IInv
<1> QED
  BY <1>1, Invariance, PTL

-----------------------------------------------------------------------------
(* Refinement.                                                                *)

(* The safety part of MailboxRefinement: the initial state is the mailbox's   *)
(* and every step is one of its steps or leaves it alone.                     *)
MailboxSafety == AsMailbox!Init /\ [][AsMailbox!Next]_(AsMailbox!vars)

LEMMA StepRefines ==
  TypeOK /\ LoopInv /\ [Next]_vars => [AsMailbox!Next]_(AsMailbox!vars)
<1> SUFFICES ASSUME TypeOK, LoopInv, [Next]_vars
             PROVE  AsMailbox!Next \/ UNCHANGED AsMailbox!vars
  OBVIOUS
<1> DEFINE stopped == loopPc = "done"
<1>1. ASSUME NEW t \in Threads, Push(t) PROVE AsMailbox!Next
  <2>1. cb[t] \in Functors /\ Queue' = Append(Queue, cb[t])
    BY <1>1, QueueSteps
  <2>2. UNCHANGED <<executed, stopped>>
    BY <1>1 DEF Push, loopVars
  <2> QED
    BY <2>1, <2>2 DEF AsMailbox!Next, AsMailbox!Post, Queue
<1>2. CASE Swap
  <2>1. UNCHANGED <<executed, stopped>>
    BY <1>2 DEF Swap, LoopAt
  <2> QED
    BY <1>2, <2>1, QueueSteps DEF AsMailbox!vars, Queue
<1>3. CASE RunFunctor
  <2>1. ~stopped /\ UNCHANGED stopped
    BY <1>3 DEF RunFunctor, LoopAt
  <2> QED
    BY <1>3, <2>1, QueueSteps DEF AsMailbox!Next, AsMailbox!Execute, Queue
<1>4. CASE ~Swap /\ ~RunFunctor /\ \A t \in Threads : ~Push(t)
  <2>1. UNCHANGED <<functors, pendingFunctors_, executed>>
    BY <1>4, OtherSteps
  <2>2. stopped => stopped'
    BY DEF Next, LoopStep, Start, CheckQuit, PollWakeup, PollIo, PollTimeout,
       PollReturns, WakeupRead, HandleIo, BeginPending, AcquireForSwap, Swap,
       RunFunctor, EndPending, LoopAt, CallStep, AcquireForPush, Push, TestWakeup,
       Wakeup, ProducerStarts, ProducerQueues, ProducerQuits, vars, loopVars
  <2> QED
    BY <2>1, <2>2 DEF AsMailbox!Next, AsMailbox!Stop, AsMailbox!vars
<1> QED
  BY <1>1, <1>2, <1>3, <1>4

(* EventLoop implements the mailbox, as far as safety goes.                   *)
THEOREM ImplementsMailbox == Spec => MailboxSafety
<1>1. Init => AsMailbox!Init
  <2>1. <<>> \in Seq(Functors)
    BY EmptySeq
  <2> QED
    BY <2>1, ConcatEmptySeq DEF Init, AsMailbox!Init
<1>2. IInv /\ [Next]_vars => [AsMailbox!Next]_(AsMailbox!vars)
  BY StepRefines DEF IInv
<1> QED
  BY <1>1, <1>2, Invariance, PTL DEF Spec, MailboxSafety

-----------------------------------------------------------------------------
(* The safety half of QuitEndsLoop and EveryFunctorRuns.                      *)

(* mutex_ is held by a thread in its critical section, never by one that      *)
(* waits for it: no thread, and not the loop, waits for itself.               *)
MutexIsReleased ==
  /\ mutex_ # NoThread => \E t \in Threads : mutex_ = t /\ InCriticalSection(t)
  /\ \A t \in Threads : call[t] = "lock" => mutex_ # t
  /\ loopPc = "lock" => mutex_ # LoopThread

(* A functor or handler of the loop may queue on its own loop, and a producer *)
(* may queue while the loop swaps, without anybody waiting for ever.          *)
THEOREM MutexIsReleasedHolds == Spec => []MutexIsReleased
<1>1. IInv => MutexIsReleased
  <2> SUFFICES ASSUME IInv PROVE MutexIsReleased
    OBVIOUS
  <2>1. LoopThread \in Threads
    BY DEF Threads
  <2>2. mutex_ # NoThread => \E t \in Threads : mutex_ = t /\ InCriticalSection(t)
    BY DEF IInv, TypeOK, LockInv
  <2>3. ASSUME NEW t \in Threads, call[t] = "lock" PROVE mutex_ # t
    <3>1. ~InCriticalSection(t)
      BY <2>3 DEF IInv, LoopInv, InCriticalSection
    <3> QED
      BY <3>1 DEF IInv, LockInv
  <2>4. loopPc = "lock" => mutex_ # LoopThread
    BY <2>1 DEF IInv, LoopInv, LockInv, InCriticalSection
  <2> QED
    BY <2>2, <2>3, <2>4 DEF MutexIsReleased
<1> QED
  BY <1>1, Invariance, PTL

(* The places of the loop, in the order in which a last turn visits them.     *)
TurnPlace(pc) ==
  CASE pc = "start" -> 7 [] pc = "poll" -> 6 [] pc = "handle" -> 5 [] pc = "lock" -> 4
    [] pc = "swap" -> 3 [] pc = "run" -> 2 [] pc = "check" -> 1 [] pc = "done" -> 0

(* After quit() no step leads to another turn, no channel joins those to be   *)
(* handled and no functor the batch, however many are queued meanwhile.       *)
LastTurn ==
  quit_ =>
    /\ quit_'
    /\ \/ UNCHANGED <<loopPc, active, functors>>
       \/ TurnPlace(loopPc') < TurnPlace(loopPc)
       \/ UNCHANGED loopPc /\ loopPc = "handle" /\ \E c \in active : active' = active \ {c}
       \/ UNCHANGED loopPc /\ loopPc = "run" /\ functors # <<>> /\ functors' = Tail(functors)

LEMMA StepOfLastTurn == [Next]_vars => LastTurn
<1> SUFFICES ASSUME [Next]_vars, quit_ PROVE LastTurn
  BY DEF LastTurn
<1>1. CASE UNCHANGED vars
  BY <1>1 DEF vars, LastTurn
<1>2. ASSUME NEW t \in Threads, CallStep(t) PROVE LastTurn
  BY <1>2 DEF CallStep, AcquireForPush, Push, TestWakeup, Wakeup, loopVars, LastTurn
<1>3. ASSUME NEW p \in Producers, ProducerStarts(p) PROVE LastTurn
  BY <1>3 DEF ProducerStarts, ProducerQueues, ProducerQuits, loopVars, LastTurn
<1>4. CASE Start \/ CheckQuit \/ BeginPending \/ AcquireForSwap \/ Swap \/ EndPending
  <2>1. /\ quit_' = quit_
        /\ \/ loopPc = "start" /\ loopPc' = "check"
           \/ loopPc = "check" /\ loopPc' = "done"
           \/ loopPc = "handle" /\ loopPc' = "lock"
           \/ loopPc = "lock" /\ loopPc' = "swap"
           \/ loopPc = "swap" /\ loopPc' = "run"
           \/ loopPc = "run" /\ loopPc' = "check"
    BY <1>4 DEF Start, CheckQuit, BeginPending, AcquireForSwap, Swap, EndPending, LoopAt
  <2>2. TurnPlace(loopPc') < TurnPlace(loopPc)
    BY <2>1 DEF TurnPlace
  <2> QED
    BY <2>1, <2>2 DEF LastTurn
<1>5. CASE PollWakeup \/ PollIo \/ PollTimeout
  <2>1. quit_' = quit_ /\ loopPc = "poll" /\ loopPc' = "handle"
    BY <1>5 DEF PollWakeup, PollIo, PollTimeout, PollReturns, LoopAt
  <2>2. TurnPlace(loopPc') < TurnPlace(loopPc)
    BY <2>1 DEF TurnPlace
  <2> QED
    BY <2>1, <2>2 DEF LastTurn
<1>6. CASE WakeupRead
  BY <1>6 DEF WakeupRead, LoopAt, LastTurn
<1>7. UserCode => quit_'
  BY DEF UserCode, Quit
<1>8. CASE HandleIo
  BY <1>7, <1>8 DEF HandleIo, LoopAt, LastTurn
<1>9. CASE RunFunctor
  BY <1>7, <1>9 DEF RunFunctor, LoopAt, LastTurn
<1> QED
  BY <1>1, <1>2, <1>3, <1>4, <1>5, <1>6, <1>8, <1>9 DEF Next, LoopStep

(* quit() lets the loop finish the turn under way, and no more.               *)
THEOREM LastTurnHolds == Spec => [][LastTurn]_vars
<1>1. [Next]_vars => [LastTurn]_vars
  BY StepOfLastTurn
<1> QED
  BY <1>1, PTL DEF Spec
=============================================================================
