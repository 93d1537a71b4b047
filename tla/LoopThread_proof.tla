--------------------------- MODULE LoopThread_proof ---------------------------
(* TidKnownAfterStart, ObjectOutlivesThread and ReturnedLoopsAreLive hold for *)
(* every number of threads and failures.  The invariant ties the state of     *)
(* each thread to what it has written (ThreadInv), and what the owner is      *)
(* doing to how far its thread has come (OwnerInv, LoopsInv).                 *)
EXTENDS LoopThread, TLAPS

ThreadInv ==
  /\ \A t \in Threads :
       /\ t \in started_ <=> thread[t] # "none"
       /\ latch_[t] = 1 <=> thread[t] \in {"none", "begin", "count"}
       /\ t \in tid_ <=> thread[t] \notin {"none", "begin"}
  /\ \A t \in LoopThreads :
       /\ t \in loop_ <=> thread[t] \in {"loop", "poll", "unwind", "done"}
       /\ thread[t] \in {"unwind", "done"} => t \in quit_
  /\ \A t \in PlainThreads :
       thread[t] \in {"none", "begin", "count", "func", "done"}

OwnerInv ==
  /\ owner \in {"latch", "latchAsleep"} => obj \in started_ \ (freed \cup quit_)
  /\ owner \in {"cond", "condAsleep"} =>
       obj \in LoopThreads \ (freed \cup quit_) /\ (obj \in started_ => latch_[obj] = 0)
  /\ owner = "quit" => obj \in quit_ \ freed
  /\ owner = "join" => obj \in started_ /\ latch_[obj] = 0
  /\ owner \in {"join", "crashed"} /\ obj \in LoopThreads => obj \in quit_
  /\ \A t \in started_ :
       (owner \in {"latch", "latchAsleep"} /\ obj = t) \/ latch_[t] = 0
  /\ \A t \in freed \cap LoopThreads : t \in quit_ /\ thread[t] = "done"
  /\ quit_ \subseteq loop_

LoopsInv ==
  /\ \A i \in DOMAIN loops_ : loops_[i] \in loop_
  /\ \A i, j \in DOMAIN loops_ : loops_[i] = loops_[j] => i = j
  /\ owner \in {"latch", "latchAsleep", "cond", "condAsleep"} =>
       \A i \in DOMAIN loops_ : loops_[i] # obj

IInv == TypeOK /\ ThreadInv /\ OwnerInv /\ LoopsInv

-----------------------------------------------------------------------------
LEMMA InitIInv == Init => IInv
BY ThreadsAssumption
   DEF Init, IInv, TypeOK, ThreadInv, OwnerInv, LoopsInv, OwnerPcs, ThreadPcs, Threads

(* A thread counts down once, and the owner joins only what was started.      *)
LEMMA TypeInductive == TypeOK /\ ThreadInv /\ OwnerInv /\ [Next]_vars => TypeOK'
<1> SUFFICES ASSUME TypeOK, ThreadInv, OwnerInv, [Next]_vars PROVE TypeOK'
  OBVIOUS
<1> USE ThreadsAssumption DEF TypeOK, ThreadInv, OwnerPcs, ThreadPcs, Threads
<1>0. CASE UNCHANGED vars
  BY <1>0 DEF vars, objVars
<1>1. ASSUME NEW t \in Threads, Start(t) PROVE TypeOK'
  BY <1>1 DEF Start, OwnerGoes
<1>2. ASSUME NEW t \in Threads, StartFails(t) PROVE TypeOK'
  BY <1>2 DEF StartFails, OwnerGoes, OwnerIsDone
<1>3. ASSUME NEW t \in Threads, Join(t) PROVE TypeOK'
  BY <1>3 DEF Join, OwnerGoes
<1>4. ASSUME NEW t \in Threads, DestroyThread(t) PROVE TypeOK'
  BY <1>4 DEF DestroyThread
<1>5. ASSUME NEW t \in Threads, DestroyLoopThread(t) PROVE TypeOK'
  BY <1>5 DEF DestroyLoopThread, OwnerGoes, objVars
<1>6. ASSUME NEW t \in Threads, LatchWait(t) PROVE TypeOK'
  BY <1>6 DEF LatchWait, OwnerIs, OwnerGoes, OwnerIsDone, OwnerElse, objVars
<1>7. ASSUME NEW t \in Threads, CondWait(t) PROVE TypeOK'
  BY <1>7 DEF CondWait, OwnerIs, OwnerGoes, OwnerIsDone, OwnerElse, objVars
<1>8. ASSUME NEW t \in Threads, QuitAndJoin(t) PROVE TypeOK'
  <2>1. t \in started_
    BY <1>8 DEF QuitAndJoin, OwnerIs, OwnerInv
  <2> QED
    BY <1>8, <2>1 DEF QuitAndJoin, OwnerIs, OwnerGoes
<1>9. ASSUME NEW t \in Threads, QuitTouchesDeadLoop(t) PROVE TypeOK'
  BY <1>9 DEF QuitTouchesDeadLoop, OwnerIs, OwnerGoes, OwnerElse, objVars
<1>10. ASSUME NEW t \in Threads, JoinReturns(t) PROVE TypeOK'
  BY <1>10 DEF JoinReturns, OwnerIs, OwnerGoes, OwnerIsDone
<1>11. ASSUME NEW t \in Threads, SpuriousWakeup(t) PROVE TypeOK'
  BY <1>11 DEF SpuriousWakeup, OwnerIs, OwnerGoes, OwnerElse, objVars
<1>12. ASSUME NEW t \in Threads, StoreTid(t) PROVE TypeOK'
  BY <1>12 DEF StoreTid, Goes, objVars
<1>13. ASSUME NEW t \in Threads, CountDown(t) PROVE TypeOK'
  BY <1>13 DEF CountDown, Goes, Notify, OwnerIs, objVars
<1>14. ASSUME NEW t \in Threads, RunFunc(t) PROVE TypeOK'
  BY <1>14 DEF RunFunc, Goes, objVars
<1>15. ASSUME NEW t \in Threads, ConstructLoop(t) PROVE TypeOK'
  BY <1>15 DEF ConstructLoop, Goes, objVars
<1>16. ASSUME NEW t \in Threads, Publish(t) PROVE TypeOK'
  BY <1>16 DEF Publish, Goes, Notify, OwnerIs, objVars
<1>17. ASSUME NEW t \in Threads, TestQuit(t) PROVE TypeOK'
  BY <1>17 DEF TestQuit, Goes, objVars
<1>18. ASSUME NEW t \in Threads, Turn(t) PROVE TypeOK'
  BY <1>18 DEF Turn, Goes, objVars
<1>19. ASSUME NEW t \in Threads, Unwind(t) PROVE TypeOK'
  BY <1>19 DEF Unwind, Goes, objVars
<1> QED
  BY <1>0, <1>1, <1>2, <1>3, <1>4, <1>5, <1>6, <1>7, <1>8, <1>9, <1>10, <1>11, <1>12, <1>13, <1>14, <1>15, <1>16, <1>17, <1>18, <1>19
     DEF Next, OwnerChoice, OwnerStep, ThreadStep

(* What a thread has written.                                                 *)
LEMMA ThreadInductive == TypeOK /\ ThreadInv /\ [Next]_vars => ThreadInv'
<1> SUFFICES ASSUME TypeOK, ThreadInv, [Next]_vars PROVE ThreadInv'
  OBVIOUS
<1> USE ThreadsAssumption DEF TypeOK, ThreadInv, ThreadPcs, Threads
<1>0. CASE UNCHANGED vars
  BY <1>0 DEF vars, objVars
<1>1. ASSUME NEW t \in Threads, Start(t) PROVE ThreadInv'
  BY <1>1 DEF Start, OwnerGoes
<1>2. ASSUME NEW t \in Threads, StartFails(t) PROVE ThreadInv'
  BY <1>2 DEF StartFails, OwnerGoes, OwnerIsDone
<1>3. ASSUME NEW t \in Threads, Join(t) PROVE ThreadInv'
  BY <1>3 DEF Join, OwnerGoes
<1>4. ASSUME NEW t \in Threads, DestroyThread(t) PROVE ThreadInv'
  BY <1>4 DEF DestroyThread
<1>5. ASSUME NEW t \in Threads, DestroyLoopThread(t) PROVE ThreadInv'
  BY <1>5 DEF DestroyLoopThread, OwnerGoes, objVars
<1>6. ASSUME NEW t \in Threads, LatchWait(t) PROVE ThreadInv'
  BY <1>6 DEF LatchWait, OwnerIs, OwnerGoes, OwnerIsDone, OwnerElse, objVars
<1>7. ASSUME NEW t \in Threads, CondWait(t) PROVE ThreadInv'
  BY <1>7 DEF CondWait, OwnerIs, OwnerGoes, OwnerIsDone, OwnerElse, objVars
<1>8. ASSUME NEW t \in Threads, QuitAndJoin(t) PROVE ThreadInv'
  BY <1>8 DEF QuitAndJoin, OwnerIs, OwnerGoes
<1>9. ASSUME NEW t \in Threads, QuitTouchesDeadLoop(t) PROVE ThreadInv'
  BY <1>9 DEF QuitTouchesDeadLoop, OwnerIs, OwnerGoes, OwnerElse, objVars
<1>10. ASSUME NEW t \in Threads, JoinReturns(t) PROVE ThreadInv'
  BY <1>10 DEF JoinReturns, OwnerIs, OwnerGoes, OwnerIsDone
<1>11. ASSUME NEW t \in Threads, SpuriousWakeup(t) PROVE ThreadInv'
  BY <1>11 DEF SpuriousWakeup, OwnerIs, OwnerGoes, OwnerElse, objVars
<1>12. ASSUME NEW t \in Threads, StoreTid(t) PROVE ThreadInv'
  BY <1>12 DEF StoreTid, Goes, objVars
<1>13. ASSUME NEW t \in Threads, CountDown(t) PROVE ThreadInv'
  BY <1>13 DEF CountDown, Goes, Notify, OwnerIs, objVars
<1>14. ASSUME NEW t \in Threads, RunFunc(t) PROVE ThreadInv'
  BY <1>14 DEF RunFunc, Goes, objVars
<1>15. ASSUME NEW t \in Threads, ConstructLoop(t) PROVE ThreadInv'
  BY <1>15 DEF ConstructLoop, Goes, objVars
<1>16. ASSUME NEW t \in Threads, Publish(t) PROVE ThreadInv'
  BY <1>16 DEF Publish, Goes, Notify, OwnerIs, objVars
<1>17. ASSUME NEW t \in Threads, TestQuit(t) PROVE ThreadInv'
  BY <1>17 DEF TestQuit, Goes, objVars
<1>18. ASSUME NEW t \in Threads, Turn(t) PROVE ThreadInv'
  BY <1>18 DEF Turn, Goes, objVars
<1>19. ASSUME NEW t \in Threads, Unwind(t) PROVE ThreadInv'
  BY <1>19 DEF Unwind, Goes, objVars
<1> QED
  BY <1>0, <1>1, <1>2, <1>3, <1>4, <1>5, <1>6, <1>7, <1>8, <1>9, <1>10, <1>11, <1>12, <1>13, <1>14, <1>15, <1>16, <1>17, <1>18, <1>19
     DEF Next, OwnerChoice, OwnerStep, ThreadStep

(* What the owner waits for.                                                  *)
LEMMA OwnerInductive == TypeOK /\ ThreadInv /\ OwnerInv /\ [Next]_vars => OwnerInv'
<1> SUFFICES ASSUME TypeOK, ThreadInv, OwnerInv, [Next]_vars PROVE OwnerInv'
  OBVIOUS
<1> USE ThreadsAssumption DEF TypeOK, ThreadInv, OwnerInv, OwnerPcs, ThreadPcs, Threads
<1>0. CASE UNCHANGED vars
  BY <1>0 DEF vars, objVars
<1>1. ASSUME NEW t \in Threads, Start(t) PROVE OwnerInv'
  BY <1>1 DEF Start, OwnerGoes
<1>2. ASSUME NEW t \in Threads, StartFails(t) PROVE OwnerInv'
  BY <1>2 DEF StartFails, OwnerGoes, OwnerIsDone
<1>3. ASSUME NEW t \in Threads, Join(t) PROVE OwnerInv'
  BY <1>3 DEF Join, OwnerGoes
<1>4. ASSUME NEW t \in Threads, DestroyThread(t) PROVE OwnerInv'
  BY <1>4 DEF DestroyThread
<1>5. ASSUME NEW t \in Threads, DestroyLoopThread(t) PROVE OwnerInv'
  BY <1>5 DEF DestroyLoopThread, OwnerGoes, objVars
<1>6. ASSUME NEW t \in Threads, LatchWait(t) PROVE OwnerInv'
  BY <1>6 DEF LatchWait, OwnerIs, OwnerGoes, OwnerIsDone, OwnerElse, objVars
<1>7. ASSUME NEW t \in Threads, CondWait(t) PROVE OwnerInv'
  BY <1>7 DEF CondWait, OwnerIs, OwnerGoes, OwnerIsDone, OwnerElse, objVars
<1>8. ASSUME NEW t \in Threads, QuitAndJoin(t) PROVE OwnerInv'
  BY <1>8 DEF QuitAndJoin, OwnerIs, OwnerGoes
<1>9. ASSUME NEW t \in Threads, QuitTouchesDeadLoop(t) PROVE OwnerInv'
  BY <1>9 DEF QuitTouchesDeadLoop, OwnerIs, OwnerGoes, OwnerElse, objVars
<1>10. ASSUME NEW t \in Threads, JoinReturns(t) PROVE OwnerInv'
  BY <1>10 DEF JoinReturns, OwnerIs, OwnerGoes, OwnerIsDone
<1>11. ASSUME NEW t \in Threads, SpuriousWakeup(t) PROVE OwnerInv'
  BY <1>11 DEF SpuriousWakeup, OwnerIs, OwnerGoes, OwnerElse, objVars
<1>12. ASSUME NEW t \in Threads, StoreTid(t) PROVE OwnerInv'
  BY <1>12 DEF StoreTid, Goes, objVars
<1>13. ASSUME NEW t \in Threads, CountDown(t) PROVE OwnerInv'
  BY <1>13 DEF CountDown, Goes, Notify, OwnerIs, objVars
<1>14. ASSUME NEW t \in Threads, RunFunc(t) PROVE OwnerInv'
  BY <1>14 DEF RunFunc, Goes, objVars
<1>15. ASSUME NEW t \in Threads, ConstructLoop(t) PROVE OwnerInv'
  BY <1>15 DEF ConstructLoop, Goes, objVars
<1>16. ASSUME NEW t \in Threads, Publish(t) PROVE OwnerInv'
  BY <1>16 DEF Publish, Goes, Notify, OwnerIs, objVars
<1>17. ASSUME NEW t \in Threads, TestQuit(t) PROVE OwnerInv'
  BY <1>17 DEF TestQuit, Goes, objVars
<1>18. ASSUME NEW t \in Threads, Turn(t) PROVE OwnerInv'
  BY <1>18 DEF Turn, Goes, objVars
<1>19. ASSUME NEW t \in Threads, Unwind(t) PROVE OwnerInv'
  BY <1>19 DEF Unwind, Goes, objVars
<1> QED
  BY <1>0, <1>1, <1>2, <1>3, <1>4, <1>5, <1>6, <1>7, <1>8, <1>9, <1>10, <1>11, <1>12, <1>13, <1>14, <1>15, <1>16, <1>17, <1>18, <1>19
     DEF Next, OwnerChoice, OwnerStep, ThreadStep

(* What startLoop() has returned.                                             *)
LEMMA LoopsInductive == TypeOK /\ ThreadInv /\ OwnerInv /\ LoopsInv /\ [Next]_vars => LoopsInv'
<1> SUFFICES ASSUME TypeOK, ThreadInv, OwnerInv, LoopsInv, [Next]_vars PROVE LoopsInv'
  OBVIOUS
<1> USE ThreadsAssumption DEF TypeOK, ThreadInv, OwnerInv, LoopsInv, OwnerPcs, ThreadPcs, Threads
<1>0. CASE UNCHANGED vars
  BY <1>0 DEF vars, objVars
<1>1. ASSUME NEW t \in Threads, Start(t) PROVE LoopsInv'
  BY <1>1 DEF Start, OwnerGoes
<1>2. ASSUME NEW t \in Threads, StartFails(t) PROVE LoopsInv'
  BY <1>2 DEF StartFails, OwnerGoes, OwnerIsDone
<1>3. ASSUME NEW t \in Threads, Join(t) PROVE LoopsInv'
  BY <1>3 DEF Join, OwnerGoes
<1>4. ASSUME NEW t \in Threads, DestroyThread(t) PROVE LoopsInv'
  BY <1>4 DEF DestroyThread
<1>5. ASSUME NEW t \in Threads, DestroyLoopThread(t) PROVE LoopsInv'
  BY <1>5 DEF DestroyLoopThread, OwnerGoes, objVars
<1>6. ASSUME NEW t \in Threads, LatchWait(t) PROVE LoopsInv'
  BY <1>6 DEF LatchWait, OwnerIs, OwnerGoes, OwnerIsDone, OwnerElse, objVars
<1>7. ASSUME NEW t \in Threads, CondWait(t) PROVE LoopsInv'
  <2>1. CASE t \notin loop_
    BY <1>7, <2>1 DEF CondWait, OwnerIs, OwnerGoes, OwnerElse, objVars
  <2>2. CASE t \in loop_
    <3>1. loops_' = Append(loops_, t) /\ loop_' = loop_ /\ owner' = "idle"
      BY <1>7, <2>2 DEF CondWait, OwnerIsDone, OwnerGoes, OwnerElse
    <3>2. \A i \in DOMAIN loops_ : loops_[i] # t
      BY <1>7 DEF CondWait, OwnerIs
    <3>3. /\ DOMAIN loops_' = DOMAIN loops_ \cup {Len(loops_) + 1}
          /\ \A i \in DOMAIN loops_ : loops_'[i] = loops_[i]
          /\ loops_'[Len(loops_) + 1] = t
      BY <3>1
    <3> QED
      BY <2>2, <3>1, <3>2, <3>3
  <2> QED
    BY <2>1, <2>2
<1>8. ASSUME NEW t \in Threads, QuitAndJoin(t) PROVE LoopsInv'
  BY <1>8 DEF QuitAndJoin, OwnerIs, OwnerGoes
<1>9. ASSUME NEW t \in Threads, QuitTouchesDeadLoop(t) PROVE LoopsInv'
  BY <1>9 DEF QuitTouchesDeadLoop, OwnerIs, OwnerGoes, OwnerElse, objVars
<1>10. ASSUME NEW t \in Threads, JoinReturns(t) PROVE LoopsInv'
  BY <1>10 DEF JoinReturns, OwnerIs, OwnerGoes, OwnerIsDone
<1>11. ASSUME NEW t \in Threads, SpuriousWakeup(t) PROVE LoopsInv'
  BY <1>11 DEF SpuriousWakeup, OwnerIs, OwnerGoes, OwnerElse, objVars
<1>12. ASSUME NEW t \in Threads, StoreTid(t) PROVE LoopsInv'
  BY <1>12 DEF StoreTid, Goes, objVars
<1>13. ASSUME NEW t \in Threads, CountDown(t) PROVE LoopsInv'
  BY <1>13 DEF CountDown, Goes, Notify, OwnerIs, objVars
<1>14. ASSUME NEW t \in Threads, RunFunc(t) PROVE LoopsInv'
  BY <1>14 DEF RunFunc, Goes, objVars
<1>15. ASSUME NEW t \in Threads, ConstructLoop(t) PROVE LoopsInv'
  BY <1>15 DEF ConstructLoop, Goes, objVars
<1>16. ASSUME NEW t \in Threads, Publish(t) PROVE LoopsInv'
  BY <1>16 DEF Publish, Goes, Notify, OwnerIs, objVars
<1>17. ASSUME NEW t \in Threads, TestQuit(t) PROVE LoopsInv'
  BY <1>17 DEF TestQuit, Goes, objVars
<1>18. ASSUME NEW t \in Threads, Turn(t) PROVE LoopsInv'
  BY <1>18 DEF Turn, Goes, objVars
<1>19. ASSUME NEW t \in Threads, Unwind(t) PROVE LoopsInv'
  BY <1>19 DEF Unwind, Goes, objVars
<1> QED
  BY <1>0, <1>1, <1>2, <1>3, <1>4, <1>5, <1>6, <1>7, <1>8, <1>9, <1>10, <1>11, <1>12, <1>13, <1>14, <1>15, <1>16, <1>17, <1>18, <1>19
     DEF Next, OwnerChoice, OwnerStep, ThreadStep

LEMMA Invariance == Spec => []IInv
<1>1. IInv /\ [Next]_vars => IInv'
  BY TypeInductive, ThreadInductive, OwnerInductive, LoopsInductive DEF IInv
<1> QED
  BY <1>1, InitIInv, PTL DEF Spec

-----------------------------------------------------------------------------
(* TypeOK holds for any threads and any number of failing pthread_create.     *)
THEOREM TypeCorrect == Spec => []TypeOK
BY Invariance, PTL DEF IInv

(* Thread::start returns with tid_ known (the assertion of Thread.cc:136).    *)
THEOREM TidKnownHolds == Spec => []TidKnownAfterStart
<1>1. ASSUME IInv, NEW t \in started_
      PROVE  (owner \in {"latch", "latchAsleep"} /\ obj = t) \/ t \in tid_
  <2> USE <1>1 DEF IInv
  <2>1. t \in Threads
    BY DEF TypeOK
  <2>2. CASE latch_[t] = 0
    BY <2>1, <2>2 DEF ThreadInv
  <2>3. CASE latch_[t] # 0
    BY <2>3 DEF OwnerInv
  <2> QED
    BY <2>2, <2>3
<1>2. IInv => TidKnownAfterStart
  BY <1>1 DEF TidKnownAfterStart
<1> QED
  BY <1>2, Invariance, PTL

(* No thread uses a Thread or an EventLoopThread that was destroyed.          *)
THEOREM ObjectOutlivesThreadHolds == Spec => []ObjectOutlivesThread
<1>1. ASSUME IInv, NEW t \in freed
      PROVE  thread[t] \in IF t \in LoopThreads THEN {"none", "done"}
                                                ELSE {"none", "func", "done"}
  <2> USE <1>1 DEF IInv, TypeOK, Threads
  <2>1. CASE t \in LoopThreads
    BY <2>1 DEF OwnerInv
  <2>2. CASE t \in PlainThreads /\ t \notin started_
    BY <2>2 DEF ThreadInv, Threads
  <2>3. CASE t \in PlainThreads /\ t \in started_
    <3>1. latch_[t] = 0
      BY <2>3 DEF OwnerInv
    <3> QED
      BY <2>3, <3>1, ThreadsAssumption DEF ThreadInv, Threads
  <2> QED
    BY <2>1, <2>2, <2>3
<1>2. IInv => ObjectOutlivesThread
  BY <1>1 DEF ObjectOutlivesThread
<1> QED
  BY <1>2, Invariance, PTL

(* The loops that startLoop() returned exist, all different, until they are   *)
(* told to quit.                                                              *)
THEOREM ReturnedLoopsAreLiveHolds == Spec => []ReturnedLoopsAreLive
<1>1. IInv => ReturnedLoopsAreLive
  BY DEF IInv, TypeOK, ThreadInv, LoopsInv, ReturnedLoopsAreLive, LoopIsLive
<1> QED
  BY <1>1, Invariance, PTL

-----------------------------------------------------------------------------
(* What a sleeping owner sleeps on has not happened yet: neither notification *)
(* is given before the wait, or lost to a spurious wake-up.                   *)
SleepInv ==
  /\ owner = "latchAsleep" => latch_[obj] = 1
  /\ owner = "condAsleep" => obj \notin loop_
  /\ owner \in {"cond", "condAsleep"} => obj \in started_ \cup failed

LEMMA SleepInductive ==
  TypeOK /\ ThreadInv /\ OwnerInv /\ SleepInv /\ [Next]_vars => SleepInv'
<1> SUFFICES ASSUME TypeOK, ThreadInv, OwnerInv, SleepInv, [Next]_vars PROVE SleepInv'
  OBVIOUS
<1> USE ThreadsAssumption DEF TypeOK, OwnerInv, SleepInv, OwnerPcs, Threads
<1>0. CASE UNCHANGED vars
  BY <1>0 DEF vars, objVars
<1>1. ASSUME NEW t \in Threads, Start(t) PROVE SleepInv'
  BY <1>1 DEF Start, OwnerGoes
<1>2. ASSUME NEW t \in Threads, StartFails(t) PROVE SleepInv'
  BY <1>2 DEF StartFails, OwnerGoes, OwnerIsDone
<1>3. ASSUME NEW t \in Threads, Join(t) PROVE SleepInv'
  BY <1>3 DEF Join, OwnerGoes
<1>4. ASSUME NEW t \in Threads, DestroyThread(t) PROVE SleepInv'
  BY <1>4 DEF DestroyThread
<1>5. ASSUME NEW t \in Threads, DestroyLoopThread(t) PROVE SleepInv'
  BY <1>5 DEF DestroyLoopThread, OwnerGoes, objVars
<1>6. ASSUME NEW t \in Threads, LatchWait(t) PROVE SleepInv'
  BY <1>6 DEF LatchWait, OwnerIs, OwnerGoes, OwnerIsDone, OwnerElse, objVars
<1>7. ASSUME NEW t \in Threads, CondWait(t) PROVE SleepInv'
  BY <1>7 DEF CondWait, OwnerIs, OwnerGoes, OwnerIsDone, OwnerElse, objVars
<1>8. ASSUME NEW t \in Threads, QuitAndJoin(t) PROVE SleepInv'
  BY <1>8 DEF QuitAndJoin, OwnerIs, OwnerGoes
<1>9. ASSUME NEW t \in Threads, QuitTouchesDeadLoop(t) PROVE SleepInv'
  BY <1>9 DEF QuitTouchesDeadLoop, OwnerIs, OwnerGoes, OwnerElse, objVars
<1>10. ASSUME NEW t \in Threads, JoinReturns(t) PROVE SleepInv'
  BY <1>10 DEF JoinReturns, OwnerIs, OwnerGoes, OwnerIsDone
<1>11. ASSUME NEW t \in Threads, SpuriousWakeup(t) PROVE SleepInv'
  BY <1>11 DEF SpuriousWakeup, OwnerIs, OwnerGoes, OwnerElse, objVars
<1>12. ASSUME NEW t \in Threads, StoreTid(t) PROVE SleepInv'
  BY <1>12 DEF StoreTid, Goes, objVars
<1>13. ASSUME NEW t \in Threads, CountDown(t) PROVE SleepInv'
  BY <1>13 DEF CountDown, Goes, Notify, OwnerIs, objVars
<1>14. ASSUME NEW t \in Threads, RunFunc(t) PROVE SleepInv'
  BY <1>14 DEF RunFunc, Goes, objVars
<1>15. ASSUME NEW t \in Threads, ConstructLoop(t) PROVE SleepInv'
  BY <1>15 DEF ConstructLoop, Goes, objVars
<1>16. ASSUME NEW t \in Threads, Publish(t) PROVE SleepInv'
  BY <1>16 DEF Publish, Goes, Notify, OwnerIs, objVars
<1>17. ASSUME NEW t \in Threads, TestQuit(t) PROVE SleepInv'
  BY <1>17 DEF TestQuit, Goes, objVars
<1>18. ASSUME NEW t \in Threads, Turn(t) PROVE SleepInv'
  BY <1>18 DEF Turn, Goes, objVars
<1>19. ASSUME NEW t \in Threads, Unwind(t) PROVE SleepInv'
  BY <1>19 DEF Unwind, Goes, objVars
<1> QED
  BY <1>0, <1>1, <1>2, <1>3, <1>4, <1>5, <1>6, <1>7, <1>8, <1>9, <1>10, <1>11, <1>12,
     <1>13, <1>14, <1>15, <1>16, <1>17, <1>18, <1>19
     DEF Next, OwnerChoice, OwnerStep, ThreadStep

(* Whatever the owner waits for in start(), startLoop(), join() or            *)
(* ~EventLoopThread, there is a thread on its way to do it.  The exception is *)
(* startLoop() after a failed pthread_create (EventLoopThread.cc:54).         *)
OwnerIsOwed ==
  /\ owner = "latchAsleep" => thread[obj] \in {"begin", "count"}
  /\ owner = "condAsleep" => obj \in failed \/ thread[obj] \in {"func", "publish"}
  /\ owner = "join" =>
       \/ obj \in PlainThreads /\ thread[obj] \in {"func", "done"}
       \/ obj \in quit_ /\ thread[obj] \in {"loop", "poll", "unwind", "done"}

(* The other half of "start() returns" and "join() returns": a thread only    *)
(* goes forward, and a loop that was told to quit makes no turn after the     *)
(* next test of quit_.                                                        *)
PlaceOf(pc) ==
  CASE pc = "none" -> 9 [] pc = "begin" -> 8 [] pc = "count" -> 7 [] pc = "func" -> 6
    [] pc = "publish" -> 5 [] pc = "poll" -> 4 [] pc = "loop" -> 3 [] pc = "unwind" -> 2
    [] pc = "done" -> 1

ThreadsGoForward ==
  \A t \in Threads :
    thread'[t] # thread[t] =>
      \/ PlaceOf(thread'[t]) < PlaceOf(thread[t])
      \/ thread[t] = "loop" /\ thread'[t] = "poll" /\ t \notin quit_

(* The owner never sleeps on, or joins, a thread that will not let it go on.  *)
THEOREM OwnerIsOwedHolds == Spec => []OwnerIsOwed
<1>1. IInv /\ SleepInv => OwnerIsOwed
  <2> SUFFICES ASSUME IInv, SleepInv PROVE OwnerIsOwed
    OBVIOUS
  <2> USE ThreadsAssumption
          DEF IInv, TypeOK, ThreadInv, OwnerInv, SleepInv, ThreadPcs, Threads
  <2>1. owner = "latchAsleep" => thread[obj] \in {"begin", "count"}
    OBVIOUS
  <2>2. owner = "condAsleep" => obj \in failed \/ thread[obj] \in {"func", "publish"}
    OBVIOUS
  <2>3. ASSUME owner = "join"
        PROVE  \/ obj \in PlainThreads /\ thread[obj] \in {"func", "done"}
               \/ obj \in quit_ /\ thread[obj] \in {"loop", "poll", "unwind", "done"}
    <3>1. CASE obj \in PlainThreads
      BY <2>3, <3>1
    <3>2. CASE obj \in LoopThreads
      BY <2>3, <3>2
    <3> QED
      BY <2>3, <3>1, <3>2
  <2> QED
    BY <2>1, <2>2, <2>3 DEF OwnerIsOwed
<1>2. Init => SleepInv
  BY DEF Init, SleepInv
<1>3. IInv /\ SleepInv /\ [Next]_vars => SleepInv'
  BY SleepInductive DEF IInv
<1> QED
  BY <1>1, <1>2, <1>3, Invariance, PTL DEF Spec

(* No thread goes back, but from quit_'s test to another turn of the loop.    *)
THEOREM ThreadsGoForwardHolds == Spec => [][ThreadsGoForward]_vars
<1>1. ASSUME IInv, NEW t \in Threads, NEW pc \in ThreadPcs,
             thread' = [thread EXCEPT ![t] = pc],
             \/ PlaceOf(pc) < PlaceOf(thread[t])
             \/ thread[t] = "loop" /\ pc = "poll" /\ t \notin quit_
      PROVE  ThreadsGoForward
  BY <1>1 DEF IInv, TypeOK, ThreadsGoForward
<1>2. ASSUME thread' = thread PROVE ThreadsGoForward
  BY <1>2 DEF ThreadsGoForward
<1>3. ASSUME IInv, NEW t \in Threads, Start(t) PROVE ThreadsGoForward
  <2>1. thread[t] = "none"
    BY <1>3 DEF IInv, ThreadInv, Start
  <2>2. PlaceOf("begin") < PlaceOf(thread[t])
    BY <2>1 DEF PlaceOf
  <2> QED
    BY <1>1, <1>3, <2>2 DEF Start, ThreadPcs
<1>4. ASSUME NEW t \in Threads,
             \/ StartFails(t) \/ Join(t) \/ DestroyThread(t) \/ DestroyLoopThread(t)
             \/ OwnerStep(t) \/ SpuriousWakeup(t)
      PROVE  ThreadsGoForward
  BY <1>2, <1>4 DEF StartFails, Join, DestroyThread, DestroyLoopThread, OwnerStep,
     LatchWait, CondWait, QuitAndJoin, QuitTouchesDeadLoop, JoinReturns,
     SpuriousWakeup, OwnerElse
<1>5. ASSUME IInv, NEW t \in Threads, StoreTid(t) \/ CountDown(t) PROVE ThreadsGoForward
  BY <1>1, <1>5 DEF StoreTid, CountDown, Goes, ThreadPcs, PlaceOf
<1>6. ASSUME IInv, NEW t \in Threads, RunFunc(t) \/ ConstructLoop(t) \/ Publish(t)
      PROVE  ThreadsGoForward
  BY <1>1, <1>6 DEF RunFunc, ConstructLoop, Publish, Goes, ThreadPcs, PlaceOf
<1>7. ASSUME IInv, NEW t \in Threads, TestQuit(t) \/ Turn(t) \/ Unwind(t)
      PROVE  ThreadsGoForward
  BY <1>1, <1>7 DEF TestQuit, Turn, Unwind, Goes, ThreadPcs, PlaceOf
<1>8. IInv /\ [Next]_vars => [ThreadsGoForward]_vars
  BY <1>3, <1>4, <1>5, <1>6, <1>7 DEF Next, OwnerChoice, ThreadStep
<1> QED
  BY <1>8, Invariance, PTL DEF Spec
=============================================================================
