---------------------------- MODULE ThreadPoolTest ----------------------------
(* The program of test/ThreadPoolTest.cc: its main thread starts the pool,    *)
(* adds its tasks, the last of which counts a latch down, waits for the latch *)
(* and stops the pool.                                                        *)
EXTENDS ThreadPool

LatchTask == NumTasks

(* The result of addTask is ignored: every task is tried once.                *)
AllTried == calls = NumTasks /\ \A a \in Adders : adder[a] = "idle"

(* latch.wait() returns once the last task has run countDown().               *)
LatchWaitReturns == AllTried /\ LatchTask \in executed

(* Main is also the one that adds, after start() has returned.                *)
MainAdds(a) == main = "started" /\ AddTask(a)
MainStops == LatchWaitReturns /\ AcquireStop

TestNext ==
  \/ StartStep
  \/ MainStops \/ Stop \/ Join
  \/ \E w \in Workers : AcquireTake(w) \/ WorkerStep(w) \/ SpuriousWakeup(w)
  \/ \E a \in Adders : MainAdds(a) \/ AcquireAdd(a) \/ Push(a)

TestSpec ==
  /\ Init /\ [][TestNext]_vars /\ Fairness
  /\ SF_vars(MainStops)
  /\ \A a \in Adders : WF_vars(MainAdds(a))

-----------------------------------------------------------------------------
(* ThreadPoolTest.cc:43: the tasks before run, the last one counts down, and  *)
(* latch.wait() returns; the pool is then stopped.                            *)
LatchReachesZero == <>(main = "stopped")
=============================================================================
