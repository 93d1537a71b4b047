------------------------------ MODULE ThreadPool ------------------------------
(* ThreadPool: worker threads that take tasks from one bounded queue under a  *)
(* mutex and a condition variable.  addTask looks at the size of the queue    *)
(* and runInThread at running_ without the mutex.                             *)
EXTENDS Naturals, Sequences, FiniteSets, SequencesExt

CONSTANTS Workers,       \* the threads of the pool
          Adders,        \* threads that call addTask
          NumTasks,      \* tasks added, 1 .. NumTasks in this order
          MaxQueueSize   \* maxQueueSize_

Main == "main"
NoThread == "no thread"

ASSUME ThreadPoolAssumption ==
  /\ IsFiniteSet(Workers)
  /\ Workers \cap Adders = {}
  /\ {Main, NoThread} \cap (Workers \cup Adders) = {}
  /\ NumTasks \in Nat
  /\ MaxQueueSize \in Nat \ {0}

VARIABLES
  queue_,     \* the tasks not taken yet
  running_,
  mutex_,     \* the thread that holds it, or NoThread
  worker,     \* per worker: its place in runInThread() and take()
  doing,      \* per worker: the task it runs, or NoTask
  adder,      \* per adder: its place in addTask()
  adding,     \* per adder: the task it adds, or NoTask
  main,       \* the place of the owner of the pool in start() and stop()
  calls,      \* addTask calls begun
  added,      \* the tasks pushed, in order
  taken,      \* the tasks taken, in order
  executed,   \* the tasks that have run to their end
  takenAtStop \* Len(taken) when stop() cleared running_

vars == <<queue_, running_, mutex_, worker, doing, adder, adding, main, calls,
          added, taken, executed, takenAtStop>>

workerVars == <<worker, doing, taken, executed>>
adderVars  == <<adder, adding, calls, added>>
mainVars   == <<running_, main, takenAtStop>>

NoTask == 0
Tasks == 1 .. NumTasks

(* "check": at while(running_); "lock": wants the mutex, to enter take() or   *)
(* to return from wait(); "take": has it, at the inner while.                 *)
WorkerPcs == {"new", "check", "lock", "take", "wait", "run", "exited"}
AdderPcs == {"idle", "lock", "push"}
MainPcs == {"new", "starting", "started", "stop", "join", "stopped"}

Types ==
  /\ queue_ \in Seq(Tasks)
  /\ running_ \in BOOLEAN
  /\ mutex_ \in Workers \cup Adders \cup {Main, NoThread}
  /\ worker \in [Workers -> WorkerPcs]
  /\ doing \in [Workers -> Tasks \cup {NoTask}]
  /\ adder \in [Adders -> AdderPcs]
  /\ adding \in [Adders -> Tasks \cup {NoTask}]
  /\ main \in MainPcs
  /\ calls \in 0 .. NumTasks
  /\ added \in Seq(Tasks) /\ taken \in Seq(Tasks)
  /\ executed \subseteq Tasks
  /\ takenAtStop \in 0 .. Len(taken)

(* Who has a task in hand.                                                    *)
InHand ==
  /\ \A w \in Workers : (doing[w] # NoTask) <=> (worker[w] = "run")
  /\ \A a \in Adders : (adding[a] # NoTask) <=> (adder[a] # "idle")

(* Who holds the mutex.                                                       *)
Holds ==
  /\ \A w \in Workers : (worker[w] = "take") <=> (mutex_ = w)
  /\ \A a \in Adders : (adder[a] = "push") <=> (mutex_ = a)
  /\ (main = "stop") <=> (mutex_ = Main)

TypeOK == Types /\ InHand /\ Holds

Init ==
  /\ queue_ = <<>>
  /\ running_ = FALSE
  /\ mutex_ = NoThread
  /\ worker = [w \in Workers |-> "new"]
  /\ doing = [w \in Workers |-> NoTask]
  /\ adder = [a \in Adders |-> "idle"]
  /\ adding = [a \in Adders |-> NoTask]
  /\ main = "new"
  /\ calls = 0
  /\ added = <<>> /\ taken = <<>>
  /\ executed = {}
  /\ takenAtStop = 0

-----------------------------------------------------------------------------
(* start(), by the pool's owner: running_ is set before any thread exists.    *)
Start ==
  /\ main = "new"
  /\ running_' = TRUE
  /\ main' = "starting"
  /\ UNCHANGED <<queue_, mutex_, workerVars, adderVars, takenAtStop>>

StartThread(w) ==
  /\ main = "starting" /\ worker[w] = "new"
  /\ worker' = [worker EXCEPT ![w] = "check"]
  /\ UNCHANGED <<queue_, mutex_, doing, taken, executed, adderVars, mainVars>>

Started ==
  /\ main = "starting" /\ \A w \in Workers : worker[w] # "new"
  /\ main' = "started"
  /\ UNCHANGED <<queue_, mutex_, workerVars, adderVars, running_, takenAtStop>>

-----------------------------------------------------------------------------
(* addTask.                                                                   *)

(* The size is read without the mutex.  While a push or a pop is under way    *)
(* the deque may be half updated, and its size may come out as anything.      *)
QueueInFlux == mutex_ \in Adders \/ (mutex_ \in Workers /\ queue_ # <<>>)
SeesRoom == Len(queue_) < MaxQueueSize \/ QueueInFlux
SeesFull == Len(queue_) >= MaxQueueSize \/ QueueInFlux

AddTask(a) ==
  /\ adder[a] = "idle" /\ calls < NumTasks
  /\ calls' = calls + 1
  /\ \/ /\ SeesRoom
        /\ adder' = [adder EXCEPT ![a] = "lock"]
        /\ adding' = [adding EXCEPT ![a] = calls + 1]
     \/ SeesFull /\ UNCHANGED <<adder, adding>>
  /\ UNCHANGED <<queue_, mutex_, workerVars, mainVars, added>>

AcquireAdd(a) ==
  /\ adder[a] = "lock" /\ mutex_ = NoThread
  /\ mutex_' = a
  /\ adder' = [adder EXCEPT ![a] = "push"]
  /\ UNCHANGED <<queue_, workerVars, mainVars, adding, calls, added>>

Waiting == {w \in Workers : worker[w] = "wait"}

(* Mutant: notify_one only for the first task of an empty queue.              *)
NotifyOneIfEmpty ==
  IF Waiting = {} \/ queue_ # <<>>
    THEN UNCHANGED worker
    ELSE \E w \in Waiting : worker' = [worker EXCEPT ![w] = "lock"]

NotifyOne ==
  IF Waiting = {}
    THEN UNCHANGED worker
    ELSE \E w \in Waiting : worker' = [worker EXCEPT ![w] = "lock"]

(* Mutant: notify_one is forgotten.                                           *)
PushSilently(a) ==
  /\ adder[a] = "push"
  /\ queue_' = Append(queue_, adding[a])
  /\ added' = Append(added, adding[a])
  /\ mutex_' = NoThread
  /\ adder' = [adder EXCEPT ![a] = "idle"]
  /\ adding' = [adding EXCEPT ![a] = NoTask]
  /\ UNCHANGED <<worker, doing, taken, executed, mainVars, calls>>

Push(a) ==
  /\ adder[a] = "push"
  /\ queue_' = Append(queue_, adding[a])
  /\ added' = Append(added, adding[a])
  /\ NotifyOne
  /\ mutex_' = NoThread
  /\ adder' = [adder EXCEPT ![a] = "idle"]
  /\ adding' = [adding EXCEPT ![a] = NoTask]
  /\ UNCHANGED <<doing, taken, executed, mainVars, calls>>

-----------------------------------------------------------------------------
(* runInThread and take.                                                      *)
At(w, place) == worker[w] = place
GoTo(w, place) == worker' = [worker EXCEPT ![w] = place]

(* Mutant: a worker leaves only when there is nothing to do.                  *)
CheckRunningDrains(w) ==
  /\ At(w, "check")
  /\ GoTo(w, IF running_ \/ queue_ # <<>> THEN "lock" ELSE "exited")
  /\ UNCHANGED <<queue_, mutex_, doing, taken, executed, adderVars, mainVars>>

(* Without the mutex.                                                         *)
CheckRunning(w) ==
  /\ At(w, "check")
  /\ GoTo(w, IF running_ THEN "lock" ELSE "exited")
  /\ UNCHANGED <<queue_, mutex_, doing, taken, executed, adderVars, mainVars>>

(* Mutant: take() reads the queue before it has the mutex.                    *)
AcquireTakeUnlocked(w) ==
  /\ At(w, "lock")
  /\ mutex_' = w
  /\ GoTo(w, "take")
  /\ UNCHANGED <<queue_, doing, taken, executed, adderVars, mainVars>>

AcquireTake(w) ==
  /\ At(w, "lock") /\ mutex_ = NoThread
  /\ mutex_' = w
  /\ GoTo(w, "take")
  /\ UNCHANGED <<queue_, doing, taken, executed, adderVars, mainVars>>

Wait(w) ==
  /\ At(w, "take") /\ queue_ = <<>> /\ running_
  /\ mutex_' = NoThread
  /\ GoTo(w, "wait")
  /\ UNCHANGED <<queue_, doing, taken, executed, adderVars, mainVars>>

SpuriousWakeup(w) ==
  /\ At(w, "wait")
  /\ GoTo(w, "lock")
  /\ UNCHANGED <<queue_, mutex_, doing, taken, executed, adderVars, mainVars>>

(* take() returns the first task, or an empty one when the pool is stopping.  *)
TakeTask(w) ==
  /\ At(w, "take") /\ queue_ # <<>>
  /\ queue_' = Tail(queue_)
  /\ taken' = Append(taken, Head(queue_))
  /\ doing' = [doing EXCEPT ![w] = Head(queue_)]
  /\ mutex_' = NoThread
  /\ GoTo(w, "run")
  /\ UNCHANGED <<executed, adderVars, mainVars>>

TakeNothing(w) ==
  /\ At(w, "take") /\ queue_ = <<>> /\ ~running_
  /\ mutex_' = NoThread
  /\ GoTo(w, "check")
  /\ UNCHANGED <<queue_, doing, taken, executed, adderVars, mainVars>>

(* Mutant: a task taken when the pool was stopped is not run.                 *)
RunTaskWhileRunning(w) ==
  /\ At(w, "run")
  /\ executed' = IF running_ THEN executed \cup {doing[w]} ELSE executed
  /\ doing' = [doing EXCEPT ![w] = NoTask]
  /\ GoTo(w, "check")
  /\ UNCHANGED <<queue_, mutex_, taken, adderVars, mainVars>>

RunTask(w) ==
  /\ At(w, "run")
  /\ executed' = executed \cup {doing[w]}
  /\ doing' = [doing EXCEPT ![w] = NoTask]
  /\ GoTo(w, "check")
  /\ UNCHANGED <<queue_, mutex_, taken, adderVars, mainVars>>

-----------------------------------------------------------------------------
(* stop(): clear running_ and notify all with the mutex, then join.           *)
AcquireStop ==
  /\ main = "started" /\ mutex_ = NoThread
  /\ mutex_' = Main
  /\ main' = "stop"
  /\ UNCHANGED <<queue_, workerVars, adderVars, running_, takenAtStop>>

(* Mutant: notify_one instead of notify_all.                                  *)
StopNotifiesOne ==
  /\ main = "stop"
  /\ running_' = FALSE
  /\ NotifyOne
  /\ mutex_' = NoThread
  /\ takenAtStop' = Len(taken)
  /\ main' = "join"
  /\ UNCHANGED <<queue_, doing, taken, executed, adderVars>>

Stop ==
  /\ main = "stop"
  /\ running_' = FALSE
  /\ worker' = [w \in Workers |-> IF At(w, "wait") THEN "lock" ELSE worker[w]]
  /\ mutex_' = NoThread
  /\ takenAtStop' = Len(taken)
  /\ main' = "join"
  /\ UNCHANGED <<queue_, doing, taken, executed, adderVars>>

Join ==
  /\ main = "join" /\ \A w \in Workers : At(w, "exited")
  /\ main' = "stopped"
  /\ UNCHANGED <<queue_, mutex_, workerVars, adderVars, running_, takenAtStop>>

-----------------------------------------------------------------------------
WorkerStep(w) ==
  CheckRunning(w) \/ Wait(w) \/ TakeTask(w) \/ TakeNothing(w) \/ RunTask(w)

StartStep == Start \/ Started \/ \E w \in Workers : StartThread(w)

Next ==
  \/ StartStep
  \/ AcquireStop \/ Stop \/ Join
  \/ \E w \in Workers : AcquireTake(w) \/ WorkerStep(w) \/ SpuriousWakeup(w)
  \/ \E a \in Adders : AddTask(a) \/ AcquireAdd(a) \/ Push(a)

(* Every thread keeps running, and the mutex is not kept from one of them for *)
(* ever.  Somebody starts the pool; nobody has to call addTask or stop.       *)
Fairness ==
  /\ WF_vars(StartStep \/ Stop \/ Join)
  /\ \A w \in Workers : WF_vars(WorkerStep(w)) /\ SF_vars(AcquireTake(w))
  /\ \A a \in Adders : WF_vars(Push(a)) /\ SF_vars(AcquireAdd(a))

Spec == Init /\ [][Next]_vars /\ Fairness

-----------------------------------------------------------------------------
(* Properties.                                                                *)

(* Tasks leave in the order in which they were pushed, each once: the         *)
(* concurrent addTask and take calls amount to calls one after the other.     *)
FifoOnce == taken \o queue_ = added

(* Workers that hold the mutex in take() or are about to acquire it.          *)
OnTheirWay == {w \in Workers : worker[w] \in {"lock", "take"}}

(* No task waits while a worker sleeps: with a worker in wait() there is, for *)
(* each queued task, another worker on its way to take it (ThreadPool.cc:82). *)
AwakeForEachTask ==
  Waiting # {} => Len(queue_) <= Cardinality(OnTheirWay)

(* Once stop() has cleared running_, a worker takes one more task at most.    *)
AtMostOneEachAfterStop ==
  main \in {"join", "stopped"} =>
    Len(taken) <= takenAtStop + Cardinality(Workers)

(* A task in the queue of a pool that is not stopped runs.                    *)
TasksRun ==
  \A t \in Tasks :
    t \in ToSet(queue_) ~> (t \in executed \/ main \in {"stop", "join", "stopped"})

(* stop() does not wait for ever: every worker leaves its loop.               *)
StopReturns == main = "stop" ~> main = "stopped"

(* The pool is a TaskQueue: what was added is taken in order, by a worker     *)
(* that has no other task, and what was taken is run to its end, stop() or    *)
(* not; after stop() a worker takes only what it was about to take.           *)
Closed == main \in {"join", "stopped"}

AsTaskQueue ==
  INSTANCE TaskQueue WITH
    queue <- queue_, current <- doing, executed <- executed, closed <- Closed,
    late <- IF Closed THEN OnTheirWay ELSE {}

TaskQueueRefinement == AsTaskQueue!Spec
=============================================================================
