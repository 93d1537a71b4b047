---------------------------- MODULE ThreadPool_proof ----------------------------
(* For any finite set of workers, any adders and any number of tasks: the     *)
(* mutex is held by one thread at most, tasks leave in order and once, no     *)
(* task waits behind sleeping workers, and after stop() each worker takes one *)
(* more task at most.                                                         *)
EXTENDS ThreadPool, SequenceLemmas, FiniteSetTheorems

(* Nobody waits in a pool that is stopped, and each of the workers on their   *)
(* way may take one more task.                                                *)
StopInv ==
  main \in {"join", "stopped"} =>
    /\ ~running_
    /\ Waiting = {}
    /\ Len(taken) + Cardinality(OnTheirWay) <= takenAtStop + Cardinality(Workers)

IInv == TypeOK /\ FifoOnce /\ AwakeForEachTask /\ StopInv

-----------------------------------------------------------------------------
LEMMA InitType == Init => TypeOK
<1>1. ASSUME Init PROVE Types
  <2>1. <<>> \in Seq(Tasks) /\ Len(<<>>) = 0
    BY EmptySeq
  <2>2. /\ worker \in [Workers -> WorkerPcs]
        /\ doing \in [Workers -> Tasks \cup {NoTask}]
        /\ adder \in [Adders -> AdderPcs]
        /\ adding \in [Adders -> Tasks \cup {NoTask}]
    BY <1>1 DEF Init, WorkerPcs, AdderPcs
  <2>3. takenAtStop \in 0 .. Len(taken) /\ calls \in 0 .. NumTasks
    BY <1>1, <2>1, ThreadPoolAssumption DEF Init
  <2>4. /\ queue_ \in Seq(Tasks) /\ added \in Seq(Tasks) /\ taken \in Seq(Tasks)
        /\ executed \subseteq Tasks
    BY <1>1, <2>1 DEF Init
  <2>5. running_ \in BOOLEAN /\ mutex_ = NoThread /\ main \in MainPcs
    BY <1>1 DEF Init, MainPcs
  <2> QED
    BY <2>2, <2>3, <2>4, <2>5 DEF Types
<1>2. Init => InHand
  BY DEF Init, InHand, NoTask
<1>3. Init => Holds
  BY ThreadPoolAssumption DEF Init, Holds, Main, NoThread
<1> QED
  BY <1>1, <1>2, <1>3 DEF TypeOK

LEMMA TypesInductive == Types /\ InHand /\ [Next]_vars => Types'
<1> SUFFICES ASSUME Types, InHand, [Next]_vars PROVE Types'
  OBVIOUS
<1> USE ThreadPoolAssumption DEF Types, InHand, Tasks, NoTask, WorkerPcs, AdderPcs, MainPcs
<1>0. CASE UNCHANGED vars
  BY <1>0 DEF vars
<1>1. ASSUME Start PROVE Types'
  BY <1>1 DEF Start, workerVars, adderVars
<1>2. ASSUME NEW w \in Workers, StartThread(w) PROVE Types'
  BY <1>2 DEF StartThread, adderVars, mainVars
<1>3. ASSUME Started PROVE Types'
  BY <1>3 DEF Started, workerVars, adderVars
<1>4. ASSUME AcquireStop PROVE Types'
  BY <1>4 DEF AcquireStop, workerVars, adderVars
<1>5. ASSUME Stop PROVE Types'
  <2>1. Len(taken) \in 0 .. Len(taken)
    BY LenProperties
  <2>2. worker' \in [Workers -> WorkerPcs]
    BY <1>5 DEF Stop
  <2> QED
    BY <1>5, <2>1, <2>2 DEF Stop, adderVars
<1>6. ASSUME Join PROVE Types'
  BY <1>6 DEF Join, workerVars, adderVars
<1>7. ASSUME NEW w \in Workers, AcquireTake(w) PROVE Types'
  BY <1>7 DEF AcquireTake, At, GoTo, adderVars, mainVars
<1>8. ASSUME NEW w \in Workers, CheckRunning(w) PROVE Types'
  BY <1>8 DEF CheckRunning, At, GoTo, adderVars, mainVars
<1>9. ASSUME NEW w \in Workers, Wait(w) PROVE Types'
  BY <1>9 DEF Wait, At, GoTo, adderVars, mainVars
<1>10. ASSUME NEW w \in Workers, TakeTask(w) PROVE Types'
  BY <1>10 DEF TakeTask, At, GoTo, adderVars, mainVars
<1>11. ASSUME NEW w \in Workers, TakeNothing(w) PROVE Types'
  BY <1>11 DEF TakeNothing, At, GoTo, adderVars, mainVars
<1>12. ASSUME NEW w \in Workers, RunTask(w) PROVE Types'
  BY <1>12 DEF RunTask, At, GoTo, adderVars, mainVars
<1>13. ASSUME NEW w \in Workers, SpuriousWakeup(w) PROVE Types'
  BY <1>13 DEF SpuriousWakeup, At, GoTo, adderVars, mainVars
<1>14. ASSUME NEW a \in Adders, AddTask(a) PROVE Types'
  <2>1. calls + 1 \in Tasks /\ calls' \in 0 .. NumTasks
    BY <1>14 DEF AddTask
  <2>2. adder' \in [Adders -> AdderPcs] /\ adding' \in [Adders -> Tasks \cup {NoTask}]
    <3>1. CASE UNCHANGED <<adder, adding>>
      BY <3>1
    <3>2. CASE /\ adder' = [adder EXCEPT ![a] = "lock"]
               /\ adding' = [adding EXCEPT ![a] = calls + 1]
      BY <2>1, <3>2
    <3> QED
      BY <1>14, <3>1, <3>2 DEF AddTask
  <2> QED
    BY <1>14, <2>1, <2>2 DEF AddTask, workerVars, mainVars
<1>15. ASSUME NEW a \in Adders, AcquireAdd(a) PROVE Types'
  BY <1>15 DEF AcquireAdd, workerVars, mainVars
<1>16. ASSUME NEW a \in Adders, Push(a) PROVE Types'
  <2>1. adding[a] \in Tasks
    BY <1>16 DEF Push
  <2>2. worker' \in [Workers -> WorkerPcs]
    BY <1>16 DEF Push, NotifyOne, Waiting
  <2>3. /\ Append(queue_, adding[a]) \in Seq(Tasks)
        /\ Append(added, adding[a]) \in Seq(Tasks)
    BY <2>1, AppendProperties
  <2>4. /\ adder' \in [Adders -> AdderPcs]
        /\ adding' \in [Adders -> Tasks \cup {NoTask}]
        /\ mutex_' = NoThread
    BY <1>16 DEF Push
  <2> QED
    BY <1>16, <2>2, <2>3, <2>4 DEF Push, mainVars
<1> QED
  BY <1>0, <1>1, <1>2, <1>3, <1>4, <1>5, <1>6, <1>7, <1>8, <1>9, <1>10, <1>11,
     <1>12, <1>13, <1>14, <1>15, <1>16
     DEF Next, StartStep, WorkerStep

LEMMA InHandInductive == Types /\ InHand /\ [Next]_vars => InHand'
<1> SUFFICES ASSUME Types, InHand, [Next]_vars PROVE InHand'
  OBVIOUS
<1> USE DEF Types, InHand, Tasks, NoTask, WorkerPcs, AdderPcs, MainPcs
<1>0. CASE UNCHANGED vars
  BY <1>0 DEF vars
<1>1. ASSUME Start PROVE InHand'
  BY <1>1 DEF Start, workerVars, adderVars
<1>2. ASSUME NEW w \in Workers, StartThread(w) PROVE InHand'
  BY <1>2 DEF StartThread, adderVars, mainVars
<1>3. ASSUME Started PROVE InHand'
  BY <1>3 DEF Started, workerVars, adderVars
<1>4. ASSUME AcquireStop PROVE InHand'
  BY <1>4 DEF AcquireStop, workerVars, adderVars
<1>5. ASSUME Stop PROVE InHand'
  BY <1>5 DEF Stop, At, adderVars
<1>6. ASSUME Join PROVE InHand'
  BY <1>6 DEF Join, workerVars, adderVars
<1>7. ASSUME NEW w \in Workers, AcquireTake(w) PROVE InHand'
  BY <1>7 DEF AcquireTake, At, GoTo, adderVars, mainVars
<1>8. ASSUME NEW w \in Workers, CheckRunning(w) PROVE InHand'
  BY <1>8 DEF CheckRunning, At, GoTo, adderVars, mainVars
<1>9. ASSUME NEW w \in Workers, Wait(w) PROVE InHand'
  BY <1>9 DEF Wait, At, GoTo, adderVars, mainVars
<1>10. ASSUME NEW w \in Workers, TakeTask(w) PROVE InHand'
  <2>1. Head(queue_) \in 1 .. NumTasks
    BY <1>10, HeadTailProperties DEF TakeTask
  <2> QED
    BY <1>10, <2>1 DEF TakeTask, At, GoTo, adderVars, mainVars
<1>11. ASSUME NEW w \in Workers, TakeNothing(w) PROVE InHand'
  BY <1>11 DEF TakeNothing, At, GoTo, adderVars, mainVars
<1>12. ASSUME NEW w \in Workers, RunTask(w) PROVE InHand'
  BY <1>12 DEF RunTask, At, GoTo, adderVars, mainVars
<1>13. ASSUME NEW w \in Workers, SpuriousWakeup(w) PROVE InHand'
  BY <1>13 DEF SpuriousWakeup, At, GoTo, adderVars, mainVars
<1>14. ASSUME NEW a \in Adders, AddTask(a) PROVE InHand'
  BY <1>14 DEF AddTask, workerVars, mainVars
<1>15. ASSUME NEW a \in Adders, AcquireAdd(a) PROVE InHand'
  BY <1>15 DEF AcquireAdd, workerVars, mainVars
<1>16. ASSUME NEW a \in Adders, Push(a) PROVE InHand'
  BY <1>16 DEF Push, NotifyOne, Waiting, mainVars
<1> QED
  BY <1>0, <1>1, <1>2, <1>3, <1>4, <1>5, <1>6, <1>7, <1>8, <1>9, <1>10, <1>11,
     <1>12, <1>13, <1>14, <1>15, <1>16
     DEF Next, StartStep, WorkerStep

LEMMA HoldsInductive == Types /\ Holds /\ [Next]_vars => Holds'
<1> SUFFICES ASSUME Types, Holds, [Next]_vars PROVE Holds'
  OBVIOUS
<1> USE ThreadPoolAssumption DEF Types, Holds, Main, NoThread, WorkerPcs, AdderPcs, MainPcs
<1>0. CASE UNCHANGED vars
  BY <1>0 DEF vars
<1>1. ASSUME Start PROVE Holds'
  BY <1>1 DEF Start, workerVars, adderVars
<1>2. ASSUME NEW w \in Workers, StartThread(w) PROVE Holds'
  BY <1>2 DEF StartThread, adderVars, mainVars
<1>3. ASSUME Started PROVE Holds'
  BY <1>3 DEF Started, workerVars, adderVars
<1>4. ASSUME AcquireStop PROVE Holds'
  BY <1>4 DEF AcquireStop, workerVars, adderVars
<1>5. ASSUME Stop PROVE Holds'
  BY <1>5 DEF Stop, At, adderVars
<1>6. ASSUME Join PROVE Holds'
  BY <1>6 DEF Join, workerVars, adderVars
<1>7. ASSUME NEW w \in Workers, AcquireTake(w) PROVE Holds'
  BY <1>7 DEF AcquireTake, At, GoTo, adderVars, mainVars
<1>8. ASSUME NEW w \in Workers, CheckRunning(w) PROVE Holds'
  BY <1>8 DEF CheckRunning, At, GoTo, adderVars, mainVars
<1>9. ASSUME NEW w \in Workers, Wait(w) PROVE Holds'
  BY <1>9 DEF Wait, At, GoTo, adderVars, mainVars
<1>10. ASSUME NEW w \in Workers, TakeTask(w) PROVE Holds'
  BY <1>10 DEF TakeTask, At, GoTo, adderVars, mainVars
<1>11. ASSUME NEW w \in Workers, TakeNothing(w) PROVE Holds'
  BY <1>11 DEF TakeNothing, At, GoTo, adderVars, mainVars
<1>12. ASSUME NEW w \in Workers, RunTask(w) PROVE Holds'
  BY <1>12 DEF RunTask, At, GoTo, adderVars, mainVars
<1>13. ASSUME NEW w \in Workers, SpuriousWakeup(w) PROVE Holds'
  BY <1>13 DEF SpuriousWakeup, At, GoTo, adderVars, mainVars
<1>14. ASSUME NEW a \in Adders, AddTask(a) PROVE Holds'
  BY <1>14 DEF AddTask, workerVars, mainVars
<1>15. ASSUME NEW a \in Adders, AcquireAdd(a) PROVE Holds'
  BY <1>15 DEF AcquireAdd, workerVars, mainVars
<1>16. ASSUME NEW a \in Adders, Push(a) PROVE Holds'
  <2>1. mutex_ = a /\ mutex_' = NoThread /\ adder' = [adder EXCEPT ![a] = "idle"]
    BY <1>16 DEF Push
  <2>2. ASSUME NEW w \in Workers PROVE worker'[w] # "take"
    <3>1. worker[w] # "take"
      BY <2>1
    <3> QED
      BY <1>16, <3>1 DEF Push, NotifyOne
  <2>3. main' = main /\ main # "stop"
    BY <1>16, <2>1 DEF Push, mainVars
  <2> QED
    BY <2>1, <2>2, <2>3
<1> QED
  BY <1>0, <1>1, <1>2, <1>3, <1>4, <1>5, <1>6, <1>7, <1>8, <1>9, <1>10, <1>11,
     <1>12, <1>13, <1>14, <1>15, <1>16
     DEF Next, StartStep, WorkerStep

-----------------------------------------------------------------------------
(* Order.  What is taken goes from the head of the queue to the end of taken, *)
(* what is pushed to the end of both.                                         *)
LEMMA FifoInductive == Types /\ InHand /\ FifoOnce /\ [Next]_vars => FifoOnce'
<1> SUFFICES ASSUME Types, InHand, FifoOnce, [Next]_vars PROVE FifoOnce'
  OBVIOUS
<1>1. CASE UNCHANGED <<queue_, added, taken>>
  BY <1>1 DEF FifoOnce
<1>2. ASSUME NEW w \in Workers, TakeTask(w) PROVE FifoOnce'
  BY <1>2, MoveHead DEF Types, TakeTask, FifoOnce, adderVars
<1>3. ASSUME NEW a \in Adders, Push(a) PROVE FifoOnce'
  <2>1. adding[a] \in Tasks
    BY <1>3 DEF Push, Types, InHand
  <2> QED
    BY <1>3, <2>1, AppendOfConcat DEF Types, Push, FifoOnce
<1> QED
  BY <1>1, <1>2, <1>3
     DEF Next, vars, StartStep, Start, StartThread, Started, AcquireStop, Stop, Join,
         AcquireTake, WorkerStep, CheckRunning, Wait, TakeNothing, RunTask,
         SpuriousWakeup, AddTask, AcquireAdd, workerVars, adderVars, mainVars

-----------------------------------------------------------------------------
(* Counting the workers on their way to the queue.                            *)
LEMMA CountOnTheirWay ==
  /\ IsFiniteSet(OnTheirWay) /\ Cardinality(OnTheirWay) \in Nat
  /\ Cardinality(Workers) \in Nat
  /\ Cardinality(OnTheirWay) <= Cardinality(Workers)
BY ThreadPoolAssumption, FS_Subset, FS_CardinalityType DEF OnTheirWay

LEMMA CountOnTheirWayNext ==
  /\ IsFiniteSet(OnTheirWay') /\ Cardinality(OnTheirWay') \in Nat
  /\ Cardinality(OnTheirWay') <= Cardinality(Workers)
BY ThreadPoolAssumption, FS_Subset, FS_CardinalityType DEF OnTheirWay

(* A worker that goes to its place comes to be, or is no longer, on its way.  *)
LEMMA OneMoves ==
  ASSUME Types, NEW w \in Workers, NEW place \in WorkerPcs, GoTo(w, place)
  PROVE  /\ OnTheirWay' = IF place \in {"lock", "take"} THEN OnTheirWay \cup {w}
                                                       ELSE OnTheirWay \ {w}
         /\ Waiting' = IF place = "wait" THEN Waiting \cup {w} ELSE Waiting \ {w}
BY DEF Types, GoTo, OnTheirWay, Waiting

LEMMA AwakeInductive ==
  Types /\ AwakeForEachTask /\ [Next]_vars => AwakeForEachTask'
<1> SUFFICES ASSUME Types, AwakeForEachTask, [Next]_vars PROVE AwakeForEachTask'
  OBVIOUS
<1> USE CountOnTheirWay, CountOnTheirWayNext
<1>1. ASSUME Waiting' \subseteq Waiting, UNCHANGED queue_, OnTheirWay \subseteq OnTheirWay'
      PROVE  AwakeForEachTask'
  <2>1. Cardinality(OnTheirWay) <= Cardinality(OnTheirWay')
    BY <1>1, FS_Subset
  <2>2. Len(queue_) \in Nat
    BY LenProperties DEF Types
  <2> QED
    BY <1>1, <2>1, <2>2 DEF AwakeForEachTask
<1>2. ASSUME queue_' = <<>> PROVE AwakeForEachTask'
  BY <1>2, EmptySeq DEF AwakeForEachTask
<1>3. CASE UNCHANGED <<worker, queue_>>
  BY <1>3, <1>1 DEF Waiting, OnTheirWay
<1>4. ASSUME NEW w \in Workers, StartThread(w) PROVE AwakeForEachTask'
  BY <1>4, <1>1 DEF StartThread, Types, Waiting, OnTheirWay
<1>5. CASE Stop
  <2>1. Waiting' = {}
    BY <1>5 DEF Stop, At, Waiting
  <2> QED
    BY <2>1 DEF AwakeForEachTask
<1>6. ASSUME NEW w \in Workers, AcquireTake(w) PROVE AwakeForEachTask'
  BY <1>6, <1>1, OneMoves DEF AcquireTake, WorkerPcs
<1>7. ASSUME NEW w \in Workers, CheckRunning(w) PROVE AwakeForEachTask'
  BY <1>7, <1>1, OneMoves DEF CheckRunning, At, WorkerPcs, OnTheirWay
<1>8. ASSUME NEW w \in Workers, Wait(w) PROVE AwakeForEachTask'
  BY <1>8, <1>2 DEF Wait
<1>9. ASSUME NEW w \in Workers, TakeTask(w) PROVE AwakeForEachTask'
  <2>1. w \in OnTheirWay
    BY <1>9 DEF TakeTask, At, OnTheirWay
  <2>2. OnTheirWay' = OnTheirWay \ {w} /\ Waiting' \subseteq Waiting
    BY <1>9, OneMoves DEF TakeTask, WorkerPcs
  <2>3. Cardinality(OnTheirWay') = Cardinality(OnTheirWay) - 1
    BY <2>1, <2>2, FS_RemoveElement
  <2>4. Len(queue_') = Len(queue_) - 1 /\ Len(queue_) \in Nat
    BY <1>9, HeadTailProperties, LenProperties DEF TakeTask, Types
  <2> QED
    BY <2>2, <2>3, <2>4 DEF AwakeForEachTask
<1>10. ASSUME NEW w \in Workers, TakeNothing(w) PROVE AwakeForEachTask'
  BY <1>10, <1>2 DEF TakeNothing
<1>11. ASSUME NEW w \in Workers, RunTask(w) PROVE AwakeForEachTask'
  BY <1>11, <1>1, OneMoves DEF RunTask, At, WorkerPcs, OnTheirWay
<1>12. ASSUME NEW w \in Workers, SpuriousWakeup(w) PROVE AwakeForEachTask'
  BY <1>12, <1>1, OneMoves DEF SpuriousWakeup, WorkerPcs
<1>13. ASSUME NEW a \in Adders, Push(a) PROVE AwakeForEachTask'
  <2>1. CASE Waiting = {}
    BY <1>13, <2>1 DEF Push, NotifyOne, Waiting, AwakeForEachTask
  <2>2. CASE Waiting # {}
    <3>1. PICK w \in Waiting : worker' = [worker EXCEPT ![w] = "lock"]
      BY <1>13, <2>2 DEF Push, NotifyOne
    <3>2. OnTheirWay' = OnTheirWay \cup {w} /\ w \notin OnTheirWay
      BY <3>1 DEF Types, OnTheirWay, Waiting
    <3>3. Cardinality(OnTheirWay') = Cardinality(OnTheirWay) + 1
      BY <3>2, FS_AddElement
    <3>4. Len(queue_') = Len(queue_) + 1 /\ Len(queue_) \in Nat
      BY <1>13, LenProperties DEF Push, Types
    <3> QED
      BY <2>2, <3>3, <3>4 DEF AwakeForEachTask
  <2> QED
    BY <2>1, <2>2
<1> QED
  BY <1>3, <1>4, <1>5, <1>6, <1>7, <1>8, <1>9, <1>10, <1>11, <1>12, <1>13
     DEF Next, vars, StartStep, Start, Started, AcquireStop, Join, WorkerStep, AddTask,
         AcquireAdd, workerVars

LEMMA StopInductive == Types /\ StopInv /\ [Next]_vars => StopInv'
<1> SUFFICES ASSUME Types, StopInv, [Next]_vars PROVE StopInv'
  OBVIOUS
<1> USE CountOnTheirWay, CountOnTheirWayNext
<1>1. ASSUME UNCHANGED <<worker, taken, takenAtStop>>, running_' = running_ \/ main = "new",
             main' \in {"join", "stopped"} => main \in {"join", "stopped"}
      PROVE  StopInv'
  BY <1>1 DEF StopInv, Waiting, OnTheirWay
<1>2. ASSUME UNCHANGED <<running_, main, takenAtStop>>, Waiting' \subseteq Waiting,
             OnTheirWay' \subseteq OnTheirWay, UNCHANGED taken
      PROVE  StopInv'
  <2>1. Cardinality(OnTheirWay') <= Cardinality(OnTheirWay)
    BY <1>2, FS_Subset
  <2>2. Len(taken) \in Nat /\ takenAtStop \in Int
    BY LenProperties DEF Types
  <2> QED
    BY <1>2, <2>1, <2>2 DEF StopInv
<1>3. CASE StartStep \/ AcquireStop
  BY <1>3 DEF StartStep, Start, StartThread, Started, AcquireStop, mainVars, StopInv
<1>4. CASE Stop
  <2>1. Waiting' = {}
    BY <1>4 DEF Stop, At, Waiting
  <2>2. taken' = taken /\ takenAtStop' = Len(taken) /\ running_' = FALSE
    BY <1>4 DEF Stop
  <2>3. Len(taken) \in Nat
    BY LenProperties DEF Types
  <2> QED
    BY <2>1, <2>2, <2>3 DEF StopInv
<1>5. CASE Join
  BY <1>5, <1>1 DEF Join, workerVars
<1>6. ASSUME NEW w \in Workers, AcquireTake(w) PROVE StopInv'
  BY <1>6, <1>2, OneMoves DEF AcquireTake, At, mainVars, WorkerPcs, OnTheirWay
<1>7. ASSUME NEW w \in Workers, CheckRunning(w) PROVE StopInv'
  <2>1. CASE running_
    BY <1>7, <2>1 DEF CheckRunning, mainVars, StopInv
  <2>2. CASE ~running_
    BY <1>7, <2>2, <1>2, OneMoves DEF CheckRunning, mainVars, WorkerPcs
  <2> QED
    BY <2>1, <2>2
<1>8. ASSUME NEW w \in Workers, Wait(w) PROVE StopInv'
  BY <1>8 DEF Wait, mainVars, StopInv
<1>9. ASSUME NEW w \in Workers, TakeTask(w) PROVE StopInv'
  <2>1. w \in OnTheirWay
    BY <1>9 DEF TakeTask, At, OnTheirWay
  <2>2. OnTheirWay' = OnTheirWay \ {w} /\ Waiting' \subseteq Waiting
    BY <1>9, OneMoves DEF TakeTask, WorkerPcs
  <2>3. Cardinality(OnTheirWay') = Cardinality(OnTheirWay) - 1
    BY <2>1, <2>2, FS_RemoveElement
  <2>4. Head(queue_) \in Tasks
    BY <1>9, HeadTailProperties DEF TakeTask, Types
  <2>5. Len(taken') = Len(taken) + 1 /\ Len(taken) \in Nat /\ takenAtStop \in Int
    BY <1>9, <2>4, AppendProperties, LenProperties DEF TakeTask, Types
  <2> QED
    BY <1>9, <2>2, <2>3, <2>5 DEF StopInv, TakeTask, mainVars
<1>10. ASSUME NEW w \in Workers, TakeNothing(w) PROVE StopInv'
  BY <1>10, <1>2, OneMoves DEF TakeNothing, mainVars, WorkerPcs
<1>11. ASSUME NEW w \in Workers, RunTask(w) PROVE StopInv'
  BY <1>11, <1>2, OneMoves DEF RunTask, mainVars, WorkerPcs
<1>12. ASSUME NEW w \in Workers, SpuriousWakeup(w) PROVE StopInv'
  BY <1>12 DEF SpuriousWakeup, At, Waiting, mainVars, StopInv
<1>13. ASSUME NEW a \in Adders, Push(a) PROVE StopInv'
  <2>1. CASE Waiting = {}
    BY <1>13, <1>1, <2>1 DEF Push, NotifyOne, mainVars
  <2>2. CASE Waiting # {}
    BY <1>13, <2>2 DEF Push, mainVars, StopInv
  <2> QED
    BY <2>1, <2>2
<1>14. CASE UNCHANGED vars \/ \E a \in Adders : AddTask(a) \/ AcquireAdd(a)
  BY <1>14, <1>1 DEF vars, AddTask, AcquireAdd, workerVars, mainVars
<1> QED
  BY <1>3, <1>4, <1>5, <1>6, <1>7, <1>8, <1>9, <1>10, <1>11, <1>12, <1>13, <1>14
     DEF Next, WorkerStep

-----------------------------------------------------------------------------
LEMMA Invariance == Spec => []IInv
<1>1. Init => IInv
  <2>1. ASSUME Init PROVE FifoOnce /\ AwakeForEachTask /\ StopInv
    BY <2>1 DEF Init, FifoOnce, AwakeForEachTask, StopInv, Waiting
  <2> QED
    BY <2>1, InitType DEF IInv
<1>2. IInv /\ [Next]_vars => IInv'
  BY TypesInductive, InHandInductive, HoldsInductive, FifoInductive, AwakeInductive,
     StopInductive
     DEF IInv, TypeOK
<1> QED
  BY <1>1, <1>2, PTL DEF Spec

(* Types, and that the mutex has one holder, for any number of threads.       *)
THEOREM TypeCorrect == Spec => []TypeOK
BY Invariance, PTL DEF IInv

(* The concurrent addTask and take calls are those of a queue.                *)
THEOREM FifoOnceHolds == Spec => []FifoOnce
BY Invariance, PTL DEF IInv

(* notify_one once per task is enough, whoever else waits or wakes.           *)
THEOREM AwakeForEachTaskHolds == Spec => []AwakeForEachTask
BY Invariance, PTL DEF IInv

(* After stop() each worker takes one more task at most.                      *)
THEOREM AtMostOneEachAfterStopHolds == Spec => []AtMostOneEachAfterStop
<1>1. IInv => AtMostOneEachAfterStop
  <2> SUFFICES ASSUME IInv, main \in {"join", "stopped"}
               PROVE  Len(taken) <= takenAtStop + Cardinality(Workers)
    BY DEF AtMostOneEachAfterStop
  <2>1. Len(taken) \in Nat /\ takenAtStop \in Int
    BY LenProperties DEF IInv, TypeOK, Types
  <2> QED
    BY <2>1, CountOnTheirWay DEF IInv, StopInv
<1> QED
  BY <1>1, Invariance, PTL
-----------------------------------------------------------------------------
TaskQueueSafety == AsTaskQueue!Init /\ [][AsTaskQueue!Next]_(AsTaskQueue!vars)

(* A step of the pool is a step of TaskQueue, or one it does not see.         *)
LEMMA StepRefines ==
  Types /\ InHand /\ StopInv /\ [Next]_vars
    => AsTaskQueue!Next \/ UNCHANGED AsTaskQueue!vars
<1> SUFFICES ASSUME Types, InHand, StopInv, [Next]_vars
             PROVE  AsTaskQueue!Next \/ UNCHANGED AsTaskQueue!vars
  OBVIOUS
<1> DEFINE late == IF Closed THEN OnTheirWay ELSE {}
<1>1. ASSUME UNCHANGED <<queue_, doing, executed>>, Closed' = Closed,
             Closed => OnTheirWay' = OnTheirWay
      PROVE  UNCHANGED AsTaskQueue!vars
  BY <1>1 DEF AsTaskQueue!vars
<1>2. CASE StartStep \/ AcquireStop \/ Join
  <2>1. UNCHANGED <<queue_, doing, executed>> /\ Closed' = Closed
    BY <1>2 DEF StartStep, Start, StartThread, Started, AcquireStop, Join, workerVars,
       mainVars, Closed
  <2>2. Closed => worker' = worker
    BY <1>2 DEF StartStep, Start, StartThread, Started, AcquireStop, Join, workerVars,
       Closed
  <2> QED
    BY <1>1, <2>1, <2>2 DEF OnTheirWay
<1>3. ASSUME NEW a \in Adders, AddTask(a) \/ AcquireAdd(a)
      PROVE  UNCHANGED AsTaskQueue!vars
  BY <1>1, <1>3 DEF AddTask, AcquireAdd, workerVars, mainVars, Closed, OnTheirWay
<1>4. ASSUME NEW a \in Adders, Push(a) PROVE AsTaskQueue!Next
  <2>1. adding[a] \in Tasks
    BY <1>4 DEF Push, Types, InHand
  <2>2. Closed' = Closed /\ UNCHANGED <<doing, executed>>
    BY <1>4 DEF Push, mainVars, Closed
  <2>3. Closed => worker' = worker
    BY <1>4 DEF Push, NotifyOne, StopInv, Closed
  <2>4. late' = late
    BY <2>2, <2>3 DEF OnTheirWay
  <2>5. AsTaskQueue!Add(adding[a])
    BY <1>4, <2>2, <2>4 DEF Push, AsTaskQueue!Add
  <2> QED
    BY <2>1, <2>5 DEF AsTaskQueue!Next
<1>5. CASE Stop
  <2>1. OnTheirWay' \subseteq {w \in Workers : AsTaskQueue!IsIdle(w)}
    BY <1>5 DEF Stop, At, OnTheirWay, InHand, AsTaskQueue!IsIdle
  <2>2. ~Closed /\ Closed' /\ UNCHANGED <<queue_, doing, executed>>
    BY <1>5 DEF Stop, Closed
  <2> QED
    BY <2>1, <2>2 DEF AsTaskQueue!Next, AsTaskQueue!Close
<1>6. ASSUME NEW w \in Workers, AcquireTake(w) \/ Wait(w) \/ SpuriousWakeup(w)
                                   \/ CheckRunning(w)
      PROVE  UNCHANGED AsTaskQueue!vars
  <2>1. UNCHANGED <<queue_, doing, executed>> /\ Closed' = Closed
    BY <1>6 DEF AcquireTake, Wait, SpuriousWakeup, CheckRunning, mainVars, Closed
  <2>2. Closed => OnTheirWay' = OnTheirWay
    BY <1>6, OneMoves DEF AcquireTake, Wait, SpuriousWakeup, CheckRunning, At, Closed,
       StopInv, OnTheirWay, Waiting, WorkerPcs
  <2> QED
    BY <1>1, <2>1, <2>2
<1>7. ASSUME NEW w \in Workers, TakeTask(w) PROVE AsTaskQueue!Next
  <2>1. OnTheirWay' = OnTheirWay \ {w} /\ w \in OnTheirWay
    BY <1>7, OneMoves DEF TakeTask, At, OnTheirWay, WorkerPcs
  <2>2. Closed' = Closed
    BY <1>7 DEF TakeTask, mainVars, Closed
  <2>3. late' = late \ {w} /\ (Closed => w \in late)
    BY <2>1, <2>2
  <2>4. AsTaskQueue!IsIdle(w)
    BY <1>7 DEF TakeTask, At, InHand, AsTaskQueue!IsIdle
  <2>5. AsTaskQueue!Take(w)
    BY <1>7, <2>2, <2>3, <2>4 DEF TakeTask, AsTaskQueue!Take
  <2> QED
    BY <2>5 DEF AsTaskQueue!Next
<1>8. ASSUME NEW w \in Workers, TakeNothing(w)
      PROVE  AsTaskQueue!Next \/ UNCHANGED AsTaskQueue!vars
  <2>1. OnTheirWay' = OnTheirWay \ {w} /\ w \in OnTheirWay
    BY <1>8, OneMoves DEF TakeNothing, At, OnTheirWay, WorkerPcs
  <2>2. Closed' = Closed /\ UNCHANGED <<queue_, doing, executed>> /\ queue_ = <<>>
    BY <1>8 DEF TakeNothing, mainVars, Closed
  <2>3. CASE Closed
    BY <2>1, <2>2, <2>3 DEF AsTaskQueue!Next, AsTaskQueue!Leave
  <2>4. CASE ~Closed
    BY <1>1, <2>2, <2>4
  <2> QED
    BY <2>3, <2>4
<1>9. ASSUME NEW w \in Workers, RunTask(w) PROVE AsTaskQueue!Next
  <2>1. Closed' = Closed /\ OnTheirWay' = OnTheirWay
    BY <1>9, OneMoves DEF RunTask, mainVars, Closed, At, OnTheirWay, WorkerPcs
  <2>2. late' = late /\ UNCHANGED queue_
    BY <1>9, <2>1 DEF RunTask
  <2>3. ~AsTaskQueue!IsIdle(w)
    BY <1>9 DEF RunTask, At, InHand, AsTaskQueue!IsIdle
  <2>4. AsTaskQueue!Finish(w)
    BY <1>9, <2>1, <2>2, <2>3 DEF RunTask, AsTaskQueue!Finish
  <2> QED
    BY <2>4 DEF AsTaskQueue!Next
<1>10. CASE UNCHANGED vars
  BY <1>1, <1>10 DEF vars, Closed, OnTheirWay
<1> QED
  BY <1>2, <1>3, <1>4, <1>5, <1>6, <1>7, <1>8, <1>9, <1>10 DEF Next, WorkerStep

(* The pool implements the queue, as far as safety goes: tasks are taken in   *)
(* order, what was taken is run, and late workers take at most one each.      *)
THEOREM ImplementsTaskQueue == Spec => TaskQueueSafety
<1>1. Init => AsTaskQueue!Init
  BY DEF Init, AsTaskQueue!Init, Closed
<1>2. IInv /\ [Next]_vars => [AsTaskQueue!Next]_(AsTaskQueue!vars)
  BY StepRefines DEF IInv, TypeOK
<1> QED
  BY <1>1, <1>2, Invariance, PTL DEF Spec, TaskQueueSafety

-----------------------------------------------------------------------------
(* What stop() waits for.  Once running_ is cleared a worker has at most four *)
(* steps left, whatever is in the queue, and none of them is a wait.          *)
StepsLeft(place) ==
  CASE place = "lock" -> 4 [] place = "take" -> 3 [] place = "run" -> 2
    [] place = "check" -> 1 [] place = "exited" -> 0

LeavingPcs == {"lock", "take", "run", "check", "exited"}

WorkersRunOut ==
  Closed => \A w \in Workers :
              /\ worker[w] \in LeavingPcs /\ worker'[w] \in LeavingPcs
              /\ worker'[w] # worker[w]
                   => StepsLeft(worker'[w]) < StepsLeft(worker[w])

(* And none of them waits for a mutex that is not given back: who has it can  *)
(* go on.                                                                     *)
MutexComesBack ==
  \/ mutex_ = NoThread
  \/ \E w \in Workers : mutex_ = w /\ At(w, "take")
  \/ \E a \in Adders : mutex_ = a /\ adder[a] = "push"
  \/ mutex_ = Main /\ main = "stop"

StartedInv ==
  main \in {"started", "stop", "join", "stopped"} => \A w \in Workers : worker[w] # "new"

LEMMA StartedInductive == Types /\ StartedInv /\ [Next]_vars => StartedInv'
<1> SUFFICES ASSUME Types, StartedInv, [Next]_vars PROVE StartedInv'
  OBVIOUS
<1>1. ASSUME UNCHANGED main \/ main' \in {"stop", "join", "stopped"},
             \A w \in Workers : worker'[w] = worker[w] \/ worker'[w] # "new",
             main' \in {"stop", "join", "stopped"} =>
               main \in {"started", "stop", "join", "stopped"}
      PROVE  StartedInv'
  BY <1>1 DEF StartedInv
<1>2. CASE StartStep
  BY <1>2 DEF StartStep, Start, StartThread, Started, workerVars, mainVars, Types,
     StartedInv
<1>3. CASE AcquireStop \/ Stop \/ Join
  BY <1>3, <1>1 DEF AcquireStop, Stop, Join, At, workerVars
<1>4. ASSUME NEW a \in Adders, AddTask(a) \/ AcquireAdd(a) \/ Push(a)
      PROVE  StartedInv'
  <2>1. UNCHANGED main
    BY <1>4 DEF AddTask, AcquireAdd, Push, mainVars
  <2>2. \A w \in Workers : worker'[w] = worker[w] \/ worker'[w] # "new"
    BY <1>4 DEF AddTask, AcquireAdd, Push, NotifyOne, workerVars, Types
  <2> QED
    BY <1>1, <2>1, <2>2
<1>5. ASSUME NEW w \in Workers, AcquireTake(w) \/ WorkerStep(w) \/ SpuriousWakeup(w)
      PROVE  StartedInv'
  <2>1. UNCHANGED main
    BY <1>5 DEF AcquireTake, WorkerStep, SpuriousWakeup, CheckRunning, Wait, TakeTask,
       TakeNothing, RunTask, mainVars
  <2>2. \A v \in Workers : worker'[v] = worker[v] \/ worker'[v] # "new"
    BY <1>5 DEF AcquireTake, WorkerStep, SpuriousWakeup, CheckRunning, Wait, TakeTask,
       TakeNothing, RunTask, GoTo, Types
  <2> QED
    BY <1>1, <2>1, <2>2
<1>6. CASE UNCHANGED vars
  BY <1>1, <1>6 DEF vars
<1> QED
  BY <1>2, <1>3, <1>4, <1>5, <1>6 DEF Next

(* A step of the stopped pool.                                                *)
LEMMA StoppedStep ==
  Types /\ StopInv /\ StartedInv /\ [Next]_vars => WorkersRunOut
<1> SUFFICES ASSUME Types, StopInv, StartedInv, [Next]_vars, Closed
             PROVE  WorkersRunOut
  BY DEF WorkersRunOut
<1>1. ~running_ /\ \A w \in Workers : worker[w] \in LeavingPcs
  <2>1. \A w \in Workers : worker[w] # "wait" /\ worker[w] # "new"
    BY DEF Closed, StopInv, StartedInv, Waiting
  <2> QED
    BY <2>1 DEF Closed, StopInv, Types, WorkerPcs, LeavingPcs
<1>2. ASSUME UNCHANGED worker PROVE WorkersRunOut
  BY <1>1, <1>2 DEF WorkersRunOut
<1>3. ASSUME NEW w \in Workers, NEW place \in LeavingPcs, GoTo(w, place),
             StepsLeft(place) < StepsLeft(worker[w])
      PROVE  WorkersRunOut
  BY <1>1, <1>3 DEF WorkersRunOut, GoTo, Types
<1>4. CASE StartStep \/ AcquireStop \/ Stop \/ Join
  BY <1>1, <1>2, <1>4 DEF StartStep, Start, StartThread, Started, AcquireStop, Stop,
     Join, Closed, workerVars
<1>5. ASSUME NEW a \in Adders, AddTask(a) \/ AcquireAdd(a) \/ Push(a)
      PROVE  WorkersRunOut
  <2>1. Waiting = {}
    BY DEF Closed, StopInv
  <2> QED
    BY <1>2, <1>5, <2>1 DEF AddTask, AcquireAdd, Push, NotifyOne, workerVars
<1>6. ASSUME NEW w \in Workers, CheckRunning(w) PROVE WorkersRunOut
  <2>1. At(w, "check") /\ GoTo(w, "exited")
    BY <1>1, <1>6 DEF CheckRunning
  <2> QED
    BY <1>3, <2>1 DEF At, LeavingPcs, StepsLeft
<1>7. ASSUME NEW w \in Workers, AcquireTake(w) PROVE WorkersRunOut
  <2>1. At(w, "lock") /\ GoTo(w, "take")
    BY <1>7 DEF AcquireTake
  <2> QED
    BY <1>3, <2>1 DEF At, LeavingPcs, StepsLeft
<1>8. ASSUME NEW w \in Workers, TakeTask(w) PROVE WorkersRunOut
  <2>1. At(w, "take") /\ GoTo(w, "run")
    BY <1>8 DEF TakeTask
  <2> QED
    BY <1>3, <2>1 DEF At, LeavingPcs, StepsLeft
<1>9. ASSUME NEW w \in Workers, TakeNothing(w) PROVE WorkersRunOut
  <2>1. At(w, "take") /\ GoTo(w, "check")
    BY <1>9 DEF TakeNothing
  <2> QED
    BY <1>3, <2>1 DEF At, LeavingPcs, StepsLeft
<1>10. ASSUME NEW w \in Workers, RunTask(w) PROVE WorkersRunOut
  <2>1. At(w, "run") /\ GoTo(w, "check")
    BY <1>10 DEF RunTask
  <2> QED
    BY <1>3, <2>1 DEF At, LeavingPcs, StepsLeft
<1>11. ASSUME NEW w \in Workers, Wait(w) \/ SpuriousWakeup(w) PROVE FALSE
  BY <1>1, <1>11 DEF Wait, SpuriousWakeup, At, LeavingPcs
<1>12. CASE UNCHANGED vars
  BY <1>2, <1>12 DEF vars
<1> QED
  BY <1>4, <1>5, <1>6, <1>7, <1>8, <1>9, <1>10, <1>11, <1>12 DEF Next, WorkerStep

(* The steps of the workers after stop() are numbered: the join of stop()     *)
(* cannot be put off by what is queued, or added (ThreadPool.cc:57-64).       *)
THEOREM WorkersRunOutHolds == Spec => [][WorkersRunOut]_vars
<1>1. Init => StartedInv
  BY DEF Init, StartedInv
<1>2. IInv /\ StartedInv /\ [Next]_vars => StartedInv' /\ [WorkersRunOut]_vars
  BY StartedInductive, StoppedStep DEF IInv, TypeOK
<1> QED
  BY <1>1, <1>2, Invariance, PTL DEF Spec

(* No thread goes to sleep, or away, with the mutex.                          *)
THEOREM MutexComesBackHolds == Spec => []MutexComesBack
<1>1. IInv => MutexComesBack
  BY DEF IInv, TypeOK, Types, Holds, MutexComesBack, At
<1> QED
  BY <1>1, Invariance, PTL
=============================================================================
