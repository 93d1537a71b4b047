------------------------------ MODULE TaskQueue ------------------------------
(* What ThreadPool promises the threads that add tasks, without its mutex,    *)
(* its condition variable and its unlocked reads: a queue, from which each    *)
(* idle worker takes the oldest task and runs it to its end.  Once the pool   *)
(* is closed, the workers that were about to take may take one task more.     *)
EXTENDS Sequences

CONSTANTS Workers, Tasks, NoTask

VARIABLES queue,     \* the tasks added and not yet taken, oldest first
          current,   \* per worker: the task it runs, or NoTask
          executed,  \* the tasks that have run to their end
          closed,    \* stop() was called
          late       \* the workers that may still take a task when closed

vars == <<queue, current, executed, closed, late>>

Init ==
  /\ queue = <<>>
  /\ current = [w \in Workers |-> NoTask]
  /\ executed = {}
  /\ closed = FALSE
  /\ late = {}

IsIdle(w) == current[w] = NoTask

(* A task is accepted, even by a pool that is closed.                         *)
Add(t) ==
  /\ queue' = Append(queue, t)
  /\ UNCHANGED <<current, executed, closed, late>>

Take(w) ==
  /\ IsIdle(w) /\ queue # <<>>
  /\ closed => w \in late
  /\ current' = [current EXCEPT ![w] = Head(queue)]
  /\ queue' = Tail(queue)
  /\ late' = late \ {w}
  /\ UNCHANGED <<executed, closed>>

(* A task that was taken is run, closed or not.                               *)
Finish(w) ==
  /\ ~IsIdle(w)
  /\ executed' = executed \cup {current[w]}
  /\ current' = [current EXCEPT ![w] = NoTask]
  /\ UNCHANGED <<queue, closed, late>>

Close ==
  /\ ~closed
  /\ closed' = TRUE
  /\ late' \in SUBSET {w \in Workers : IsIdle(w)}
  /\ UNCHANGED <<queue, current, executed>>

(* A worker finds no task in a closed pool and leaves.                        *)
Leave(w) ==
  /\ w \in late /\ queue = <<>>
  /\ late' = late \ {w}
  /\ UNCHANGED <<queue, current, executed, closed>>

Next ==
  \/ \E t \in Tasks : Add(t)
  \/ \E w \in Workers : Take(w) \/ Finish(w) \/ Leave(w)
  \/ Close

(* As long as one may, some idle worker takes a task; each task ends.         *)
Spec ==
  /\ Init /\ [][Next]_vars
  /\ WF_vars(\E w \in Workers : Take(w))
  /\ \A w \in Workers : WF_vars(Finish(w))
=============================================================================
