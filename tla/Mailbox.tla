------------------------------- MODULE Mailbox -------------------------------
(* What EventLoop::queueInLoop promises its callers, without threads, locks  *)
(* or wake-ups: a queue of functors that any thread may extend and that one  *)
(* consumer empties from the front until the loop has stopped.  EventLoop    *)
(* implements this specification.                                            *)
EXTENDS Sequences

CONSTANT Functors

VARIABLES queue,     \* functors posted and not yet executed, oldest first
          executed,  \* functors executed so far, in order
          stopped    \* the loop has returned; nothing is executed any more

vars == <<queue, executed, stopped>>

Init ==
  /\ queue = <<>>
  /\ executed = <<>>
  /\ stopped = FALSE

(* A thread hands a functor over; it may do so even after the loop stopped.  *)
Post(f) ==
  /\ queue' = Append(queue, f)
  /\ UNCHANGED <<executed, stopped>>

Execute ==
  /\ ~stopped
  /\ queue # <<>>
  /\ executed' = Append(executed, Head(queue))
  /\ queue' = Tail(queue)
  /\ UNCHANGED stopped

(* The loop stops at any time, with functors still queued if need be.        *)
Stop ==
  /\ ~stopped
  /\ stopped' = TRUE
  /\ UNCHANGED <<queue, executed>>

Next ==
  \/ \E f \in Functors : Post(f)
  \/ Execute
  \/ Stop

Spec == Init /\ [][Next]_vars /\ WF_vars(Execute)
=============================================================================
