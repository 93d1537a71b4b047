------------------------------ MODULE KeepAlive ------------------------------
(* What HttpManager promises of the connections of one loop, without its      *)
(* list, the iterators into it and the prefix walk: a clock per timed         *)
(* connection, which a request sets again, and which closes the connection,   *)
(* at an expiry, when it has run down, and no connection whose clock has not. *)
EXTENDS Naturals

CONSTANTS Conns, ExpireTicks

VARIABLES waiting,  \* connections not opened yet
          open,     \* open connections
          left,     \* the ticks left to each open connection that is timed
          due       \* the timer has gone off, and the expiry is to come

vars == <<waiting, open, left, due>>

Timed == DOMAIN left

Init ==
  /\ waiting = Conns
  /\ open = {}
  /\ left = [c \in {} |-> 0]
  /\ due = FALSE

Untimed(S) == [c \in Timed \ S |-> left[c]]

(* A connection is opened once, and has no clock before its first request.    *)
Open(c) ==
  /\ c \in waiting
  /\ waiting' = waiting \ {c}
  /\ open' = open \cup {c}
  /\ UNCHANGED <<left, due>>

(* A request was answered and the connection is kept.                         *)
Refresh(c) ==
  /\ c \in open
  /\ left' = [d \in Timed \cup {c} |-> IF d = c THEN ExpireTicks ELSE left[d]]
  /\ UNCHANGED <<waiting, open, due>>

(* The connection is closed for any other reason, timed or not.               *)
Close(c) ==
  /\ c \in open
  /\ open' = open \ {c}
  /\ left' = Untimed({c})
  /\ UNCHANGED <<waiting, due>>

TimerGoesOff ==
  /\ ~due
  /\ due' = TRUE
  /\ UNCHANGED <<waiting, open, left>>

(* Every connection whose clock has run down is closed, and no other.         *)
Expired == {c \in Timed : left[c] = 0}

Expire ==
  /\ due
  /\ due' = FALSE
  /\ open' = open \ Expired
  /\ left' = Untimed(Expired)
  /\ UNCHANGED waiting

(* Time passes for all timed connections alike.                               *)
Tick ==
  /\ Timed # Expired
  /\ left' = [c \in Timed |-> IF left[c] = 0 THEN 0 ELSE left[c] - 1]
  /\ UNCHANGED <<waiting, open, due>>

Next ==
  \/ \E c \in Conns : Open(c) \/ Refresh(c) \/ Close(c)
  \/ TimerGoesOff
  \/ Expire
  \/ Tick

Spec == Init /\ [][Next]_vars
=============================================================================
