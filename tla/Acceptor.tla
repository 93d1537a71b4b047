------------------------------- MODULE Acceptor -------------------------------
(* HttpServer::acceptor on the base loop: accept until EAGAIN, spread the     *)
(* connections over the loops of EventLoopThreadPool, and give up idleFd_ to  *)
(* drop a connection when the process is out of descriptors.  The descriptor  *)
(* table is shared with the threads of the other loops, which close           *)
(* connections and open and close files between any two system calls.         *)
EXTENDS Integers, FiniteSets

CONSTANTS Conns,     \* connections that may arrive, each once
          MaxFd,     \* size of the descriptor table (RLIMIT_NOFILE)
          MaxLoops   \* bound on numThreads

(* What a descriptor is, unless it is a connection's.                         *)
Free == "free"
Idle == "idle"
File == "file"

ASSUME AcceptorAssumption ==
  /\ IsFiniteSet(Conns)
  /\ Conns \cap {Free, Idle, File} = {}
  /\ MaxFd \in Nat \ {0}
  /\ MaxLoops \in Nat

VARIABLES
  fdTable,   \* the owner of each descriptor: Free, Idle, File or a connection
  backlog,   \* connections the kernel has queued on listenFd_
  armed,     \* listenFd_ is on epoll's ready list
  fresh,     \* connections that have not arrived yet
  pc,        \* see Pcs
  errno,     \* of the base loop's thread
  idleFd_,   \* a descriptor, or NoFd after a failed call
  connfd,    \* the descriptor accept4() returned, or NoFd
  failed,    \* the last call of acceptor() ended on an error other than EAGAIN
  refused,   \* /dev/null was not opened for want of something else than a slot
  numLoops,  \* loops_.size() of the EventLoopThreadPool
  next_,     \* index of the loop getNextLoop returns next
  home       \* per connection: the loop it was queued to, or None

vars == <<fdTable, backlog, armed, fresh, pc, errno, idleFd_, connfd, failed,
          refused, numLoops, next_, home>>

envVars  == <<backlog, armed, fresh>>
poolVars == <<numLoops, next_, home>>

Fds == 1 .. MaxFd
NoFd == 0

LoopIndices == 0 .. numLoops - 1

(* A connection queued to the base loop, and one not queued to a loop yet.    *)
Base == -1
None == -2

(* "poll": not in acceptor(); "accept": at the AcceptNb of the while; then    *)
(* either "dispatch" or the four calls of the EMFILE branch.                  *)
Pcs == {"poll", "accept", "dispatch", "close", "acceptIdle", "closeIdle", "open"}
Errnos == {"EMFILE", "EAGAIN", "other"}

TypeOK ==
  /\ fdTable \in [Fds -> {Free, Idle, File} \cup Conns]
  /\ backlog \subseteq Conns
  /\ armed \in BOOLEAN
  /\ fresh \subseteq Conns
  /\ pc \in Pcs
  /\ errno \in Errnos
  /\ idleFd_ \in Fds \cup {NoFd}
  /\ connfd \in Fds \cup {NoFd}
  /\ failed \in BOOLEAN
  /\ refused \in BOOLEAN
  /\ numLoops \in 0 .. MaxLoops
  /\ next_ \in {0} \cup LoopIndices
  /\ home \in [Conns -> LoopIndices \cup {None, Base}]

(* The constructor has opened /dev/null.                                      *)
Init ==
  /\ fdTable = [f \in Fds |-> IF f = 1 THEN Idle ELSE Free]
  /\ backlog = {}
  /\ armed = FALSE
  /\ fresh = Conns
  /\ pc = "poll"
  /\ errno = "other"
  /\ idleFd_ = 1
  /\ connfd = NoFd
  /\ failed = FALSE
  /\ refused = FALSE
  /\ numLoops \in 0 .. MaxLoops
  /\ next_ = 0
  /\ home = [c \in Conns |-> None]

-----------------------------------------------------------------------------
(* The descriptor table.  A new descriptor is the lowest free one.            *)
FreeFds == {f \in Fds : fdTable[f] = Free}
Full == FreeFds = {}
IsLowestFree(f) == f \in FreeFds /\ \A g \in FreeFds : f <= g

Allocate(f, owner) == fdTable' = [fdTable EXCEPT ![f] = owner]

(* close(): a bad descriptor only sets errno.                                 *)
Close(f) ==
  IF f = NoFd
    THEN errno' = "other" /\ UNCHANGED fdTable
    ELSE fdTable' = [fdTable EXCEPT ![f] = Free] /\ UNCHANGED errno

-----------------------------------------------------------------------------
(* The network and the other threads.                                         *)
Arrive(c) ==
  /\ c \in fresh
  /\ fresh' = fresh \ {c}
  /\ backlog' = backlog \cup {c}
  /\ armed' = TRUE
  /\ UNCHANGED <<fdTable, pc, errno, idleFd_, connfd, failed, refused, poolVars>>

(* Other loops run in their own threads; without any, the base loop does      *)
(* their work, and not while it is in acceptor().                             *)
OthersRun == numLoops > 0 \/ pc = "poll"

OthersElse == <<envVars, pc, idleFd_, connfd, failed, refused, poolVars>>

(* A loop closes a connection it was given.                                   *)
CloseConn(f) ==
  /\ OthersRun
  /\ fdTable[f] \in Conns /\ home[fdTable[f]] # None
  /\ fdTable' = [fdTable EXCEPT ![f] = Free]
  /\ UNCHANGED <<errno, OthersElse>>

(* HttpHandler::responseReq opens the file it is asked for.  A failing open   *)
(* on the base loop's own thread leaves EMFILE in its errno.                  *)
OpenFile ==
  /\ OthersRun
  /\ \/ /\ \E f \in Fds : IsLowestFree(f) /\ Allocate(f, File)
        /\ UNCHANGED errno
     \/ /\ Full /\ numLoops = 0
        /\ errno' = "EMFILE"
        /\ UNCHANGED fdTable
  /\ UNCHANGED OthersElse

(* readn on the base loop's own thread ends on EAGAIN.                        *)
ReadToEagain ==
  /\ numLoops = 0 /\ pc = "poll"
  /\ errno' = "EAGAIN"
  /\ UNCHANGED <<fdTable, OthersElse>>

CloseFile(f) ==
  /\ OthersRun
  /\ fdTable[f] = File
  /\ fdTable' = [fdTable EXCEPT ![f] = Free]
  /\ UNCHANGED <<errno, OthersElse>>

-----------------------------------------------------------------------------
(* acceptor(), one action per system call.                                    *)

(* epoll reports listenFd_, edge-triggered, and handleEvent calls acceptor(). *)
PollReturns ==
  /\ pc = "poll" /\ armed /\ backlog # {}
  /\ armed' = FALSE
  /\ failed' = FALSE
  /\ pc' = "accept"
  /\ UNCHANGED <<fdTable, backlog, fresh, errno, idleFd_, connfd, refused, poolVars>>

(* Mutant: EMFILE ends the while like any other error.                        *)
AcceptExhaustedReturns ==
  /\ pc = "accept" /\ Full
  /\ errno' = "EMFILE"
  /\ connfd' = NoFd
  /\ pc' = "poll"
  /\ UNCHANGED <<fdTable, envVars, idleFd_, failed, refused, poolVars>>

(* The kernel reserves a descriptor before it looks at the backlog: accept()  *)
(* fails with EMFILE on a full table even when there is nothing to accept.    *)
AcceptExhausted ==
  /\ pc = "accept" /\ Full
  /\ errno' = "EMFILE"
  /\ connfd' = NoFd
  /\ pc' = "close"
  /\ UNCHANGED <<fdTable, envVars, idleFd_, failed, refused, poolVars>>

(* Mutant: EAGAIN is tried again.                                             *)
AcceptNothingRetries ==
  /\ pc = "accept" /\ ~Full /\ backlog = {}
  /\ errno' = "EAGAIN"
  /\ connfd' = NoFd
  /\ UNCHANGED <<fdTable, envVars, pc, idleFd_, failed, refused, poolVars>>

AcceptNothing ==
  /\ pc = "accept" /\ ~Full /\ backlog = {}
  /\ errno' = "EAGAIN"
  /\ connfd' = NoFd
  /\ pc' = "poll"
  /\ UNCHANGED <<fdTable, envVars, idleFd_, failed, refused, poolVars>>

(* ENFILE, ENOMEM and the like end the while as EAGAIN does.                  *)
AcceptFails ==
  /\ pc = "accept" /\ ~Full /\ backlog # {}
  /\ errno' = "other"
  /\ connfd' = NoFd
  /\ failed' = TRUE
  /\ pc' = "poll"
  /\ UNCHANGED <<fdTable, envVars, idleFd_, refused, poolVars>>

(* A successful call leaves errno as it was, and the body looks at errno      *)
(* first: after an EMFILE it takes the EMFILE branch, and connfd is lost.     *)
AcceptConn(c) ==
  /\ pc = "accept" /\ c \in backlog
  /\ \E f \in Fds : IsLowestFree(f) /\ Allocate(f, c) /\ connfd' = f
  /\ backlog' = backlog \ {c}
  /\ pc' = IF errno = "EMFILE" THEN "close" ELSE "dispatch"
  /\ UNCHANGED <<armed, fresh, errno, idleFd_, failed, refused, poolVars>>

(* Mutant: loops_[++next_ % size].                                            *)
NextLoopPreIncrement == IF numLoops = 0 THEN Base ELSE (next_ + 1) % numLoops

(* EventLoopThreadPool::getNextLoop.                                          *)
NextLoop == IF numLoops = 0 THEN Base ELSE next_

(* Mutant: the index is checked before it is incremented.                     *)
AdvanceNextUnwrapped ==
  next_' = IF numLoops = 0 \/ next_ >= numLoops THEN 0 ELSE next_ + 1

AdvanceNext ==
  next_' = IF numLoops = 0 \/ next_ + 1 >= numLoops THEN 0 ELSE next_ + 1

(* Mutant: one connection for each event of listenFd_: if instead of while.   *)
DispatchOnce ==
  /\ pc = "dispatch"
  /\ home' = [home EXCEPT ![fdTable[connfd]] = NextLoop]
  /\ AdvanceNext
  /\ connfd' = NoFd
  /\ pc' = "poll"
  /\ UNCHANGED <<fdTable, envVars, errno, idleFd_, failed, refused, numLoops>>

(* A handler is created for the connection and queued to the next loop.       *)
Dispatch ==
  /\ pc = "dispatch"
  /\ home' = [home EXCEPT ![fdTable[connfd]] = NextLoop]
  /\ AdvanceNext
  /\ connfd' = NoFd
  /\ pc' = "accept"
  /\ UNCHANGED <<fdTable, envVars, errno, idleFd_, failed, refused, numLoops>>

(* Mutant: the idle descriptor is not closed before accept().                 *)
CloseIdleSkipped ==
  /\ pc = "close"
  /\ connfd' = NoFd
  /\ pc' = "acceptIdle"
  /\ UNCHANGED <<fdTable, errno, envVars, idleFd_, failed, refused, poolVars>>

(* The EMFILE branch.  connfd is not used again, whatever it holds.           *)
CloseIdle ==
  /\ pc = "close"
  /\ Close(idleFd_)
  /\ connfd' = NoFd
  /\ pc' = "acceptIdle"
  /\ UNCHANGED <<envVars, idleFd_, failed, refused, poolVars>>

(* Mutant: idleFd_ is assigned only when accept() succeeds.                   *)
AcceptIdleKeepsOld ==
  /\ pc = "acceptIdle"
  /\ \/ /\ Full \/ backlog = {}
        /\ errno' = IF Full THEN "EMFILE" ELSE "EAGAIN"
        /\ UNCHANGED <<fdTable, backlog, idleFd_>>
     \/ \E c \in backlog, f \in Fds :
          /\ IsLowestFree(f) /\ Allocate(f, c)
          /\ idleFd_' = f
          /\ backlog' = backlog \ {c}
          /\ UNCHANGED errno
  /\ pc' = "closeIdle"
  /\ UNCHANGED <<armed, fresh, connfd, failed, refused, poolVars>>

AcceptIdle ==
  /\ pc = "acceptIdle"
  /\ \/ /\ Full \/ backlog = {}
        /\ idleFd_' = NoFd
        /\ errno' = IF Full THEN "EMFILE" ELSE "EAGAIN"
        /\ UNCHANGED <<fdTable, backlog>>
     \/ \E c \in backlog, f \in Fds :
          /\ IsLowestFree(f) /\ Allocate(f, c)
          /\ idleFd_' = f
          /\ backlog' = backlog \ {c}
          /\ UNCHANGED errno
  /\ pc' = "closeIdle"
  /\ UNCHANGED <<armed, fresh, connfd, failed, refused, poolVars>>

(* Mutant: the accepted connection is not closed before /dev/null is opened.  *)
DropIdleKeepsConn ==
  /\ pc = "closeIdle"
  /\ pc' = "open"
  /\ UNCHANGED <<fdTable, errno, envVars, idleFd_, connfd, failed, refused, poolVars>>

DropIdle ==
  /\ pc = "closeIdle"
  /\ Close(idleFd_)
  /\ pc' = "open"
  /\ UNCHANGED <<envVars, idleFd_, connfd, failed, refused, poolVars>>

OpenIdle ==
  /\ pc = "open"
  /\ \/ /\ \E f \in Fds : IsLowestFree(f) /\ Allocate(f, Idle) /\ idleFd_' = f
        /\ refused' = FALSE
        /\ UNCHANGED errno
     \/ /\ Full
        /\ idleFd_' = NoFd
        /\ errno' = "EMFILE"
        /\ UNCHANGED <<fdTable, refused>>
  /\ pc' = "accept"
  /\ UNCHANGED <<envVars, connfd, failed, poolVars>>

(* ENFILE, ENOMEM and the like in the EMFILE branch: idleFd_ is -1 and the    *)
(* branch goes on.                                                            *)
AcceptIdleFails ==
  /\ pc = "acceptIdle" /\ ~Full
  /\ idleFd_' = NoFd
  /\ errno' = "other"
  /\ pc' = "closeIdle"
  /\ UNCHANGED <<fdTable, envVars, connfd, failed, refused, poolVars>>

OpenIdleFails ==
  /\ pc = "open" /\ ~Full
  /\ idleFd_' = NoFd
  /\ refused' = TRUE
  /\ errno' = "other"
  /\ pc' = "accept"
  /\ UNCHANGED <<fdTable, envVars, connfd, failed, poolVars>>

-----------------------------------------------------------------------------
(* The base loop's thread.                                                    *)
AcceptorStep ==
  \/ PollReturns \/ AcceptExhausted \/ AcceptNothing
  \/ \E c \in Conns : AcceptConn(c)
  \/ Dispatch \/ CloseIdle \/ AcceptIdle \/ DropIdle \/ OpenIdle

(* Failures that any call may meet, and that are owed to nobody.              *)
AcceptorFails == AcceptFails \/ AcceptIdleFails \/ OpenIdleFails

OthersStep ==
  \/ OpenFile \/ ReadToEagain
  \/ \E f \in Fds : CloseConn(f) \/ CloseFile(f)

Next ==
  \/ AcceptorStep
  \/ AcceptorFails
  \/ OthersStep
  \/ \E c \in Conns : Arrive(c)

(* The base loop's thread keeps running.                                      *)
Spec == Init /\ [][Next]_vars /\ WF_vars(AcceptorStep)

-----------------------------------------------------------------------------
(* Properties.                                                                *)

(* idleFd_ never names a descriptor that another thread may own: what         *)
(* acceptor() closes is its /dev/null or the connection it wants to drop.     *)
IdleFdIsOurs ==
  idleFd_ # NoFd =>
    \/ pc \in {"acceptIdle", "open"}
    \/ pc = "closeIdle" /\ fdTable[idleFd_] \in Conns /\ home[fdTable[idleFd_]] = None
    \/ pc \in {"poll", "accept", "dispatch", "close"} /\ fdTable[idleFd_] = Idle

(* With no thread but its own, acceptor() gets its /dev/null back: the slot   *)
(* that it gave up is free when it opens /dev/null, whatever it accepted and  *)
(* dropped.  Only an error of open() itself, ENFILE or ENOMEM, loses it.      *)
IdleFdKept ==
  numLoops = 0 /\ pc \in {"poll", "accept"} => idleFd_ # NoFd \/ refused

(* At most one /dev/null is open, and it is idleFd_.                          *)
OneIdleFd == \A f \in Fds : fdTable[f] = Idle => f = idleFd_

Load(i) == Cardinality({c \in Conns : home[c] = i})

(* Round robin: a loop before next_ has had one connection more than a loop   *)
(* from next_ on, and loops on the same side the same number.                 *)
RoundRobin ==
  \A i, j \in LoopIndices :
     i <= j => Load(i) = Load(j) + (IF i < next_ /\ next_ <= j THEN 1 ELSE 0)

(* With edge triggering, acceptor() must not return while connections wait:   *)
(* a backlog seen by no one has an edge to come, unless accept() failed.      *)
NoStrandedBacklog == pc = "poll" /\ backlog # {} => armed \/ failed

(* No connection waits for ever: it is accepted or dropped, unless another    *)
(* thread took the slot of idleFd_ before it was used, or accept() failed.    *)
BacklogServed ==
  \A c \in Conns : c \in backlog ~> (c \notin backlog \/ idleFd_ = NoFd \/ failed)

(* acceptor() gives the base loop back.  Only a full descriptor table makes   *)
(* it go round and round (HttpServer.cc:86-97), and no longer than it is full.*)
AcceptorReturns == []<>(pc = "poll") \/ []<>Full

(* What HttpServer.cc:99-100 says: every connection accepted gets a handler   *)
(* and a loop.  A descriptor of a connection without a loop is one acceptor() *)
(* still holds.                                                               *)
EveryConnHasHandler ==
  \A f \in Fds : fdTable[f] \in Conns =>
     \/ home[fdTable[f]] # None
     \/ f \in {connfd, idleFd_}
=============================================================================
