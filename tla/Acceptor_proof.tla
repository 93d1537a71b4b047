----------------------------- MODULE Acceptor_proof -----------------------------
(* For any number of connections, descriptors and loops: acceptor() never     *)
(* closes a descriptor of another thread, keeps one /dev/null at most, gets   *)
(* it back when it is alone, strands no backlog, and spreads the connections  *)
(* evenly.                                                                    *)
EXTENDS Acceptor, FiniteSetTheorems, TLAPS

(* A connection that was not accepted has no descriptor and no loop.          *)
ConnInv ==
  /\ backlog \cap fresh = {}
  /\ \A c \in backlog \cup fresh : home[c] = None /\ \A f \in Fds : fdTable[f] # c

(* The one accepted last has a descriptor, and no loop before Dispatch.       *)
DispatchInv ==
  pc = "dispatch" =>
    connfd \in Fds /\ fdTable[connfd] \in Conns /\ home[fdTable[connfd]] = None

(* There is a /dev/null only outside the EMFILE branch, and it is idleFd_.    *)
IdleInv ==
  /\ IdleFdIsOurs
  /\ \A f \in Fds :
       fdTable[f] = Idle => f = idleFd_ /\ pc \in {"poll", "accept", "dispatch", "close"}

(* Without other threads, what the EMFILE branch gives up stays free for it.  *)
AloneInv ==
  numLoops = 0 =>
    /\ pc \in {"poll", "accept", "dispatch", "close"} => idleFd_ # NoFd \/ refused
    /\ pc \in {"acceptIdle", "open"} => ~Full \/ refused
    /\ pc = "closeIdle" => idleFd_ # NoFd \/ ~Full \/ refused

IInv ==
  /\ TypeOK /\ ConnInv /\ DispatchInv /\ IdleInv /\ AloneInv
  /\ NoStrandedBacklog /\ RoundRobin

-----------------------------------------------------------------------------
LEMMA TypeInductive == TypeOK /\ DispatchInv /\ [Next]_vars => TypeOK'
<1> SUFFICES ASSUME TypeOK, DispatchInv, [Next]_vars PROVE TypeOK'
  OBVIOUS
<1> USE AcceptorAssumption DEF TypeOK, DispatchInv, Pcs, Errnos, Fds, NoFd, LoopIndices, Base, None
<1>0. CASE UNCHANGED vars
  BY <1>0 DEF vars, envVars, poolVars
<1>1. ASSUME PollReturns PROVE TypeOK'
  BY <1>1 DEF PollReturns, poolVars
<1>2. ASSUME AcceptExhausted PROVE TypeOK'
  BY <1>2 DEF AcceptExhausted, envVars, poolVars
<1>3. ASSUME AcceptNothing PROVE TypeOK'
  BY <1>3 DEF AcceptNothing, envVars, poolVars
<1>4. ASSUME AcceptFails PROVE TypeOK'
  BY <1>4 DEF AcceptFails, envVars, poolVars
<1>5. ASSUME NEW c \in Conns, AcceptConn(c) PROVE TypeOK'
  BY <1>5 DEF AcceptConn, IsLowestFree, FreeFds, Allocate, poolVars
<1>6. ASSUME Dispatch PROVE TypeOK'
  BY <1>6 DEF Dispatch, NextLoop, AdvanceNext, envVars
<1>7. ASSUME CloseIdle PROVE TypeOK'
  BY <1>7 DEF CloseIdle, Close, envVars, poolVars
<1>8. ASSUME AcceptIdle PROVE TypeOK'
  BY <1>8 DEF AcceptIdle, IsLowestFree, FreeFds, Allocate, poolVars
<1>9. ASSUME DropIdle PROVE TypeOK'
  BY <1>9 DEF DropIdle, Close, envVars, poolVars
<1>10. ASSUME OpenIdle PROVE TypeOK'
  BY <1>10 DEF OpenIdle, IsLowestFree, FreeFds, Allocate, envVars, poolVars
<1>11. ASSUME OpenFile PROVE TypeOK'
  BY <1>11 DEF OpenFile, IsLowestFree, FreeFds, Allocate, OthersElse, envVars, poolVars
<1>12. ASSUME ReadToEagain PROVE TypeOK'
  BY <1>12 DEF ReadToEagain, OthersElse, envVars, poolVars
<1>13. ASSUME NEW f \in Fds, CloseConn(f) PROVE TypeOK'
  BY <1>13 DEF CloseConn, OthersElse, envVars, poolVars
<1>14. ASSUME NEW f \in Fds, CloseFile(f) PROVE TypeOK'
  BY <1>14 DEF CloseFile, OthersElse, envVars, poolVars
<1>15. ASSUME NEW c \in Conns, Arrive(c) PROVE TypeOK'
  BY <1>15 DEF Arrive, poolVars
<1>16. ASSUME AcceptIdleFails PROVE TypeOK'
  BY <1>16 DEF AcceptIdleFails, envVars, poolVars
<1>17. ASSUME OpenIdleFails PROVE TypeOK'
  BY <1>17 DEF OpenIdleFails, envVars, poolVars
<1> QED
  BY <1>0, <1>1, <1>2, <1>3, <1>4, <1>5, <1>6, <1>7, <1>8, <1>9, <1>10, <1>11,
     <1>12, <1>13, <1>14, <1>15, <1>16, <1>17
     DEF Next, AcceptorStep, AcceptorFails, OthersStep

(* accept() takes a connection from the backlog and gives it one descriptor.  *)
LEMMA ConnInductive == TypeOK /\ ConnInv /\ DispatchInv /\ [Next]_vars => ConnInv'
<1> SUFFICES ASSUME TypeOK, ConnInv, DispatchInv, [Next]_vars PROVE ConnInv'
  OBVIOUS
<1> USE AcceptorAssumption DEF TypeOK, ConnInv, DispatchInv, Free, Idle, File
<1>0. CASE UNCHANGED vars
  BY <1>0 DEF vars, envVars, poolVars
<1>1. ASSUME PollReturns PROVE ConnInv'
  BY <1>1 DEF PollReturns, poolVars
<1>2. ASSUME AcceptExhausted PROVE ConnInv'
  BY <1>2 DEF AcceptExhausted, envVars, poolVars
<1>3. ASSUME AcceptNothing PROVE ConnInv'
  BY <1>3 DEF AcceptNothing, envVars, poolVars
<1>4. ASSUME AcceptFails PROVE ConnInv'
  BY <1>4 DEF AcceptFails, envVars, poolVars
<1>5. ASSUME NEW c \in Conns, AcceptConn(c) PROVE ConnInv'
  BY <1>5 DEF AcceptConn, IsLowestFree, FreeFds, Allocate, poolVars
<1>6. ASSUME Dispatch PROVE ConnInv'
  BY <1>6 DEF Dispatch, NextLoop, AdvanceNext, envVars
<1>7. ASSUME CloseIdle PROVE ConnInv'
  BY <1>7 DEF CloseIdle, Close, envVars, poolVars
<1>8. ASSUME AcceptIdle PROVE ConnInv'
  BY <1>8 DEF AcceptIdle, IsLowestFree, FreeFds, Allocate, poolVars
<1>9. ASSUME DropIdle PROVE ConnInv'
  BY <1>9 DEF DropIdle, Close, envVars, poolVars
<1>10. ASSUME OpenIdle PROVE ConnInv'
  BY <1>10 DEF OpenIdle, IsLowestFree, FreeFds, Allocate, envVars, poolVars
<1>11. ASSUME OpenFile PROVE ConnInv'
  BY <1>11 DEF OpenFile, IsLowestFree, FreeFds, Allocate, OthersElse, envVars, poolVars
<1>12. ASSUME ReadToEagain PROVE ConnInv'
  BY <1>12 DEF ReadToEagain, OthersElse, envVars, poolVars
<1>13. ASSUME NEW f \in Fds, CloseConn(f) PROVE ConnInv'
  BY <1>13 DEF CloseConn, OthersElse, envVars, poolVars
<1>14. ASSUME NEW f \in Fds, CloseFile(f) PROVE ConnInv'
  BY <1>14 DEF CloseFile, OthersElse, envVars, poolVars
<1>15. ASSUME NEW c \in Conns, Arrive(c) PROVE ConnInv'
  BY <1>15 DEF Arrive, poolVars
<1>16. ASSUME AcceptIdleFails PROVE ConnInv'
  BY <1>16 DEF AcceptIdleFails, envVars, poolVars
<1>17. ASSUME OpenIdleFails PROVE ConnInv'
  BY <1>17 DEF OpenIdleFails, envVars, poolVars
<1> QED
  BY <1>0, <1>1, <1>2, <1>3, <1>4, <1>5, <1>6, <1>7, <1>8, <1>9, <1>10, <1>11,
     <1>12, <1>13, <1>14, <1>15, <1>16, <1>17
     DEF Next, AcceptorStep, AcceptorFails, OthersStep

(* No other thread closes the descriptor of a connection without a loop.      *)
LEMMA DispatchInductive == TypeOK /\ ConnInv /\ DispatchInv /\ [Next]_vars => DispatchInv'
<1> SUFFICES ASSUME TypeOK, ConnInv, DispatchInv, [Next]_vars PROVE DispatchInv'
  OBVIOUS
<1> USE AcceptorAssumption DEF TypeOK, ConnInv, DispatchInv, Free, Idle, File, None, Base
<1>0. CASE UNCHANGED vars
  BY <1>0 DEF vars, envVars, poolVars
<1>1. ASSUME PollReturns PROVE DispatchInv'
  BY <1>1 DEF PollReturns, poolVars
<1>2. ASSUME AcceptExhausted PROVE DispatchInv'
  BY <1>2 DEF AcceptExhausted, envVars, poolVars
<1>3. ASSUME AcceptNothing PROVE DispatchInv'
  BY <1>3 DEF AcceptNothing, envVars, poolVars
<1>4. ASSUME AcceptFails PROVE DispatchInv'
  BY <1>4 DEF AcceptFails, envVars, poolVars
<1>5. ASSUME NEW c \in Conns, AcceptConn(c) PROVE DispatchInv'
  BY <1>5 DEF AcceptConn, IsLowestFree, FreeFds, Allocate, poolVars
<1>6. ASSUME Dispatch PROVE DispatchInv'
  BY <1>6 DEF Dispatch, NextLoop, AdvanceNext, envVars
<1>7. ASSUME CloseIdle PROVE DispatchInv'
  BY <1>7 DEF CloseIdle, Close, envVars, poolVars
<1>8. ASSUME AcceptIdle PROVE DispatchInv'
  BY <1>8 DEF AcceptIdle, IsLowestFree, FreeFds, Allocate, poolVars
<1>9. ASSUME DropIdle PROVE DispatchInv'
  BY <1>9 DEF DropIdle, Close, envVars, poolVars
<1>10. ASSUME OpenIdle PROVE DispatchInv'
  BY <1>10 DEF OpenIdle, IsLowestFree, FreeFds, Allocate, envVars, poolVars
<1>11. ASSUME OpenFile PROVE DispatchInv'
  BY <1>11 DEF OpenFile, IsLowestFree, FreeFds, Allocate, OthersElse, envVars, poolVars
<1>12. ASSUME ReadToEagain PROVE DispatchInv'
  BY <1>12 DEF ReadToEagain, OthersElse, envVars, poolVars
<1>13. ASSUME NEW f \in Fds, CloseConn(f) PROVE DispatchInv'
  BY <1>13 DEF CloseConn, OthersElse, envVars, poolVars
<1>14. ASSUME NEW f \in Fds, CloseFile(f) PROVE DispatchInv'
  BY <1>14 DEF CloseFile, OthersElse, envVars, poolVars
<1>15. ASSUME NEW c \in Conns, Arrive(c) PROVE DispatchInv'
  BY <1>15 DEF Arrive, poolVars
<1>16. ASSUME AcceptIdleFails PROVE DispatchInv'
  BY <1>16 DEF AcceptIdleFails, envVars, poolVars
<1>17. ASSUME OpenIdleFails PROVE DispatchInv'
  BY <1>17 DEF OpenIdleFails, envVars, poolVars
<1> QED
  BY <1>0, <1>1, <1>2, <1>3, <1>4, <1>5, <1>6, <1>7, <1>8, <1>9, <1>10, <1>11,
     <1>12, <1>13, <1>14, <1>15, <1>16, <1>17
     DEF Next, AcceptorStep, AcceptorFails, OthersStep

(* The descriptor that close() frees is taken only for what idleFd_ then is,  *)
(* or by another thread, and then idleFd_ is overwritten before its next use. *)
LEMMA IdleInductive == TypeOK /\ ConnInv /\ DispatchInv /\ IdleInv /\ [Next]_vars => IdleInv'
<1> SUFFICES ASSUME TypeOK, ConnInv, DispatchInv, IdleInv, [Next]_vars PROVE IdleInv'
  OBVIOUS
<1> USE AcceptorAssumption DEF TypeOK, ConnInv, DispatchInv, IdleInv, IdleFdIsOurs, Free, Idle, File, NoFd, Fds
<1>0. CASE UNCHANGED vars
  BY <1>0 DEF vars, envVars, poolVars
<1>1. ASSUME PollReturns PROVE IdleInv'
  BY <1>1 DEF PollReturns, poolVars
<1>2. ASSUME AcceptExhausted PROVE IdleInv'
  BY <1>2 DEF AcceptExhausted, envVars, poolVars
<1>3. ASSUME AcceptNothing PROVE IdleInv'
  BY <1>3 DEF AcceptNothing, envVars, poolVars
<1>4. ASSUME AcceptFails PROVE IdleInv'
  BY <1>4 DEF AcceptFails, envVars, poolVars
<1>5. ASSUME NEW c \in Conns, AcceptConn(c) PROVE IdleInv'
  BY <1>5 DEF AcceptConn, IsLowestFree, FreeFds, Allocate, poolVars
<1>6. ASSUME Dispatch PROVE IdleInv'
  BY <1>6 DEF Dispatch, NextLoop, AdvanceNext, envVars
<1>7. ASSUME CloseIdle PROVE IdleInv'
  BY <1>7 DEF CloseIdle, Close, envVars, poolVars
<1>8. ASSUME AcceptIdle PROVE IdleInv'
  BY <1>8 DEF AcceptIdle, IsLowestFree, FreeFds, Allocate, poolVars
<1>9. ASSUME DropIdle PROVE IdleInv'
  BY <1>9 DEF DropIdle, Close, envVars, poolVars
<1>10. ASSUME OpenIdle PROVE IdleInv'
  BY <1>10 DEF OpenIdle, IsLowestFree, FreeFds, Allocate, envVars, poolVars
<1>11. ASSUME OpenFile PROVE IdleInv'
  BY <1>11 DEF OpenFile, IsLowestFree, FreeFds, Allocate, OthersElse, envVars, poolVars
<1>12. ASSUME ReadToEagain PROVE IdleInv'
  BY <1>12 DEF ReadToEagain, OthersElse, envVars, poolVars
<1>13. ASSUME NEW f \in Fds, CloseConn(f) PROVE IdleInv'
  BY <1>13 DEF CloseConn, OthersElse, envVars, poolVars
<1>14. ASSUME NEW f \in Fds, CloseFile(f) PROVE IdleInv'
  BY <1>14 DEF CloseFile, OthersElse, envVars, poolVars
<1>15. ASSUME NEW c \in Conns, Arrive(c) PROVE IdleInv'
  BY <1>15 DEF Arrive, poolVars
<1>16. ASSUME AcceptIdleFails PROVE IdleInv'
  BY <1>16 DEF AcceptIdleFails, envVars, poolVars
<1>17. ASSUME OpenIdleFails PROVE IdleInv'
  BY <1>17 DEF OpenIdleFails, envVars, poolVars
<1> QED
  BY <1>0, <1>1, <1>2, <1>3, <1>4, <1>5, <1>6, <1>7, <1>8, <1>9, <1>10, <1>11,
     <1>12, <1>13, <1>14, <1>15, <1>16, <1>17
     DEF Next, AcceptorStep, AcceptorFails, OthersStep

(* The other loops' work is done by the base loop, outside acceptor().        *)
LEMMA AloneInductive == TypeOK /\ IdleInv /\ AloneInv /\ [Next]_vars => AloneInv'
<1> SUFFICES ASSUME TypeOK, IdleInv, AloneInv, [Next]_vars PROVE AloneInv'
  OBVIOUS
<1> USE AcceptorAssumption DEF TypeOK, IdleInv, IdleFdIsOurs, AloneInv, Full, FreeFds, Free, Idle, File, NoFd, Fds
<1>0. CASE UNCHANGED vars
  BY <1>0 DEF vars, envVars, poolVars
<1>1. ASSUME PollReturns PROVE AloneInv'
  BY <1>1 DEF PollReturns, poolVars, OthersRun
<1>2. ASSUME AcceptExhausted PROVE AloneInv'
  BY <1>2 DEF AcceptExhausted, envVars, poolVars, OthersRun
<1>3. ASSUME AcceptNothing PROVE AloneInv'
  BY <1>3 DEF AcceptNothing, envVars, poolVars, OthersRun
<1>4. ASSUME AcceptFails PROVE AloneInv'
  BY <1>4 DEF AcceptFails, envVars, poolVars, OthersRun
<1>5. ASSUME NEW c \in Conns, AcceptConn(c) PROVE AloneInv'
  BY <1>5 DEF AcceptConn, IsLowestFree, FreeFds, Allocate, poolVars, OthersRun
<1>6. ASSUME Dispatch PROVE AloneInv'
  BY <1>6 DEF Dispatch, NextLoop, AdvanceNext, envVars, OthersRun
<1>7. ASSUME CloseIdle PROVE AloneInv'
  BY <1>7 DEF CloseIdle, Close, envVars, poolVars, OthersRun
<1>8. ASSUME AcceptIdle PROVE AloneInv'
  BY <1>8 DEF AcceptIdle, IsLowestFree, FreeFds, Allocate, poolVars, OthersRun
<1>9. ASSUME DropIdle PROVE AloneInv'
  BY <1>9 DEF DropIdle, Close, envVars, poolVars, OthersRun
<1>10. ASSUME OpenIdle PROVE AloneInv'
  BY <1>10 DEF OpenIdle, IsLowestFree, FreeFds, Allocate, envVars, poolVars, OthersRun
<1>11. ASSUME OpenFile PROVE AloneInv'
  BY <1>11 DEF OpenFile, IsLowestFree, FreeFds, Allocate, OthersElse, envVars, poolVars, OthersRun
<1>12. ASSUME ReadToEagain PROVE AloneInv'
  BY <1>12 DEF ReadToEagain, OthersElse, envVars, poolVars, OthersRun
<1>13. ASSUME NEW f \in Fds, CloseConn(f) PROVE AloneInv'
  BY <1>13 DEF CloseConn, OthersElse, envVars, poolVars, OthersRun
<1>14. ASSUME NEW f \in Fds, CloseFile(f) PROVE AloneInv'
  BY <1>14 DEF CloseFile, OthersElse, envVars, poolVars, OthersRun
<1>15. ASSUME NEW c \in Conns, Arrive(c) PROVE AloneInv'
  BY <1>15 DEF Arrive, poolVars, OthersRun
<1>16. ASSUME AcceptIdleFails PROVE AloneInv'
  BY <1>16 DEF AcceptIdleFails, envVars, poolVars, OthersRun
<1>17. ASSUME OpenIdleFails PROVE AloneInv'
  BY <1>17 DEF OpenIdleFails, envVars, poolVars, OthersRun
<1> QED
  BY <1>0, <1>1, <1>2, <1>3, <1>4, <1>5, <1>6, <1>7, <1>8, <1>9, <1>10, <1>11,
     <1>12, <1>13, <1>14, <1>15, <1>16, <1>17
     DEF Next, AcceptorStep, AcceptorFails, OthersStep

(* acceptor() returns only on EAGAIN, for want of connections, or on errors.  *)
LEMMA BacklogInductive == NoStrandedBacklog /\ [Next]_vars => NoStrandedBacklog'
<1> SUFFICES ASSUME NoStrandedBacklog, [Next]_vars PROVE NoStrandedBacklog'
  OBVIOUS
<1> USE DEF NoStrandedBacklog
<1>0. CASE UNCHANGED vars
  BY <1>0 DEF vars, envVars, poolVars
<1>1. ASSUME PollReturns PROVE NoStrandedBacklog'
  BY <1>1 DEF PollReturns, poolVars
<1>2. ASSUME AcceptExhausted PROVE NoStrandedBacklog'
  BY <1>2 DEF AcceptExhausted, envVars, poolVars
<1>3. ASSUME AcceptNothing PROVE NoStrandedBacklog'
  BY <1>3 DEF AcceptNothing, envVars, poolVars
<1>4. ASSUME AcceptFails PROVE NoStrandedBacklog'
  BY <1>4 DEF AcceptFails, envVars, poolVars
<1>5. ASSUME NEW c \in Conns, AcceptConn(c) PROVE NoStrandedBacklog'
  BY <1>5 DEF AcceptConn, IsLowestFree, FreeFds, Allocate, poolVars
<1>6. ASSUME Dispatch PROVE NoStrandedBacklog'
  BY <1>6 DEF Dispatch, NextLoop, AdvanceNext, envVars
<1>7. ASSUME CloseIdle PROVE NoStrandedBacklog'
  BY <1>7 DEF CloseIdle, Close, envVars, poolVars
<1>8. ASSUME AcceptIdle PROVE NoStrandedBacklog'
  BY <1>8 DEF AcceptIdle, IsLowestFree, FreeFds, Allocate, poolVars
<1>9. ASSUME DropIdle PROVE NoStrandedBacklog'
  BY <1>9 DEF DropIdle, Close, envVars, poolVars
<1>10. ASSUME OpenIdle PROVE NoStrandedBacklog'
  BY <1>10 DEF OpenIdle, IsLowestFree, FreeFds, Allocate, envVars, poolVars
<1>11. ASSUME OpenFile PROVE NoStrandedBacklog'
  BY <1>11 DEF OpenFile, IsLowestFree, FreeFds, Allocate, OthersElse, envVars, poolVars
<1>12. ASSUME ReadToEagain PROVE NoStrandedBacklog'
  BY <1>12 DEF ReadToEagain, OthersElse, envVars, poolVars
<1>13. ASSUME NEW f \in Fds, CloseConn(f) PROVE NoStrandedBacklog'
  BY <1>13 DEF CloseConn, OthersElse, envVars, poolVars
<1>14. ASSUME NEW f \in Fds, CloseFile(f) PROVE NoStrandedBacklog'
  BY <1>14 DEF CloseFile, OthersElse, envVars, poolVars
<1>15. ASSUME NEW c \in Conns, Arrive(c) PROVE NoStrandedBacklog'
  BY <1>15 DEF Arrive, poolVars
<1>16. ASSUME AcceptIdleFails PROVE NoStrandedBacklog'
  BY <1>16 DEF AcceptIdleFails, envVars, poolVars
<1>17. ASSUME OpenIdleFails PROVE NoStrandedBacklog'
  BY <1>17 DEF OpenIdleFails, envVars, poolVars
<1> QED
  BY <1>0, <1>1, <1>2, <1>3, <1>4, <1>5, <1>6, <1>7, <1>8, <1>9, <1>10, <1>11,
     <1>12, <1>13, <1>14, <1>15, <1>16, <1>17
     DEF Next, AcceptorStep, AcceptorFails, OthersStep

-----------------------------------------------------------------------------
(* Round robin: Dispatch adds one to the load of next_ and nothing else does. *)
LEMMA LoadType == \A i : Load(i) \in Nat
<1> TAKE i
<1> DEFINE L == {c \in Conns : home[c] = i}
<1>1. IsFiniteSet(L)
  BY AcceptorAssumption, FS_Subset
<1> QED
  BY <1>1, FS_CardinalityType DEF Load

LEMMA DispatchLoads ==
  ASSUME TypeOK, DispatchInv, Dispatch, NEW i \in LoopIndices
  PROVE  Load(i)' = IF i = NextLoop THEN Load(i) + 1 ELSE Load(i)
<1> DEFINE c == fdTable[connfd]
           L == {d \in Conns : home[d] = i}
<1>1. /\ c \in Conns /\ home[c] = None /\ i # None
      /\ home' = [home EXCEPT ![c] = NextLoop]
  BY AcceptorAssumption DEF TypeOK, DispatchInv, Dispatch, LoopIndices, None
<1>2. IsFiniteSet(L) /\ c \notin L
  BY <1>1, AcceptorAssumption, FS_Subset
<1>3. {d \in Conns : home'[d] = i} = IF i = NextLoop THEN L \cup {c} ELSE L
  BY <1>1 DEF TypeOK
<1>4. Cardinality(L \cup {c}) = Cardinality(L) + 1
  BY <1>2, FS_AddElement
<1> QED
  BY <1>3, <1>4 DEF Load

LEMMA RoundRobinInductive ==
  TypeOK /\ DispatchInv /\ RoundRobin /\ [Next]_vars => RoundRobin'
<1> SUFFICES ASSUME TypeOK, DispatchInv, RoundRobin, [Next]_vars PROVE RoundRobin'
  OBVIOUS
<1>1. CASE UNCHANGED poolVars
  BY <1>1 DEF poolVars, RoundRobin, Load, LoopIndices
<1>2. CASE Dispatch
  <2> SUFFICES ASSUME NEW i \in LoopIndices, NEW j \in LoopIndices, i <= j
               PROVE  Load(i)' = Load(j)' + (IF i < next_' /\ next_' <= j THEN 1 ELSE 0)
    BY <1>2 DEF RoundRobin, Dispatch, LoopIndices
  <2>1. /\ Load(i)' = IF i = next_ THEN Load(i) + 1 ELSE Load(i)
        /\ Load(j)' = IF j = next_ THEN Load(j) + 1 ELSE Load(j)
    BY <1>2, DispatchLoads DEF LoopIndices, NextLoop, TypeOK
  <2>2. Load(i) \in Nat /\ Load(j) \in Nat
    BY LoadType
  <2>3. Load(i) = Load(j) + (IF i < next_ /\ next_ <= j THEN 1 ELSE 0)
    BY DEF RoundRobin
  <2>4. /\ i \in Nat /\ j \in Nat /\ next_ \in Nat /\ numLoops \in Nat
        /\ j < numLoops /\ next_ < numLoops
    BY AcceptorAssumption DEF LoopIndices, TypeOK
  <2>5. next_' = IF next_ + 1 >= numLoops THEN 0 ELSE next_ + 1
    BY <1>2, <2>4 DEF Dispatch, AdvanceNext
  <2> QED
    BY <2>1, <2>2, <2>3, <2>4, <2>5
<1> QED
  BY <1>1, <1>2
     DEF Next, vars, AcceptorStep, OthersStep, PollReturns, AcceptExhausted,
         AcceptNothing, AcceptorFails, AcceptFails, AcceptIdleFails, OpenIdleFails,
         AcceptConn, CloseIdle, AcceptIdle, DropIdle, OpenIdle, OpenFile, ReadToEagain, CloseConn, CloseFile, Arrive, OthersElse,
         poolVars

-----------------------------------------------------------------------------
LEMMA InitIInv == Init => IInv
<1> SUFFICES ASSUME Init PROVE IInv
  OBVIOUS
<1>1. TypeOK
  <2>1. fdTable \in [Fds -> {Free, Idle, File} \cup Conns]
    BY DEF Init
  <2>2. home \in [Conns -> LoopIndices \cup {None, Base}]
    BY DEF Init
  <2>3. idleFd_ \in Fds \cup {NoFd}
    BY AcceptorAssumption DEF Init, Fds
  <2> QED
    BY <2>1, <2>2, <2>3 DEF Init, TypeOK, Pcs, Errnos
<1>2. ConnInv /\ DispatchInv
  BY AcceptorAssumption DEF Init, ConnInv, DispatchInv, Free, Idle, File
<1>3. IdleInv /\ AloneInv /\ NoStrandedBacklog
  BY AcceptorAssumption
     DEF Init, IdleInv, IdleFdIsOurs, AloneInv, NoStrandedBacklog, Fds, NoFd, Free, Idle
<1>4. RoundRobin
  <2>1. \A i \in LoopIndices : Load(i) = 0
    <3> TAKE i \in LoopIndices
    <3>1. {c \in Conns : home[c] = i} = {}
      BY DEF Init, LoopIndices, None
    <3> QED
      BY <3>1, FS_EmptySet DEF Load
  <2>2. next_ = 0
    BY DEF Init
  <2> QED
    BY <2>1, <2>2 DEF RoundRobin, LoopIndices
<1> QED
  BY <1>1, <1>2, <1>3, <1>4 DEF IInv

LEMMA Invariance == Spec => []IInv
<1>1. IInv /\ [Next]_vars => IInv'
  BY TypeInductive, ConnInductive, DispatchInductive, IdleInductive, AloneInductive,
     BacklogInductive, RoundRobinInductive
     DEF IInv
<1> QED
  BY <1>1, InitIInv, PTL DEF Spec

(* TypeOK holds for any table and any number of loops.                        *)
THEOREM TypeCorrect == Spec => []TypeOK
BY Invariance, PTL DEF IInv

(* What acceptor() closes is never another thread's descriptor.               *)
THEOREM IdleFdIsOursHolds == Spec => []IdleFdIsOurs
<1>1. IInv => IdleFdIsOurs
  BY DEF IInv, IdleInv
<1> QED
  BY <1>1, Invariance, PTL

(* At most one /dev/null is open.                                             *)
THEOREM OneIdleFdHolds == Spec => []OneIdleFd
<1>1. IInv => OneIdleFd
  BY DEF IInv, IdleInv, OneIdleFd
<1> QED
  BY <1>1, Invariance, PTL

(* A server with one thread gets its idle descriptor back, unless the open()  *)
(* of /dev/null fails with a slot free.                                       *)
THEOREM IdleFdKeptHolds == Spec => []IdleFdKept
<1>1. IInv => IdleFdKept
  BY DEF IInv, AloneInv, IdleFdKept
<1> QED
  BY <1>1, Invariance, PTL

(* Connections are spread evenly, for every number of loops.                  *)
THEOREM RoundRobinHolds == Spec => []RoundRobin
BY Invariance, PTL DEF IInv

(* acceptor() returns to the poll only when no connection waits, or on an     *)
(* error other than EMFILE.                                                   *)
THEOREM NoStrandedBacklogHolds == Spec => []NoStrandedBacklog
BY Invariance, PTL DEF IInv

-----------------------------------------------------------------------------
(* What a step of acceptor() may do to the descriptors.                       *)

(* connfd holds a descriptor only until it is dispatched or lost, and a stale *)
(* idleFd_ names nothing but a slot another thread may have taken for a file. *)
HeldInv ==
  /\ connfd # NoFd => pc \in {"dispatch", "close"}
  /\ pc = "close" => errno = "EMFILE"
  /\ pc \in {"acceptIdle", "open"} /\ idleFd_ # NoFd => fdTable[idleFd_] \in {Free, File}

LEMMA HeldInductive == IInv /\ HeldInv /\ [Next]_vars => HeldInv'
<1> SUFFICES ASSUME IInv, HeldInv, [Next]_vars PROVE HeldInv'
  OBVIOUS
<1> USE AcceptorAssumption
    DEF IInv, TypeOK, IdleInv, IdleFdIsOurs, HeldInv, Free, Idle, File, NoFd, Fds
<1>0. CASE UNCHANGED vars
  BY <1>0 DEF vars, envVars, poolVars
<1>1. ASSUME PollReturns PROVE HeldInv'
  BY <1>1 DEF PollReturns, poolVars
<1>2. ASSUME AcceptExhausted PROVE HeldInv'
  BY <1>2 DEF AcceptExhausted, envVars, poolVars
<1>3. ASSUME AcceptNothing PROVE HeldInv'
  BY <1>3 DEF AcceptNothing, envVars, poolVars
<1>4. ASSUME AcceptFails PROVE HeldInv'
  BY <1>4 DEF AcceptFails, envVars, poolVars
<1>5. ASSUME NEW c \in Conns, AcceptConn(c) PROVE HeldInv'
  BY <1>5 DEF AcceptConn, IsLowestFree, FreeFds, Allocate, poolVars
<1>6. ASSUME Dispatch PROVE HeldInv'
  BY <1>6 DEF Dispatch, NextLoop, AdvanceNext, envVars
<1>7. ASSUME CloseIdle PROVE HeldInv'
  BY <1>7 DEF CloseIdle, Close, envVars, poolVars
<1>8. ASSUME AcceptIdle PROVE HeldInv'
  BY <1>8 DEF AcceptIdle, IsLowestFree, FreeFds, Allocate, poolVars
<1>9. ASSUME DropIdle PROVE HeldInv'
  BY <1>9 DEF DropIdle, Close, envVars, poolVars
<1>10. ASSUME OpenIdle PROVE HeldInv'
  BY <1>10 DEF OpenIdle, IsLowestFree, FreeFds, Allocate, envVars, poolVars
<1>11. ASSUME OpenFile PROVE HeldInv'
  BY <1>11 DEF OpenFile, IsLowestFree, FreeFds, Allocate, OthersElse, envVars, poolVars, OthersRun
<1>12. ASSUME ReadToEagain PROVE HeldInv'
  BY <1>12 DEF ReadToEagain, OthersElse, envVars, poolVars
<1>13. ASSUME NEW f \in Fds, CloseConn(f) PROVE HeldInv'
  BY <1>13 DEF CloseConn, OthersElse, envVars, poolVars
<1>14. ASSUME NEW f \in Fds, CloseFile(f) PROVE HeldInv'
  BY <1>14 DEF CloseFile, OthersElse, envVars, poolVars
<1>15. ASSUME NEW c \in Conns, Arrive(c) PROVE HeldInv'
  BY <1>15 DEF Arrive, poolVars
<1>16. ASSUME AcceptIdleFails PROVE HeldInv'
  BY <1>16 DEF AcceptIdleFails, envVars, poolVars
<1>17. ASSUME OpenIdleFails PROVE HeldInv'
  BY <1>17 DEF OpenIdleFails, envVars, poolVars
<1> QED
  BY <1>0, <1>1, <1>2, <1>3, <1>4, <1>5, <1>6, <1>7, <1>8, <1>9, <1>10, <1>11,
     <1>12, <1>13, <1>14, <1>15, <1>16, <1>17
     DEF Next, AcceptorStep, AcceptorFails, OthersStep

LEMMA HeldInvariance == Spec => [](IInv /\ HeldInv)
<1>1. Init => HeldInv
  BY DEF Init, HeldInv
<1> QED
  BY <1>1, HeldInductive, Invariance, PTL DEF Spec

(* The system calls of acceptor() change no descriptor that another thread    *)
(* may own: a free one, the /dev/null, or a connection without a loop.        *)
OthersLeftAlone ==
  AcceptorStep \/ AcceptorFails =>
    \A f \in Fds : fdTable'[f] # fdTable[f] =>
       \/ fdTable[f] \in {Free, Idle}
       \/ fdTable[f] \in Conns /\ home[fdTable[f]] = None

LEMMA LeavesOthersAlone == IInv /\ [Next]_vars => OthersLeftAlone
<1> SUFFICES ASSUME IInv, AcceptorStep \/ AcceptorFails,
                    NEW g \in Fds, fdTable'[g] # fdTable[g]
             PROVE  \/ fdTable[g] \in {Free, Idle}
                    \/ fdTable[g] \in Conns /\ home[fdTable[g]] = None
  BY DEF OthersLeftAlone
<1> DEFINE Ours == \/ fdTable[g] \in {Free, Idle}
                   \/ fdTable[g] \in Conns /\ home[fdTable[g]] = None
<1> USE DEF IInv, TypeOK, IdleInv, IdleFdIsOurs
<1>1. CASE PollReturns \/ AcceptExhausted \/ AcceptNothing \/ AcceptorFails \/ Dispatch
  BY <1>1 DEF PollReturns, AcceptExhausted, AcceptNothing, AcceptorFails, AcceptFails,
              AcceptIdleFails, OpenIdleFails, Dispatch
<1>2. ASSUME NEW c \in Conns, AcceptConn(c) PROVE Ours
  BY <1>2 DEF AcceptConn, IsLowestFree, FreeFds, Allocate
<1>3. CASE CloseIdle
  BY <1>3 DEF CloseIdle, Close
<1>4. CASE AcceptIdle
  BY <1>4 DEF AcceptIdle, IsLowestFree, FreeFds, Allocate
<1>5. CASE DropIdle
  BY <1>5 DEF DropIdle, Close
<1>6. CASE OpenIdle
  BY <1>6 DEF OpenIdle, IsLowestFree, FreeFds, Allocate
<1> QED
  BY <1>1, <1>2, <1>3, <1>4, <1>5, <1>6 DEF AcceptorStep

(* No step of acceptor() touches a file or a connection of another loop, in   *)
(* whatever order the other threads open and close descriptors.               *)
THEOREM OthersLeftAloneHolds == Spec => [][OthersLeftAlone]_vars
BY LeavesOthersAlone, Invariance, PTL DEF Spec

(* A connection keeps the loop it was queued to.                              *)
HomeIsForGood == \A c \in Conns : home[c] # None => home'[c] = home[c]

LEMMA StaysHome == IInv /\ [Next]_vars => HomeIsForGood
<1> SUFFICES ASSUME IInv, [Next]_vars PROVE HomeIsForGood
  OBVIOUS
<1>1. CASE UNCHANGED poolVars
  BY <1>1 DEF poolVars, HomeIsForGood
<1>2. CASE Dispatch
  BY <1>2 DEF Dispatch, HomeIsForGood, IInv, TypeOK, DispatchInv
<1> QED
  BY <1>1, <1>2
     DEF Next, vars, AcceptorStep, OthersStep, PollReturns, AcceptExhausted,
         AcceptNothing, AcceptorFails, AcceptFails, AcceptIdleFails, OpenIdleFails,
         AcceptConn, CloseIdle, AcceptIdle, DropIdle, OpenIdle, OpenFile, ReadToEagain, CloseConn, CloseFile, Arrive, OthersElse,
         poolVars

(* A connection is never handed to a second loop.                             *)
THEOREM HomeIsForGoodHolds == Spec => [][HomeIsForGood]_vars
BY StaysHome, Invariance, PTL DEF Spec

(* A descriptor of a connection that acceptor() still has to dispatch or to   *)
(* drop.                                                                      *)
Held(f) == fdTable[f] \in Conns /\ home[fdTable[f]] = None /\ f \in {connfd, idleFd_}

(* acceptor() loses a descriptor in one place: a connection accepted with     *)
(* EMFILE left in errno (HttpServer.cc:86).  Else it goes on to hold it,      *)
(* closes it, or queues the connection to a loop.                             *)
LostOnlyAfterEmfile ==
  \A f \in Fds : Held(f) =>
     \/ Held(f)' \/ fdTable'[f] = Free
     \/ fdTable'[f] = fdTable[f] /\ home'[fdTable[f]] # None
     \/ pc = "close" /\ errno = "EMFILE" /\ f = connfd

LEMMA LosesOnlyAfterEmfile == IInv /\ HeldInv /\ [Next]_vars => LostOnlyAfterEmfile
<1> SUFFICES ASSUME IInv, HeldInv, [Next]_vars PROVE LostOnlyAfterEmfile
  OBVIOUS
<1> USE AcceptorAssumption
    DEF IInv, TypeOK, IdleInv, IdleFdIsOurs, DispatchInv, HeldInv, Held,
        LostOnlyAfterEmfile, Free, Idle, File, NoFd, Fds
<1>0. CASE UNCHANGED vars
  BY <1>0 DEF vars, envVars, poolVars
<1>1. ASSUME PollReturns PROVE LostOnlyAfterEmfile
  BY <1>1 DEF PollReturns, poolVars
<1>2. ASSUME AcceptExhausted PROVE LostOnlyAfterEmfile
  BY <1>2 DEF AcceptExhausted, envVars, poolVars
<1>3. ASSUME AcceptNothing PROVE LostOnlyAfterEmfile
  BY <1>3 DEF AcceptNothing, envVars, poolVars
<1>4. ASSUME AcceptFails PROVE LostOnlyAfterEmfile
  BY <1>4 DEF AcceptFails, envVars, poolVars
<1>5. ASSUME NEW c \in Conns, AcceptConn(c) PROVE LostOnlyAfterEmfile
  BY <1>5 DEF AcceptConn, IsLowestFree, FreeFds, Allocate, poolVars
<1>6. ASSUME Dispatch PROVE LostOnlyAfterEmfile
  BY <1>6 DEF Dispatch, NextLoop, AdvanceNext, envVars, LoopIndices, None, Base
<1>7. ASSUME CloseIdle PROVE LostOnlyAfterEmfile
  BY <1>7 DEF CloseIdle, Close, envVars, poolVars
<1>8. ASSUME AcceptIdle PROVE LostOnlyAfterEmfile
  BY <1>8 DEF AcceptIdle, IsLowestFree, FreeFds, Allocate, poolVars
<1>9. ASSUME DropIdle PROVE LostOnlyAfterEmfile
  BY <1>9 DEF DropIdle, Close, envVars, poolVars
<1>10. ASSUME OpenIdle PROVE LostOnlyAfterEmfile
  BY <1>10 DEF OpenIdle, IsLowestFree, FreeFds, Allocate, envVars, poolVars
<1>11. ASSUME OpenFile PROVE LostOnlyAfterEmfile
  BY <1>11 DEF OpenFile, IsLowestFree, FreeFds, Allocate, OthersElse, envVars, poolVars, OthersRun
<1>12. ASSUME ReadToEagain PROVE LostOnlyAfterEmfile
  BY <1>12 DEF ReadToEagain, OthersElse, envVars, poolVars
<1>13. ASSUME NEW f \in Fds, CloseConn(f) PROVE LostOnlyAfterEmfile
  BY <1>13 DEF CloseConn, OthersElse, envVars, poolVars
<1>14. ASSUME NEW f \in Fds, CloseFile(f) PROVE LostOnlyAfterEmfile
  BY <1>14 DEF CloseFile, OthersElse, envVars, poolVars
<1>15. ASSUME NEW c \in Conns, Arrive(c) PROVE LostOnlyAfterEmfile
  BY <1>15 DEF Arrive, poolVars
<1>16. ASSUME AcceptIdleFails PROVE LostOnlyAfterEmfile
  BY <1>16 DEF AcceptIdleFails, envVars, poolVars
<1>17. ASSUME OpenIdleFails PROVE LostOnlyAfterEmfile
  BY <1>17 DEF OpenIdleFails, envVars, poolVars
<1> QED
  BY <1>0, <1>1, <1>2, <1>3, <1>4, <1>5, <1>6, <1>7, <1>8, <1>9, <1>10, <1>11,
     <1>12, <1>13, <1>14, <1>15, <1>16, <1>17
     DEF Next, AcceptorStep, AcceptorFails, OthersStep

(* The leak that run acceptor_leak shows is the only one.                     *)
THEOREM LostOnlyAfterEmfileHolds == Spec => [][LostOnlyAfterEmfile]_vars
BY LosesOnlyAfterEmfile, HeldInvariance, PTL DEF Spec
=============================================================================
