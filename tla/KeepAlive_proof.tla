---------------------------- MODULE KeepAlive_proof ----------------------------
(* HttpLoop implements KeepAlive, for any number of connections and any       *)
(* expiry time: a step of the loop opens a connection, sets its clock, closes *)
(* it, closes all those whose clock has run down, or is none of KeepAlive's.  *)
EXTENDS HttpLoop_proof

(* The clock of a connection is in the entry that names it, whichever way it  *)
(* is found; L is the list before a step, or after it.                        *)
LEMMA ClockIsInEntry ==
  ASSUME NEW L, NEW i \in DOMAIN L, NEW c, L[i].ch = c,
         \A j, k \in DOMAIN L : L[j].ch = L[k].ch => j = k
  PROVE  (CHOOSE j \in DOMAIN L : L[j].ch = c) = i
OBVIOUS

(* The clocks before a step, and after it, by the entries of the list.        *)
LEMMA ClocksNow ==
  ASSUME TypeOK, KeepAliveNodes
  PROVE  /\ DOMAIN Clocks = keepAliveSet_
         /\ \A c \in keepAliveSet_ :
              \E i \in 1 .. Len(keepAliveList_) :
                 keepAliveList_[i].ch = c /\ Clocks[c] = keepAliveList_[i].ttl
         /\ \A i \in 1 .. Len(keepAliveList_) :
              keepAliveList_[i].ch \in keepAliveSet_
                => Clocks[keepAliveList_[i].ch] = keepAliveList_[i].ttl
<1>1. DOMAIN keepAliveList_ = 1 .. Len(keepAliveList_)
  BY LenProperties DEF TypeOK
<1>2. ASSUME NEW i \in 1 .. Len(keepAliveList_), keepAliveList_[i].ch \in keepAliveSet_
      PROVE  Clocks[keepAliveList_[i].ch] = keepAliveList_[i].ttl
  <2>1. TimerNode(keepAliveList_[i].ch) = i
    BY <1>1, ClockIsInEntry DEF TimerNode, KeepAliveNodes
  <2> QED
    BY <1>2, <2>1 DEF Clocks
<1>3. ASSUME NEW c \in keepAliveSet_
      PROVE  \E i \in 1 .. Len(keepAliveList_) :
                keepAliveList_[i].ch = c /\ Clocks[c] = keepAliveList_[i].ttl
  <2>1. PICK i \in 1 .. Len(keepAliveList_) : keepAliveList_[i].ch = c
    BY <1>1 DEF KeepAliveNodes
  <2> QED
    BY <1>2, <2>1
<1>4. DOMAIN Clocks = keepAliveSet_
  BY DEF Clocks
<1> QED
  BY <1>2, <1>3, <1>4

LEMMA ClocksAfter ==
  ASSUME TypeOK', KeepAliveNodes', NEW c \in keepAliveSet_',
         NEW i \in 1 .. Len(keepAliveList_'), keepAliveList_'[i].ch = c
  PROVE  Clocks'[c] = keepAliveList_'[i].ttl
<1>1. DOMAIN keepAliveList_' = 1 .. Len(keepAliveList_')
  BY LenProperties DEF TypeOK
<1>2. (CHOOSE j \in DOMAIN keepAliveList_' : keepAliveList_'[j].ch = c) = i
  BY <1>1, ClockIsInEntry DEF KeepAliveNodes
<1> QED
  BY <1>2 DEF Clocks, TimerNode

(* The timer's channel is handled in the batch that brought its event.        *)
TimerInv == loopPc \in {"poll", "functors"} => ~timerReady

LEMMA TimerInductive == TimerInv /\ [Next]_vars => TimerInv'
<1> SUFFICES ASSUME TimerInv, [Next]_vars PROVE TimerInv'
  OBVIOUS
<1>1. CASE UNCHANGED <<loopPc, timerReady>>
  BY <1>1 DEF TimerInv
<1>2. CASE loopPc' \in {"dispatch", "write", "handler", "crashed", "parsing"}
  BY <1>2 DEF TimerInv
<1>3. CASE HandleExpireEvent \/ EndBatch \/ EndFunctors
  BY <1>3 DEF TimerInv, HandleExpireEvent, EndBatch, EndFunctors
<1>4. ASSUME NEW c \in Conns, PeerStep(c) \/ AddHttpConnection(c)
      PROVE  UNCHANGED <<loopPc, timerReady>>
  BY <1>4 DEF PeerStep, Accept, PeerSends, PeerShutsDown, PeerResets, PeerDrains,
     PeerVarsElse, AddHttpConnection, loopVars
<1>5. ASSUME NEW c \in Conns, ChannelStep(c)
      PROVE  loopPc' \in {"dispatch", "write", "handler", "crashed", "parsing"}
  BY <1>5 DEF ChannelStep, HandleError, HandleRead, ReadFails, ReadNothing, ReadToEof,
     ReadData, EmptySocket, AfterRead, SkipRead, HandleWrite, WriteFails, WriteSome,
     WriteAll, HandleHttpReq, RespondAndClose, RespondToShutdown, RespondAndKeep,
     Respond, ParseForever, SkipHandler, UseAfterFree, ChannelDone, GoTo
<1>6. CASE Poll \/ PollTimer \/ Tick \/ UNCHANGED vars
  BY <1>6, <1>1, <1>2 DEF Poll, PollTimer, PollReturns, Tick, loopVars, vars
<1> QED
  BY <1>1, <1>2, <1>3, <1>4, <1>5, <1>6 DEF Next, LoopStep

-----------------------------------------------------------------------------
(* handleClose stops the clock of a connection.                               *)
LEMMA CloseRefines ==
  ASSUME NEW c \in httpMap, HandleClose({c}), TypeOK,
         UNCHANGED <<keepAliveList_, fresh, pendingConns_, timerReady>>
  PROVE  Promise!Close(c)
<1>1. Clocks' = [d \in keepAliveSet_ \ {c} |-> Clocks[d]]
  BY DEF HandleClose, Clocks, TimerNode
<1>2. DOMAIN Clocks = keepAliveSet_
  BY DEF Clocks
<1> QED
  BY <1>1, <1>2 DEF HandleClose, Promise!Close, Promise!Untimed, Promise!Timed

(* flushKeepAlive sets one clock, wherever the other entries move to.         *)
LEMMA RefreshRefines ==
  ASSUME NEW c \in httpMap, FlushKeepAlive(c), TypeOK, KeepAliveNodes,
         TypeOK', KeepAliveNodes',
         UNCHANGED <<httpMap, fresh, pendingConns_, timerReady>>
  PROVE  Promise!Refresh(c)
<1> DEFINE m == Len(keepAliveList_')
<1>1. /\ m \in Nat \ {0} /\ DOMAIN keepAliveList_' = 1 .. m
      /\ keepAliveList_'[m] = [ch |-> c, ttl |-> ExpireTicks]
      /\ \A i \in 1 .. m - 1 :
           /\ Before(i, c) \in 1 .. Len(keepAliveList_)
           /\ keepAliveList_'[i] = keepAliveList_[Before(i, c)]
  <2>1. c \in Conns
    BY DEF TypeOK
  <2>2. m \in Nat /\ m = IF c \in keepAliveSet_ THEN Len(keepAliveList_)
                                                ELSE Len(keepAliveList_) + 1
    BY <2>1, ListAfterFlush
  <2>3. Len(keepAliveList_) \in Nat
    BY LenProperties DEF TypeOK
  <2>4. c \in keepAliveSet_ => TimerNode(c) \in 1 .. Len(keepAliveList_)
    BY TimerNodeIsValid
  <2>5. m # 0
    BY <2>2, <2>3, <2>4
  <2> QED
    BY <2>1, <2>2, <2>5, ListAfterFlush
<1>2. keepAliveSet_' = keepAliveSet_ \cup {c}
  BY DEF FlushKeepAlive
<1>3. Clocks'[c] = ExpireTicks
  <2>1. m \in 1 .. m /\ keepAliveList_'[m].ch = c /\ c \in keepAliveSet_'
    BY <1>1, <1>2
  <2>2. Clocks'[c] = keepAliveList_'[m].ttl
    BY <2>1, ClocksAfter
  <2> QED
    BY <1>1, <2>2
<1>4. ASSUME NEW d \in keepAliveSet_, d # c PROVE Clocks'[d] = Clocks[d]
  <2>1. PICK i \in 1 .. m : keepAliveList_'[i].ch = d
    BY <1>1, <1>2 DEF KeepAliveNodes
  <2>2. i \in 1 .. m - 1
    BY <1>1, <1>4, <2>1
  <2>3. Clocks'[d] = keepAliveList_'[i].ttl
    BY <1>2, <2>1, ClocksAfter
  <2>4. /\ Before(i, c) \in 1 .. Len(keepAliveList_)
        /\ keepAliveList_'[i] = keepAliveList_[Before(i, c)]
    BY <1>1, <2>2
  <2>5. Clocks[d] = keepAliveList_[Before(i, c)].ttl
    BY <2>1, <2>4, ClocksNow
  <2> QED
    BY <2>3, <2>4, <2>5
<1>5. Clocks' = [d \in keepAliveSet_ \cup {c} |-> IF d = c THEN ExpireTicks ELSE Clocks[d]]
  <2>1. Clocks' = [d \in keepAliveSet_' |-> Clocks'[d]]
    BY DEF Clocks
  <2> QED
    BY <1>2, <1>3, <1>4, <2>1
<1>6. DOMAIN Clocks = keepAliveSet_
  BY DEF Clocks
<1> QED
  BY <1>5, <1>6 DEF Promise!Refresh, Promise!Timed

(* The time that passes for the list passes for every clock.                  *)
LEMMA TickRefines ==
  ASSUME Tick, TypeOK, KeepAliveNodes, TypeOK', KeepAliveNodes'
  PROVE  Promise!Tick \/ UNCHANGED Promise!vars
<1>1. UNCHANGED <<keepAliveSet_, httpMap, fresh, pendingConns_, timerReady>>
  BY DEF Tick, loopVars
<1>2. ASSUME NEW c \in keepAliveSet_
      PROVE  Clocks'[c] = IF Clocks[c] = 0 THEN 0 ELSE Clocks[c] - 1
  <2>1. PICK i \in 1 .. Len(keepAliveList_) :
          keepAliveList_[i].ch = c /\ Clocks[c] = keepAliveList_[i].ttl
    BY ClocksNow
  <2>2. keepAliveList_[i] \in Nodes
    BY <2>1, ElementOfSeq DEF TypeOK
  <2>3. keepAliveList_'[i] = Aged(keepAliveList_[i]) /\ i \in 1 .. Len(keepAliveList_')
    BY ListAfterTick
  <2>4. /\ keepAliveList_'[i].ch = c
        /\ keepAliveList_'[i].ttl = IF Clocks[c] = 0 THEN 0 ELSE Clocks[c] - 1
    BY <2>1, <2>2, <2>3 DEF Aged, Nodes
  <2>5. Clocks'[c] = keepAliveList_'[i].ttl
    BY <1>1, <2>3, <2>4, ClocksAfter
  <2> QED
    BY <2>4, <2>5
<1>3. Clocks' = [c \in keepAliveSet_ |-> IF Clocks[c] = 0 THEN 0 ELSE Clocks[c] - 1]
  <2>1. Clocks' = [c \in keepAliveSet_' |-> Clocks'[c]]
    BY DEF Clocks
  <2> QED
    BY <1>1, <1>2, <2>1
<1>4. DOMAIN Clocks = keepAliveSet_ /\ Clocks = [c \in keepAliveSet_ |-> Clocks[c]]
  BY DEF Clocks
<1>5. CASE \A c \in keepAliveSet_ : Clocks[c] = 0
  <2>1. Clocks' = Clocks
    BY <1>3, <1>4, <1>5
  <2> QED
    BY <1>1, <2>1 DEF Promise!vars
<1>6. CASE \E c \in keepAliveSet_ : Clocks[c] # 0
  BY <1>1, <1>3, <1>4, <1>6 DEF Promise!Tick, Promise!Timed, Promise!Expired
<1> QED
  BY <1>5, <1>6

(* The entries the walk takes, in a list in expiry order, are those of the    *)
(* connections whose clocks have run down, and stale ones.                    *)
LEMMA PrefixIsExpired ==
  ASSUME TypeOK, KeepAliveNodes, ListInExpiryOrder
  PROVE  Expired = {c \in keepAliveSet_ : Clocks[c] = 0}
<1>1. /\ Len(keepAliveList_) \in Nat
      /\ DOMAIN keepAliveList_ = 1 .. Len(keepAliveList_)
      /\ \A i \in 1 .. Len(keepAliveList_) : keepAliveList_[i] \in Nodes
  BY LenProperties, ElementOfSeq DEF TypeOK
<1>2. ASSUME NEW i \in 1 .. Len(keepAliveList_)
      PROVE  i \in ExpiredPrefix <=> keepAliveList_[i].ttl = 0
  <2>1. ASSUME i \in ExpiredPrefix PROVE keepAliveList_[i].ttl = 0
    <3>1. i \in 1 .. i
      OBVIOUS
    <3> QED
      BY <2>1, <3>1 DEF ExpiredPrefix
  <2>2. ASSUME keepAliveList_[i].ttl = 0, NEW j \in 1 .. i
        PROVE  keepAliveList_[j].ttl = 0
    <3>1. j \in 1 .. Len(keepAliveList_) /\ (j = i \/ j < i)
      OBVIOUS
    <3>2. keepAliveList_[j].ttl <= 0
      BY <1>1, <2>2, <3>1 DEF ListInExpiryOrder
    <3> QED
      BY <1>1, <3>1, <3>2 DEF Nodes
  <2> QED
    BY <1>1, <2>1, <2>2 DEF ExpiredPrefix
<1>3. ExpiredPrefix \subseteq 1 .. Len(keepAliveList_)
  BY <1>1 DEF ExpiredPrefix
<1> QED
  BY <1>2, <1>3, ClocksNow DEF Expired

(* handleExpireEvent closes them, and leaves the other clocks as they are.    *)
LEMMA ExpireRefines ==
  ASSUME HandleExpireEvent, TypeOK, KeepAliveNodes, ListInExpiryOrder,
         TypeOK', KeepAliveNodes'
  PROVE  Promise!Expire
<1> DEFINE n == Len(keepAliveList_)
           k == Cardinality(ExpiredPrefix)
           expired == {c \in keepAliveSet_ : Clocks[c] = 0}
<1>1. /\ httpMap' = httpMap \ expired /\ keepAliveSet_' = keepAliveSet_ \ expired
      /\ UNCHANGED <<fresh, pendingConns_>>
  BY PrefixIsExpired, ExpiryCloses DEF HandleExpireEvent, HandleClose
<1>2. /\ n \in Nat /\ k \in 0 .. n /\ Len(keepAliveList_') = n - k
      /\ DOMAIN keepAliveList_' = 1 .. n - k
      /\ \A i \in 1 .. n - k : keepAliveList_'[i] = keepAliveList_[k + i]
  BY ListAfterExpiry, LenProperties DEF TypeOK
<1>3. ASSUME NEW c \in keepAliveSet_' PROVE Clocks'[c] = Clocks[c]
  <2>1. PICK i \in 1 .. n - k : keepAliveList_'[i].ch = c
    BY <1>2 DEF KeepAliveNodes
  <2>2. Clocks'[c] = keepAliveList_'[i].ttl
    BY <1>2, <2>1, ClocksAfter
  <2>3. k + i \in 1 .. n /\ keepAliveList_'[i] = keepAliveList_[k + i]
    BY <1>2
  <2>4. Clocks[c] = keepAliveList_[k + i].ttl
    BY <1>1, <2>1, <2>3, ClocksNow
  <2> QED
    BY <2>2, <2>3, <2>4
<1>4. DOMAIN Clocks = keepAliveSet_
  BY DEF Clocks
<1> HIDE DEF expired
<1>5. Clocks' = [c \in keepAliveSet_ \ expired |-> Clocks[c]]
  <2>1. Clocks' = [c \in keepAliveSet_' |-> Clocks'[c]]
    BY DEF Clocks
  <2> QED
    BY <1>1, <1>3, <2>1
<1>6. Promise!Expired = expired
  BY <1>4 DEF expired, Promise!Expired, Promise!Timed
<1> QED
  BY <1>1, <1>4, <1>5, <1>6
     DEF HandleExpireEvent, Promise!Expire, Promise!Untimed, Promise!Timed

-----------------------------------------------------------------------------
(* A step of the loop, a peer or the clock is a step of KeepAlive, or one it  *)
(* does not see.                                                              *)
LEMMA StepRefines ==
  IInv /\ IInv' /\ TimerInv /\ [Next]_vars
    => Promise!Next \/ UNCHANGED Promise!vars
<1> SUFFICES ASSUME IInv, IInv', TimerInv, [Next]_vars
             PROVE  Promise!Next \/ UNCHANGED Promise!vars
  OBVIOUS
<1>0. /\ TypeOK /\ KeepAliveNodes /\ TypeOK' /\ KeepAliveNodes'
      /\ ListInExpiryOrder /\ PlaceInv
  BY DEF IInv, NodesInv
<1>1. ASSUME UNCHANGED <<mgrVars, fresh \cup pendingConns_, timerReady>>
      PROVE  UNCHANGED Promise!vars
  BY <1>1 DEF mgrVars, Promise!vars, Clocks, TimerNode
<1>2. ASSUME NEW c \in Conns, Accept(c) PROVE UNCHANGED Promise!vars
  <2>1. UNCHANGED <<mgrVars, fresh \cup pendingConns_, timerReady>>
    BY <1>2 DEF Accept, loopVars
  <2> QED
    BY <1>1, <2>1
<1>3. ASSUME NEW c \in Conns, AddHttpConnection(c) PROVE Promise!Open(c)
  <2>1. c \in pendingConns_ /\ c \notin fresh
    BY <1>0, <1>3 DEF AddHttpConnection, PlaceInv
  <2>2. Clocks' = Clocks
    BY <1>3 DEF AddHttpConnection, Clocks, TimerNode
  <2> QED
    BY <1>3, <2>1, <2>2 DEF AddHttpConnection, loopVars, Promise!Open
<1>4. ASSUME NEW c \in Conns,
             HandleError(c) \/ ReadFails(c) \/ ReadNothing(c) \/ WriteFails(c)
      PROVE  Promise!Close(c)
  <2>1. c \in httpMap /\ HandleClose({c})
    BY <1>4 DEF HandleError, ReadFails, ReadNothing, EmptySocket, Reading, WriteFails,
       Writing
  <2>2. UNCHANGED <<keepAliveList_, fresh, pendingConns_, timerReady>>
    BY <1>4 DEF HandleError, ReadFails, ReadNothing, EmptySocket, AfterRead, WriteFails,
       WriteVarsElse, ChannelDone, GoTo
  <2> QED
    BY <1>0, <2>1, <2>2, CloseRefines
<1>5. ASSUME NEW c \in Conns, WriteAll(c)
      PROVE  Promise!Close(c) \/ UNCHANGED Promise!vars
  <2>1. c \in httpMap /\ UNCHANGED <<keepAliveList_, fresh, pendingConns_, timerReady>>
    BY <1>5 DEF WriteAll, Writing, WriteVarsElse, GoTo
  <2>2. HandleClose({c}) \/ UNCHANGED <<httpMap, keepAliveSet_>>
    BY <1>5 DEF WriteAll
  <2>3. CASE HandleClose({c})
    BY <1>0, <2>1, <2>3, CloseRefines
  <2>4. CASE UNCHANGED <<httpMap, keepAliveSet_>>
    BY <1>1, <2>1, <2>4 DEF mgrVars
  <2> QED
    BY <2>2, <2>3, <2>4
<1>6. ASSUME NEW c \in Conns, RespondAndKeep(c) PROVE Promise!Refresh(c)
  BY <1>0, <1>6, RefreshRefines
     DEF RespondAndKeep, Handling, Respond, ChannelDone
<1>7. CASE Tick
  BY <1>0, <1>7, TickRefines DEF Promise!Next
<1>8. CASE HandleExpireEvent
  BY <1>0, <1>8, ExpireRefines DEF Promise!Next
<1>9. CASE Poll
  <2>1. UNCHANGED <<mgrVars, fresh, pendingConns_, timerReady>>
    <3>1. timerReady \in BOOLEAN
      BY <1>0 DEF TypeOK
    <3> QED
      BY <1>9, <3>1 DEF Poll, PollReturns, TimerInv
  <2> QED
    BY <1>1, <2>1
<1>10. CASE PollTimer
  <2>1. Clocks' = Clocks
    BY <1>10 DEF PollTimer, PollReturns, mgrVars, Clocks, TimerNode
  <2>2. Promise!TimerGoesOff
    BY <1>10, <2>1 DEF PollTimer, PollReturns, TimerInv, mgrVars, Promise!TimerGoesOff
  <2> QED
    BY <2>2 DEF Promise!Next
<1>11. ASSUME NEW c \in Conns,
             Promise!Open(c) \/ Promise!Refresh(c) \/ Promise!Close(c)
      PROVE  Promise!Next
  BY <1>11 DEF Promise!Next
<1>12. ASSUME NEW c \in Conns, PeerStep(c)
       PROVE  Accept(c) \/ UNCHANGED <<mgrVars, fresh, pendingConns_, timerReady>>
  BY <1>12 DEF PeerStep, PeerSends, PeerShutsDown, PeerResets, PeerDrains, PeerVarsElse,
     loopVars
<1>13. ASSUME NEW c \in Conns, ChannelStep(c)
       PROVE  \/ HandleError(c) \/ ReadFails(c) \/ ReadNothing(c) \/ WriteFails(c)
              \/ WriteAll(c) \/ RespondAndKeep(c)
              \/ UNCHANGED <<mgrVars, fresh, pendingConns_, timerReady>>
  <2>1. ReadToEof(c) \/ ReadData(c) \/ SkipRead(c) \/ UseAfterFree(c)
          => UNCHANGED <<mgrVars, fresh, pendingConns_, timerReady>>
    BY DEF ReadToEof, ReadData, SkipRead, UseAfterFree, EmptySocket, AfterRead, GoTo,
       sockVars, connVars
  <2>2. WriteSome(c) => UNCHANGED <<mgrVars, fresh, pendingConns_, timerReady>>
    BY DEF WriteSome, WriteVarsElse, GoTo, mgrVars
  <2>3. RespondAndClose(c) \/ RespondToShutdown(c) \/ ParseForever(c) \/ SkipHandler(c)
          => UNCHANGED <<mgrVars, fresh, pendingConns_, timerReady>>
    BY DEF RespondAndClose, RespondToShutdown, Respond, ParseForever, SkipHandler, GoTo,
       ChannelDone, mgrVars
  <2> QED
    BY <1>13, <2>1, <2>2, <2>3 DEF ChannelStep, HandleRead, HandleWrite, HandleHttpReq
<1>14. EndBatch \/ EndFunctors \/ UNCHANGED vars
         => UNCHANGED <<mgrVars, fresh, pendingConns_, timerReady>>
  BY DEF EndBatch, EndFunctors, vars, loopVars
<1>15. ASSUME UNCHANGED <<mgrVars, fresh, pendingConns_, timerReady>>
       PROVE  UNCHANGED Promise!vars
  BY <1>1, <1>15
<1> QED
  BY <1>2, <1>3, <1>4, <1>5, <1>6, <1>7, <1>8, <1>9, <1>10, <1>11, <1>12, <1>13, <1>14,
     <1>15
     DEF Next, LoopStep

(* HttpManager keeps what KeepAlive promises: a connection is opened once,    *)
(* and an expiry closes the connections whose time is up, all of them and no  *)
(* other, whatever the list has been through.                                 *)
THEOREM ImplementsKeepAlive == Spec => KeepAliveRefinement
<1>1. Init => Promise!Init /\ TimerInv
  BY DEF Init, Promise!Init, Clocks, TimerInv
<1>2. IInv /\ TimerInv /\ [Next]_vars => [Promise!Next]_(Promise!vars)
  BY IInvInductive, StepRefines
<1> QED
  BY <1>1, <1>2, Invariance, TimerInductive, PTL
     DEF Spec, KeepAliveRefinement, Promise!Spec

(* What follows for the steps of the loop.                                    *)
LEMMA EveryStepRefines == Spec => [][Promise!Next \/ UNCHANGED Promise!vars]_vars
<1>1. Init => TimerInv
  BY DEF Init, TimerInv
<1>2. IInv /\ TimerInv /\ [Next]_vars => [Promise!Next \/ UNCHANGED Promise!vars]_vars
  BY IInvInductive, StepRefines
<1> QED
  BY <1>1, <1>2, Invariance, TimerInductive, PTL DEF Spec

(* A connection that was closed never comes back to httpMap.  A stale entry   *)
(* of keepAliveList_ could bring it back: httpMap[it->first]                  *)
(* (HttpManager.cc:112) enters a null handler for a channel it does not find. *)
(* What prevents it is that delHttpConnection clears keepAliveSet_ as well,   *)
(* and that handleExpireEvent asks keepAliveSet_ first.                       *)
Closed == Conns \ (fresh \cup pendingConns_ \cup httpMap)

ClosedStaysClosed == Closed \subseteq Closed'

THEOREM ClosedForGood == Spec => [][ClosedStaysClosed]_vars
<1>1. Promise!Next => ClosedStaysClosed
  BY DEF Promise!Next, Promise!Open, Promise!Refresh, Promise!Close,
     Promise!TimerGoesOff, Promise!Expire, Promise!Tick, ClosedStaysClosed, Closed
<1>2. UNCHANGED Promise!vars => ClosedStaysClosed
  BY DEF Promise!vars, ClosedStaysClosed, Closed
<1>3. [Promise!Next \/ UNCHANGED Promise!vars]_vars => [ClosedStaysClosed]_vars
  BY <1>1, <1>2
<1> QED
  BY <1>3, EveryStepRefines, PTL

(* handleExpireEvent closes a connection if, and only if, it is timed and no  *)
(* request of it was answered for ExpireTicks ticks (HttpManager.cc:99-116).  *)
ExpiryIsExact ==
  HandleExpireEvent =>
    \A c \in httpMap :
       c \notin httpMap' <=> (c \in keepAliveSet_ /\ Clocks[c] = 0)

THEOREM ExpiryIsExactHolds == Spec => [][ExpiryIsExact]_vars
<1>1. IInv => ExpiryIsExact
  BY PrefixIsExpired, ExpiryCloses
     DEF IInv, NodesInv, ExpiryIsExact, HandleExpireEvent, HandleClose
<1> QED
  BY <1>1, Invariance, PTL DEF Spec
=============================================================================
