----------------------------- MODULE HttpLoop_proof -----------------------------
(* The safety invariants of HttpLoop hold for any number of connections, any  *)
(* requests and any expiry time.  Of the parser they need that keepAlive_ is  *)
(* a boolean, and the facts of HttpParse_proof.                               *)
EXTENDS HttpLoop, HttpParse_proof, FiniteSetTheorems

(* Where the loop is, and what a connection outside httpMap does not have.    *)
PlaceInv ==
  /\ loopPc \in {"poll", "functors"} => \A c \in Conns : revents_[c] = {}
  /\ loopPc \in {"poll", "dispatch", "functors"} => cur = {}
  /\ \A c, d \in cur : c = d
  /\ armed \subseteq httpMap
  /\ fresh \cap pendingConns_ = {}
  /\ \A c \in fresh \cup pendingConns_ :
       /\ c \notin httpMap \cup cur \cup keepAliveSet_
       /\ state_[c] = "kConnected" /\ ~outBuffer[c] /\ events_[c] = {}

(* KeepAliveNodes, and that an entry whose connection is open is in the set.  *)
NodesInv ==
  /\ KeepAliveNodes
  /\ \A i \in DOMAIN keepAliveList_ :
       /\ keepAliveList_[i].ch \notin fresh \cup pendingConns_
       /\ keepAliveList_[i].ch \in httpMap => keepAliveList_[i].ch \in keepAliveSet_

(* NoLostInput for one connection, with the event that reports a reset.       *)
InputAt(c) ==
  /\ peer[c] = "rst" => c \in armed \/ (c \notin cur /\ "ERR" \in revents_[c])
  /\ sockIn[c] # <<>> /\ "IN" \in events_[c] => WillBeRead(c)

InputInv == \A c \in httpMap : InputAt(c)

(* NoStuckOutput for one connection: EPOLLOUT is subscribed as long as there  *)
(* is output, and reported only then.                                         *)
OutputAt(c) ==
  /\ outBuffer[c] <=> "OUT" \in events_[c]
  /\ outBuffer[c] => WillBeWritten(c)
  /\ "OUT" \in revents_[c] /\ (c \in cur => loopPc = "write") => outBuffer[c]

OutputInv == \A c \in httpMap : OutputAt(c)

(* ClosingHasOutput for one connection, which has stopped reading.            *)
ClosingAt(c) ==
  /\ state_[c] = "kDisConnecting" => "IN" \notin events_[c]
  /\ \/ state_[c] = "kDisConnecting" => outBuffer[c]
     \/ loopPc \in {"handler", "parsing"} /\ c \in cur /\ "IN" \in revents_[c]

ClosingInv == \A c \in httpMap : ClosingAt(c)

(* ActiveConnectionsExpire for one connection: a request that was read is on  *)
(* its way to the handler, which enters the connection or stops reading it.   *)
ExpiryAt(c) ==
  state_[c] = "kHandle" =>
    \/ c \in keepAliveSet_
    \/ loopPc \in {"write", "handler", "parsing"} /\ c \in cur /\ "IN" \in revents_[c]

ExpiryInv == \A c \in httpMap : ExpiryAt(c)

-----------------------------------------------------------------------------
(* Sequences and counting.                                                    *)
LEMMA SeqOfFunction ==
  ASSUME NEW S, NEW n \in Nat, NEW f \in [1 .. n -> S]
  PROVE  f \in Seq(S)
BY SeqDef

LEMMA RemoveAtProperties ==
  ASSUME NEW S, NEW s \in Seq(S), NEW i \in 1 .. Len(s)
  PROVE  /\ RemoveAt(s, i) \in Seq(S)
         /\ Len(RemoveAt(s, i)) = Len(s) - 1
         /\ \A j \in 1 .. Len(s) - 1 :
               RemoveAt(s, i)[j] = IF j < i THEN s[j] ELSE s[j + 1]
<1> DEFINE n == Len(s)
           a == SubSeq(s, 1, i - 1)
           b == SubSeq(s, i + 1, n)
<1>1. n \in Nat /\ i \in Int /\ 1 <= i /\ i <= n /\ \A j \in 1 .. n : s[j] \in S
  BY LenProperties, ElementOfSeq
<1>2. /\ a \in Seq(S) /\ Len(a) = i - 1
      /\ \A j \in 1 .. i - 1 : a[j] = s[j]
  <2>1. \A j \in 1 .. i - 1 : s[j] \in S
    BY <1>1
  <2>2. /\ SubSeq(s, 1, i - 1) \in Seq(S)
        /\ Len(SubSeq(s, 1, i - 1)) = IF 1 <= i - 1 THEN i - 1 - 1 + 1 ELSE 0
        /\ \A j \in 1 .. i - 1 - 1 + 1 : SubSeq(s, 1, i - 1)[j] = s[1 + j - 1]
    BY <1>1, <2>1, SubSeqProperties
  <2> QED
    BY <1>1, <2>2
<1>3. /\ b \in Seq(S) /\ Len(b) = n - i
      /\ \A j \in 1 .. n - i : b[j] = s[i + j]
  <2>1. \A j \in i + 1 .. n : s[j] \in S
    BY <1>1
  <2>2. /\ SubSeq(s, i + 1, n) \in Seq(S)
        /\ Len(SubSeq(s, i + 1, n)) = IF i + 1 <= n THEN n - (i + 1) + 1 ELSE 0
        /\ \A j \in 1 .. n - (i + 1) + 1 : SubSeq(s, i + 1, n)[j] = s[i + 1 + j - 1]
    BY <1>1, <2>1, SubSeqProperties
  <2> QED
    BY <1>1, <2>2
<1> HIDE DEF n, a, b
<1>4. /\ a \o b \in Seq(S)
      /\ Len(a \o b) = Len(a) + Len(b)
      /\ \A j \in 1 .. Len(a) + Len(b) :
            (a \o b)[j] = IF j <= Len(a) THEN a[j] ELSE b[j - Len(a)]
  BY <1>2, <1>3, ConcatProperties
<1>5. Len(a \o b) = n - 1
  BY <1>1, <1>2, <1>3, <1>4
<1>6. ASSUME NEW j \in 1 .. n - 1
      PROVE  (a \o b)[j] = IF j < i THEN s[j] ELSE s[j + 1]
  <2>1. CASE j < i
    BY <1>1, <1>2, <1>3, <1>4, <2>1
  <2>2. CASE ~(j < i)
    <3>1. j - (i - 1) \in 1 .. n - i /\ i + (j - (i - 1)) = j + 1
      BY <1>1, <2>2
    <3>2. (a \o b)[j] = b[j - (i - 1)]
      BY <1>1, <1>2, <1>3, <1>4, <2>2
    <3> QED
      BY <1>3, <2>2, <3>1, <3>2
  <2> QED
    BY <2>1, <2>2
<1> QED
  BY <1>4, <1>5, <1>6 DEF RemoveAt, a, b, n

(* A set of naturals that is a prefix of 1 .. n is 1 .. its cardinality.      *)
LEMMA PrefixCount ==
  ASSUME NEW n \in Nat, NEW P \in SUBSET (1 .. n),
         \A i \in P : \A j \in 1 .. i : j \in P
  PROVE  Cardinality(P) \in 0 .. n /\ P = 1 .. Cardinality(P)
<1> DEFINE k == Cardinality(P)
<1>1. IsFiniteSet(1 .. n) /\ Cardinality(1 .. n) = n
  BY FS_Interval
<1>2. IsFiniteSet(P) /\ k \in Nat /\ k <= n
  <2>1. IsFiniteSet(P) /\ k <= Cardinality(1 .. n)
    BY <1>1, FS_Subset, Zenon
  <2>2. k \in Nat
    BY <2>1, FS_CardinalityType, Zenon
  <2> QED
    BY <1>1, <2>1, <2>2
<1>3. ASSUME NEW i \in P PROVE i \in 1 .. k
  <2>1. i \in Nat \ {0} /\ 1 .. i \subseteq P
    OBVIOUS
  <2>2. Cardinality(1 .. i) = i
    BY <2>1, FS_Interval
  <2>3. Cardinality(1 .. i) <= k
    BY <1>2, <2>1, FS_Subset
  <2> QED
    BY <1>2, <2>1, <2>2, <2>3
<1>4. IsFiniteSet(1 .. k) /\ Cardinality(1 .. k) = k
  BY <1>2, FS_Interval
<1>5. P = 1 .. k
  BY <1>3, <1>4, FS_Subset
<1> QED
  BY <1>2, <1>5

LEMMA ExpiredCount ==
  ASSUME TypeOK
  PROVE  /\ Cardinality(ExpiredPrefix) \in 0 .. Len(keepAliveList_)
         /\ ExpiredPrefix = 1 .. Cardinality(ExpiredPrefix)
<1>1. Len(keepAliveList_) \in Nat /\ DOMAIN keepAliveList_ = 1 .. Len(keepAliveList_)
  BY LenProperties DEF TypeOK
<1>2. /\ ExpiredPrefix \in SUBSET (1 .. Len(keepAliveList_))
      /\ \A i \in ExpiredPrefix : \A j \in 1 .. i : j \in ExpiredPrefix
  BY <1>1 DEF ExpiredPrefix
<1> QED
  BY <1>1, <1>2, PrefixCount

(* What the three operations on keepAliveList_ leave of it.                   *)
LEMMA ListAfterTick ==
  ASSUME TypeOK, Tick
  PROVE  /\ keepAliveList_' \in Seq(Nodes)
         /\ Len(keepAliveList_') = Len(keepAliveList_)
         /\ \A i \in 1 .. Len(keepAliveList_) :
               keepAliveList_'[i] = Aged(keepAliveList_[i])
<1>1. Len(keepAliveList_) \in Nat /\ DOMAIN keepAliveList_ = 1 .. Len(keepAliveList_)
  BY LenProperties DEF TypeOK
<1>2. \A i \in 1 .. Len(keepAliveList_) : keepAliveList_[i] \in Nodes
  BY ElementOfSeq DEF TypeOK
<1>3. ASSUME NEW node \in Nodes PROVE Aged(node) \in Nodes
  BY ConnsAssumption DEF Aged, Nodes
<1>4. keepAliveList_' \in [1 .. Len(keepAliveList_) -> Nodes]
  BY <1>1, <1>2, <1>3 DEF Tick
<1>5. keepAliveList_' \in Seq(Nodes)
  BY <1>1, <1>4, SeqOfFunction
<1>6. DOMAIN keepAliveList_' = 1 .. Len(keepAliveList_)
  BY <1>4
<1>7. Len(keepAliveList_') = Len(keepAliveList_)
  BY <1>1, <1>5, <1>6, LenProperties
<1> QED
  BY <1>1, <1>5, <1>7 DEF Tick

LEMMA ListAfterExpiry ==
  ASSUME TypeOK, HandleExpireEvent, NEW k, k = Cardinality(ExpiredPrefix)
  PROVE  /\ k \in 0 .. Len(keepAliveList_)
         /\ keepAliveList_' \in Seq(Nodes)
         /\ Len(keepAliveList_') = Len(keepAliveList_) - k
         /\ \A i \in 1 .. Len(keepAliveList_) - k :
               keepAliveList_'[i] = keepAliveList_[k + i]
<1> DEFINE n == Len(keepAliveList_)
<1>1. n \in Nat /\ k \in 0 .. n
  BY ExpiredCount, LenProperties DEF TypeOK
<1>2. \A i \in k + 1 .. n : keepAliveList_[i] \in Nodes
  BY <1>1, ElementOfSeq DEF TypeOK
<1>3. /\ SubSeq(keepAliveList_, k + 1, n) \in Seq(Nodes)
      /\ Len(SubSeq(keepAliveList_, k + 1, n)) = IF k + 1 <= n THEN n - (k + 1) + 1 ELSE 0
      /\ \A i \in 1 .. n - (k + 1) + 1 :
            SubSeq(keepAliveList_, k + 1, n)[i] = keepAliveList_[k + 1 + i - 1]
  BY <1>1, <1>2, SubSeqProperties
<1>4. keepAliveList_' = SubSeq(keepAliveList_, k + 1, n)
  BY DEF HandleExpireEvent
<1> QED
  BY <1>1, <1>3, <1>4

(* Only what is in keepAliveSet_ is looked up, and all of that is in httpMap. *)
LEMMA ExpiryCloses ==
  ASSUME KeepAliveNodes, HandleExpireEvent
  PROVE  Expired \subseteq httpMap /\ HandleClose(Expired) /\ UNCHANGED loopPc
BY DEF KeepAliveNodes, HandleExpireEvent, Expired

(* Where the i-th entry after flushKeepAlive(c) was before, but for the last.  *)
Before(i, c) == IF c \in keepAliveSet_ /\ i >= TimerNode(c) THEN i + 1 ELSE i

LEMMA TimerNodeIsValid ==
  ASSUME TypeOK, KeepAliveNodes, NEW c \in keepAliveSet_
  PROVE  TimerNode(c) \in 1 .. Len(keepAliveList_) /\ keepAliveList_[TimerNode(c)].ch = c
<1>1. DOMAIN keepAliveList_ = 1 .. Len(keepAliveList_)
  BY LenProperties DEF TypeOK
<1> QED
  BY <1>1 DEF KeepAliveNodes, TimerNode

LEMMA ListAfterFlush ==
  ASSUME TypeOK, KeepAliveNodes, NEW c \in Conns, FlushKeepAlive(c)
  PROVE  /\ keepAliveList_' \in Seq(Nodes)
         /\ Len(keepAliveList_') \in Nat
         /\ DOMAIN keepAliveList_' = 1 .. Len(keepAliveList_')
         /\ Len(keepAliveList_') =
              IF c \in keepAliveSet_ THEN Len(keepAliveList_)
                                     ELSE Len(keepAliveList_) + 1
         /\ keepAliveList_'[Len(keepAliveList_')] = [ch |-> c, ttl |-> ExpireTicks]
         /\ \A i \in 1 .. Len(keepAliveList_') - 1 :
              /\ Before(i, c) \in 1 .. Len(keepAliveList_)
              /\ keepAliveList_'[i] = keepAliveList_[Before(i, c)]
<1> DEFINE n == Len(keepAliveList_)
           p == TimerNode(c)
           kept == IF c \in keepAliveSet_ THEN RemoveAt(keepAliveList_, p)
                                          ELSE keepAliveList_
           node == [ch |-> c, ttl |-> ExpireTicks]
<1>1. n \in Nat /\ keepAliveList_ \in Seq(Nodes)
  BY LenProperties DEF TypeOK
<1>2. node \in Nodes
  BY ConnsAssumption DEF Nodes
<1>3. /\ kept \in Seq(Nodes)
      /\ Len(kept) = IF c \in keepAliveSet_ THEN n - 1 ELSE n
      /\ \A i \in 1 .. Len(kept) :
           Before(i, c) \in 1 .. n /\ kept[i] = keepAliveList_[Before(i, c)]
  <2>1. CASE c \in keepAliveSet_
    <3>1. p \in 1 .. n
      BY <2>1, TimerNodeIsValid
    <3>2. /\ kept \in Seq(Nodes) /\ Len(kept) = n - 1
          /\ \A i \in 1 .. n - 1 :
               kept[i] = IF i < p THEN keepAliveList_[i] ELSE keepAliveList_[i + 1]
      BY <1>1, <2>1, <3>1, RemoveAtProperties
    <3> HIDE DEF p, kept
    <3> QED
      BY <1>1, <2>1, <3>1, <3>2 DEF Before, p
  <2>2. CASE c \notin keepAliveSet_
    BY <1>1, <2>2 DEF Before
  <2> QED
    BY <2>1, <2>2
<1>4. keepAliveList_' = Append(kept, node)
  BY DEF FlushKeepAlive
<1> HIDE DEF kept, node
<1>5. /\ Append(kept, node) \in Seq(Nodes)
      /\ Len(Append(kept, node)) = Len(kept) + 1
      /\ \A i \in 1 .. Len(kept) : Append(kept, node)[i] = kept[i]
      /\ Append(kept, node)[Len(kept) + 1] = node
  BY <1>2, <1>3, AppendProperties
<1>6. Len(kept) \in Nat
  BY <1>3, LenProperties
<1>7. /\ Len(keepAliveList_') \in Nat
      /\ DOMAIN keepAliveList_' = 1 .. Len(keepAliveList_')
  BY <1>4, <1>5, LenProperties
<1> HIDE DEF n
<1>8. Len(keepAliveList_') = IF c \in keepAliveSet_ THEN n ELSE n + 1
  <2>1. Len(keepAliveList_') = Len(kept) + 1
    BY <1>4, <1>5
  <2> QED
    BY <1>1, <1>3, <2>1
<1>9. ASSUME NEW i \in 1 .. Len(keepAliveList_') - 1
      PROVE  /\ Before(i, c) \in 1 .. n
             /\ keepAliveList_'[i] = keepAliveList_[Before(i, c)]
  <2>1. i \in 1 .. Len(kept)
    BY <1>4, <1>5, <1>6
  <2> QED
    BY <1>3, <1>4, <1>5, <2>1
<1>10. keepAliveList_'[Len(keepAliveList_')] = node
  BY <1>4, <1>5
<1> QED
  BY <1>4, <1>5, <1>7, <1>8, <1>9, <1>10 DEF n, node

-----------------------------------------------------------------------------
LEMMA KeepsAliveType == ASSUME NEW c PROVE KeepsAlive(c) \in BOOLEAN
BY DEF KeepsAlive, KeepAliveAfter

LEMMA TypeInductive == TypeOK /\ NodesInv /\ [Next]_vars => TypeOK'
<1> SUFFICES ASSUME TypeOK, NodesInv, [Next]_vars PROVE TypeOK'
  OBVIOUS
<1> USE DEF TypeOK, LoopPcs, ConnStates, Events, sockVars, loopVars, connVars,
        mgrVars
<1>0. CASE UNCHANGED vars
  BY <1>0 DEF vars
<1>1. ASSUME NEW c \in Conns, Accept(c) PROVE TypeOK'
  BY <1>1 DEF Accept
<1>2. ASSUME NEW c \in Conns, PeerSends(c) PROVE TypeOK'
  <2>1. PICK r \in Requests : sockIn' = [sockIn EXCEPT ![c] = Append(sockIn[c], r)]
    BY <1>2 DEF PeerSends
  <2>2. Append(sockIn[c], r) \in Seq(Requests)
    BY AppendProperties
  <2>3. sent' \in 0 .. MaxRequests
    BY <1>2, ConnsAssumption DEF PeerSends
  <2> QED
    BY <1>2, <2>1, <2>2, <2>3 DEF PeerSends, Arm, PeerVarsElse
<1>3. ASSUME NEW c \in Conns, PeerShutsDown(c) PROVE TypeOK'
  BY <1>3 DEF PeerShutsDown, Arm, PeerVarsElse
<1>4. ASSUME NEW c \in Conns, PeerResets(c) PROVE TypeOK'
  BY <1>4 DEF PeerResets, Arm, PeerVarsElse
<1>5. ASSUME NEW c \in Conns, PeerDrains(c) PROVE TypeOK'
  BY <1>5 DEF PeerDrains, Arm, PeerVarsElse
<1>6. ASSUME Tick PROVE TypeOK'
  BY <1>6, ListAfterTick DEF Tick
<1>7. ASSUME NEW timer \in BOOLEAN, PollReturns(timer) PROVE TypeOK'
  BY <1>7 DEF PollReturns, ReadyEvents
<1>8. ASSUME EndBatch PROVE TypeOK'
  BY <1>8 DEF EndBatch
<1>9. ASSUME HandleExpireEvent PROVE TypeOK'
  <2>1. keepAliveList_' \in Seq(Nodes)
    BY <1>9, ListAfterExpiry
  <2>2. HandleClose(Expired) /\ UNCHANGED loopPc
    BY <1>9, ExpiryCloses DEF NodesInv
  <2> QED
    BY <1>9, <2>1, <2>2 DEF HandleExpireEvent, HandleClose
<1>10. ASSUME NEW c \in Conns, UseAfterFree(c) PROVE TypeOK'
  BY <1>10 DEF UseAfterFree
<1>11. ASSUME NEW c \in Conns, HandleError(c) PROVE TypeOK'
  BY <1>11 DEF HandleError, Dispatching, HandleClose, ChannelDone
<1>12. ASSUME NEW c \in Conns, ReadFails(c) PROVE TypeOK'
  BY <1>12 DEF ReadFails, Reading, Dispatching, HandleClose, AfterRead, GoTo
<1>13. ASSUME NEW c \in Conns, ReadNothing(c) PROVE TypeOK'
  BY <1>13 DEF ReadNothing, EmptySocket, Reading, Dispatching, HandleClose,
     AfterRead, GoTo
<1>14. ASSUME NEW c \in Conns, ReadToEof(c) PROVE TypeOK'
  BY <1>14 DEF ReadToEof, EmptySocket, Reading, Dispatching, UpdateChannel,
     AfterRead, GoTo
<1>15. ASSUME NEW c \in Conns, ReadData(c) PROVE TypeOK'
  BY <1>15 DEF ReadData, EmptySocket, Reading, Dispatching, AfterRead, GoTo
<1>16. ASSUME NEW c \in Conns, SkipRead(c) PROVE TypeOK'
  BY <1>16 DEF SkipRead, Dispatching, GoTo
<1>17. ASSUME NEW c \in Conns, WriteFails(c) PROVE TypeOK'
  BY <1>17 DEF WriteFails, Writing, HandleClose, GoTo, WriteVarsElse
<1>18. ASSUME NEW c \in Conns, WriteSome(c) PROVE TypeOK'
  BY <1>18 DEF WriteSome, Writing, GoTo, WriteVarsElse
<1>19. ASSUME NEW c \in Conns, WriteAll(c) PROVE TypeOK'
  <2>1. /\ UNCHANGED <<peer, sent, sockIn, pendingConns_, fresh, inBuffer,
                      keepAlive_, keepAliveList_, blocked, errno, revents_,
                      timerReady>>
        /\ outBuffer' \in [Conns -> BOOLEAN]
        /\ loopPc' = "handler" /\ cur' = {c}
    BY <1>19 DEF WriteAll, GoTo, WriteVarsElse
  <2>2. /\ events_' \in [Conns -> SUBSET {"IN", "OUT"}]
        /\ state_' \in [Conns -> {"kConnected", "kHandle", "kDisConnecting",
                                  "kDisconnected"}]
        /\ armed' \subseteq Conns /\ httpMap' \subseteq Conns
        /\ keepAliveSet_' \subseteq Conns
    <3>1. CASE state_[c] = "kDisConnecting"
      <4>1. HandleClose({c})
        BY <1>19, <3>1 DEF WriteAll
      <4> QED
        BY <4>1 DEF HandleClose
    <3>2. CASE state_[c] # "kDisConnecting"
      <4>1. /\ events_' = [events_ EXCEPT ![c] = events_[c] \ {"OUT"}]
            /\ armed' = armed \cup {c}
            /\ UNCHANGED <<state_, httpMap, keepAliveSet_>>
        BY <1>19, <3>2 DEF WriteAll, UpdateChannel
      <4>2. events_[c] \ {"OUT"} \in SUBSET {"IN", "OUT"}
        OBVIOUS
      <4> QED
        BY <4>1, <4>2
    <3> QED
      BY <3>1, <3>2
  <2> QED
    BY <2>1, <2>2
<1>20. ASSUME NEW c \in Conns, RespondAndClose(c) PROVE TypeOK'
  BY <1>20, KeepsAliveType
     DEF RespondAndClose, Handling, Respond, ErrnoAfter, ChannelDone, UpdateChannel
<1>21. ASSUME NEW c \in Conns, RespondToShutdown(c) PROVE TypeOK'
  BY <1>21, KeepsAliveType
     DEF RespondToShutdown, Handling, Respond, ErrnoAfter, ChannelDone, UpdateChannel
<1>22. ASSUME NEW c \in Conns, RespondAndKeep(c) PROVE TypeOK'
  <2>1. keepAliveList_' \in Seq(Nodes)
    BY <1>22, ListAfterFlush DEF RespondAndKeep, NodesInv
  <2>2. keepAliveSet_' \subseteq Conns
    BY <1>22 DEF RespondAndKeep, FlushKeepAlive
  <2> QED
    BY <1>22, <2>1, <2>2, KeepsAliveType
       DEF RespondAndKeep, Handling, Respond, ErrnoAfter, ChannelDone, UpdateChannel
<1>23. ASSUME NEW c \in Conns, ParseForever(c) PROVE TypeOK'
  BY <1>23, KeepsAliveType DEF ParseForever, Handling
<1>24. ASSUME NEW c \in Conns, SkipHandler(c) PROVE TypeOK'
  BY <1>24 DEF SkipHandler, ChannelDone
<1>25. ASSUME NEW c \in Conns, AddHttpConnection(c) PROVE TypeOK'
  BY <1>25 DEF AddHttpConnection, UpdateChannel
<1>26. ASSUME EndFunctors PROVE TypeOK'
  BY <1>26 DEF EndFunctors
<1> QED
  BY <1>0, <1>1, <1>2, <1>3, <1>4, <1>5, <1>6, <1>7, <1>8, <1>9, <1>10, <1>11,
     <1>12, <1>13, <1>14, <1>15, <1>16, <1>17, <1>18, <1>19, <1>20, <1>21, <1>22,
     <1>23, <1>24, <1>25, <1>26
     DEF Next, LoopStep, Poll, PollTimer, ChannelStep, HandleRead, HandleWrite,
         HandleHttpReq, PeerStep

LEMMA PlaceInductive == TypeOK /\ PlaceInv /\ NodesInv /\ [Next]_vars => PlaceInv'
<1> SUFFICES ASSUME TypeOK, PlaceInv, KeepAliveNodes, [Next]_vars PROVE PlaceInv'
  BY DEF NodesInv
<1> USE DEF TypeOK, PlaceInv, sockVars, loopVars, connVars, mgrVars
<1>0. CASE UNCHANGED vars
  BY <1>0 DEF vars
<1>1. ASSUME NEW c \in Conns, Accept(c) PROVE PlaceInv'
  BY <1>1 DEF Accept
<1>2. ASSUME NEW c \in Conns, PeerSends(c) PROVE PlaceInv'
  BY <1>2 DEF PeerSends, Arm, PeerVarsElse
<1>3. ASSUME NEW c \in Conns, PeerShutsDown(c) PROVE PlaceInv'
  BY <1>3 DEF PeerShutsDown, Arm, PeerVarsElse
<1>4. ASSUME NEW c \in Conns, PeerResets(c) PROVE PlaceInv'
  BY <1>4 DEF PeerResets, Arm, PeerVarsElse
<1>5. ASSUME NEW c \in Conns, PeerDrains(c) PROVE PlaceInv'
  BY <1>5 DEF PeerDrains, Arm, PeerVarsElse
<1>6. ASSUME Tick PROVE PlaceInv'
  BY <1>6 DEF Tick
<1>7. ASSUME NEW timer \in BOOLEAN, PollReturns(timer) PROVE PlaceInv'
  BY <1>7 DEF PollReturns
<1>8. ASSUME EndBatch PROVE PlaceInv'
  BY <1>8 DEF EndBatch, Unhandled
<1>9. ASSUME HandleExpireEvent PROVE PlaceInv'
  <2>1. HandleClose(Expired) /\ UNCHANGED loopPc
    BY <1>9, ExpiryCloses
  <2> QED
    BY <1>9, <2>1 DEF HandleExpireEvent, HandleClose
<1>10. ASSUME NEW c \in Conns, UseAfterFree(c) PROVE PlaceInv'
  BY <1>10 DEF UseAfterFree
<1>11. ASSUME NEW c \in Conns, HandleError(c) PROVE PlaceInv'
  BY <1>11 DEF HandleError, Dispatching, HandleClose, ChannelDone
<1>12. ASSUME NEW c \in Conns, ReadFails(c) PROVE PlaceInv'
  BY <1>12 DEF ReadFails, Reading, Dispatching, HandleClose, AfterRead, GoTo
<1>13. ASSUME NEW c \in Conns, ReadNothing(c) PROVE PlaceInv'
  BY <1>13 DEF ReadNothing, EmptySocket, Reading, Dispatching, HandleClose,
     AfterRead, GoTo
<1>14. ASSUME NEW c \in Conns, ReadToEof(c) PROVE PlaceInv'
  BY <1>14 DEF ReadToEof, EmptySocket, Reading, Dispatching, UpdateChannel,
     AfterRead, GoTo
<1>15. ASSUME NEW c \in Conns, ReadData(c) PROVE PlaceInv'
  BY <1>15 DEF ReadData, EmptySocket, Reading, Dispatching, AfterRead, GoTo
<1>16. ASSUME NEW c \in Conns, SkipRead(c) PROVE PlaceInv'
  BY <1>16 DEF SkipRead, Dispatching, GoTo
<1>17. ASSUME NEW c \in Conns, WriteFails(c) PROVE PlaceInv'
  BY <1>17 DEF WriteFails, Writing, HandleClose, GoTo, WriteVarsElse
<1>18. ASSUME NEW c \in Conns, WriteSome(c) PROVE PlaceInv'
  BY <1>18 DEF WriteSome, Writing, GoTo, WriteVarsElse
<1>19. ASSUME NEW c \in Conns, WriteAll(c) PROVE PlaceInv'
  BY <1>19 DEF WriteAll, Writing, HandleClose, UpdateChannel, GoTo, WriteVarsElse
<1>20. ASSUME NEW c \in Conns, RespondAndClose(c) PROVE PlaceInv'
  BY <1>20 DEF RespondAndClose, Handling, Respond, ChannelDone, UpdateChannel
<1>21. ASSUME NEW c \in Conns, RespondToShutdown(c) PROVE PlaceInv'
  BY <1>21 DEF RespondToShutdown, Handling, Respond, ChannelDone, UpdateChannel
<1>22. ASSUME NEW c \in Conns, RespondAndKeep(c) PROVE PlaceInv'
  BY <1>22 DEF RespondAndKeep, Handling, Respond, ChannelDone, UpdateChannel,
     FlushKeepAlive
<1>23. ASSUME NEW c \in Conns, ParseForever(c) PROVE PlaceInv'
  BY <1>23 DEF ParseForever, Handling
<1>24. ASSUME NEW c \in Conns, SkipHandler(c) PROVE PlaceInv'
  BY <1>24 DEF SkipHandler, ChannelDone
<1>25. ASSUME NEW c \in Conns, AddHttpConnection(c) PROVE PlaceInv'
  BY <1>25 DEF AddHttpConnection, UpdateChannel
<1>26. ASSUME EndFunctors PROVE PlaceInv'
  BY <1>26 DEF EndFunctors
<1> QED
  BY <1>0, <1>1, <1>2, <1>3, <1>4, <1>5, <1>6, <1>7, <1>8, <1>9, <1>10, <1>11,
     <1>12, <1>13, <1>14, <1>15, <1>16, <1>17, <1>18, <1>19, <1>20, <1>21, <1>22,
     <1>23, <1>24, <1>25, <1>26
     DEF Next, LoopStep, Poll, PollTimer, ChannelStep, HandleRead, HandleWrite,
         HandleHttpReq, PeerStep

-----------------------------------------------------------------------------
(* The keep-alive list.  Most steps leave it, and what it is tied to, alone.  *)
LEMMA NodesAfterClose ==
  ASSUME TypeOK, NodesInv, NEW S, HandleClose(S), UNCHANGED <<keepAliveList_, fresh,
         pendingConns_>>
  PROVE  NodesInv'
BY DEF TypeOK, NodesInv, KeepAliveNodes, HandleClose

LEMMA NodesAfterTick == TypeOK /\ NodesInv /\ Tick => NodesInv'
<1> SUFFICES ASSUME TypeOK, NodesInv, Tick PROVE NodesInv'
  OBVIOUS
<1> DEFINE n == Len(keepAliveList_)
<1>1. DOMAIN keepAliveList_ = 1 .. n
  BY LenProperties DEF TypeOK
<1>2. DOMAIN keepAliveList_' = 1 .. n
  BY ListAfterTick, LenProperties
<1>3. \A i \in 1 .. n : keepAliveList_[i] \in Nodes
  BY ElementOfSeq DEF TypeOK
<1>4. \A i \in 1 .. n : keepAliveList_'[i].ch = keepAliveList_[i].ch
  BY <1>3, ListAfterTick DEF Aged, Nodes
<1> HIDE DEF n
<1>5. UNCHANGED <<keepAliveSet_, httpMap, fresh, pendingConns_>>
  BY DEF Tick
<1> QED
  BY <1>1, <1>2, <1>4, <1>5 DEF NodesInv, KeepAliveNodes

LEMMA NodesAfterExpiry == TypeOK /\ NodesInv /\ HandleExpireEvent => NodesInv'
<1> SUFFICES ASSUME TypeOK, NodesInv, HandleExpireEvent PROVE NodesInv'
  OBVIOUS
<1> DEFINE n == Len(keepAliveList_)
           k == Cardinality(ExpiredPrefix)
<1>1. DOMAIN keepAliveList_ = 1 .. n /\ n \in Nat
  BY LenProperties DEF TypeOK
<1>2. k \in 0 .. n /\ ExpiredPrefix = 1 .. k
  BY ExpiredCount
<1>3. /\ DOMAIN keepAliveList_' = 1 .. n - k
      /\ \A i \in 1 .. n - k : keepAliveList_'[i] = keepAliveList_[k + i]
  BY ListAfterExpiry, LenProperties
<1>4. /\ httpMap' = httpMap \ Expired /\ keepAliveSet_' = keepAliveSet_ \ Expired
      /\ UNCHANGED <<fresh, pendingConns_>>
  BY ExpiryCloses DEF HandleExpireEvent, HandleClose, NodesInv
<1>5. \A c : c \in Expired <=> c \in keepAliveSet_ /\ \E i \in 1 .. k : keepAliveList_[i].ch = c
  BY <1>2 DEF Expired
<1> HIDE DEF n, k
<1>6. keepAliveSet_' \subseteq httpMap'
  BY <1>4 DEF NodesInv, KeepAliveNodes
<1>7. ASSUME NEW c \in keepAliveSet_'
      PROVE  \E i \in 1 .. n - k : keepAliveList_'[i].ch = c
  <2>1. PICK i \in 1 .. n : keepAliveList_[i].ch = c
    BY <1>1, <1>4, <1>7 DEF NodesInv, KeepAliveNodes
  <2>2. ~(i <= k)
    BY <1>1, <1>2, <1>4, <1>5, <1>7, <2>1
  <2>3. i - k \in 1 .. n - k /\ k + (i - k) = i
    BY <1>1, <1>2, <2>2
  <2> QED
    BY <1>3, <2>1, <2>3
<1>8. ASSUME NEW i \in 1 .. n - k, NEW j \in 1 .. n - k,
             keepAliveList_'[i].ch = keepAliveList_'[j].ch
      PROVE  i = j
  <2>1. k + i \in 1 .. n /\ k + j \in 1 .. n
    BY <1>1, <1>2
  <2>2. k + i = k + j
    BY <1>1, <1>3, <1>8, <2>1 DEF NodesInv, KeepAliveNodes
  <2> QED
    BY <1>1, <1>2, <2>2
<1>9. ASSUME NEW i \in 1 .. n - k
      PROVE  /\ keepAliveList_'[i].ch \notin fresh' \cup pendingConns_'
             /\ keepAliveList_'[i].ch \in httpMap' => keepAliveList_'[i].ch \in keepAliveSet_'
  <2>1. k + i \in 1 .. n
    BY <1>1, <1>2
  <2> QED
    BY <1>1, <1>3, <1>4, <2>1 DEF NodesInv
<1> QED
  BY <1>3, <1>6, <1>7, <1>8, <1>9 DEF NodesInv, KeepAliveNodes

LEMMA NodesAfterFlush ==
  ASSUME TypeOK, PlaceInv, NodesInv, NEW c \in httpMap, FlushKeepAlive(c),
         UNCHANGED <<httpMap, fresh, pendingConns_>>
  PROVE  NodesInv'
<1> DEFINE n == Len(keepAliveList_)
           m == Len(keepAliveList_')
<1>1. DOMAIN keepAliveList_ = 1 .. n /\ n \in Nat /\ c \in Conns
  BY LenProperties DEF TypeOK
<1>2. /\ DOMAIN keepAliveList_' = 1 .. m
      /\ m = IF c \in keepAliveSet_ THEN n ELSE n + 1
      /\ keepAliveList_'[m].ch = c
      /\ \A i \in 1 .. m - 1 :
           Before(i, c) \in 1 .. n /\ keepAliveList_'[i] = keepAliveList_[Before(i, c)]
  <2>1. KeepAliveNodes
    BY DEF NodesInv
  <2>2. keepAliveList_'[m] = [ch |-> c, ttl |-> ExpireTicks]
    BY <1>1, <2>1, ListAfterFlush
  <2> QED
    BY <1>1, <2>1, <2>2, ListAfterFlush
<1>3. c \in keepAliveSet_ =>
        TimerNode(c) \in 1 .. n /\ keepAliveList_[TimerNode(c)].ch = c
  BY TimerNodeIsValid DEF NodesInv
<1> HIDE DEF n, m
<1>4. m \in Nat \ {0} /\ m \in 1 .. m
  BY <1>1, <1>2, <1>3
<1>5. ASSUME NEW i \in 1 .. m - 1 PROVE keepAliveList_'[i].ch # c
  <2>1. CASE c \in keepAliveSet_
    <3>1. Before(i, c) # TimerNode(c)
      BY <1>3, <1>4, <2>1 DEF Before
    <3> QED
      BY <1>1, <1>2, <1>3, <2>1, <3>1 DEF NodesInv, KeepAliveNodes
  <2>2. CASE c \notin keepAliveSet_
    BY <1>1, <1>2, <2>2 DEF NodesInv
  <2> QED
    BY <2>1, <2>2
<1>6. ASSUME NEW i \in 1 .. m - 1, NEW j \in 1 .. m - 1, Before(i, c) = Before(j, c)
      PROVE  i = j
  BY <1>3, <1>4, <1>6 DEF Before
<1>7. ASSUME NEW d \in keepAliveSet_', d # c
      PROVE  \E i \in 1 .. m : keepAliveList_'[i].ch = d
  <2>1. PICK j \in 1 .. n : keepAliveList_[j].ch = d
    BY <1>1, <1>7 DEF FlushKeepAlive, NodesInv, KeepAliveNodes
  <2>2. c \in keepAliveSet_ => j # TimerNode(c)
    BY <1>3, <1>7, <2>1
  <2> DEFINE i == IF c \in keepAliveSet_ /\ j > TimerNode(c) THEN j - 1 ELSE j
  <2>3. i \in 1 .. m - 1 /\ Before(i, c) = j
    <3>1. CASE c \in keepAliveSet_ /\ j > TimerNode(c)
      BY <1>1, <1>2, <1>3, <1>4, <3>1 DEF Before
    <3>2. CASE ~(c \in keepAliveSet_ /\ j > TimerNode(c))
      BY <1>1, <1>2, <1>3, <1>4, <2>2, <3>2 DEF Before
    <3> QED
      BY <3>1, <3>2
  <2> HIDE DEF i
  <2>4. i \in 1 .. m
    BY <1>4, <2>3
  <2>5. keepAliveList_'[i] = keepAliveList_[j]
    BY <1>2, <2>3
  <2> QED
    BY <2>1, <2>4, <2>5
<1>8. ASSUME NEW i \in 1 .. m, NEW j \in 1 .. m, keepAliveList_'[i].ch = keepAliveList_'[j].ch
      PROVE  i = j
  <2>1. CASE i = m \/ j = m
    <3>1. keepAliveList_'[i].ch = c /\ keepAliveList_'[j].ch = c
      BY <1>2, <1>8, <2>1
    <3>2. i \notin 1 .. m - 1 /\ j \notin 1 .. m - 1
      BY <1>5, <3>1
    <3> QED
      BY <1>4, <3>2
  <2>2. CASE i # m /\ j # m
    <3>1. i \in 1 .. m - 1 /\ j \in 1 .. m - 1
      BY <1>4, <2>2
    <3>2. /\ Before(i, c) \in 1 .. n /\ Before(j, c) \in 1 .. n
          /\ keepAliveList_[Before(i, c)].ch = keepAliveList_[Before(j, c)].ch
      BY <1>2, <1>8, <3>1
    <3>3. Before(i, c) = Before(j, c)
      BY <1>1, <3>2 DEF NodesInv, KeepAliveNodes
    <3> QED
      BY <1>6, <3>1, <3>3
  <2> QED
    BY <2>1, <2>2
<1>9. ASSUME NEW i \in 1 .. m
      PROVE  /\ keepAliveList_'[i].ch \notin fresh \cup pendingConns_
             /\ keepAliveList_'[i].ch \in httpMap => keepAliveList_'[i].ch \in keepAliveSet_'
  <2>1. CASE i = m
    BY <1>2, <2>1 DEF FlushKeepAlive, PlaceInv
  <2>2. CASE i # m
    <3>1. i \in 1 .. m - 1
      BY <1>4, <2>2
    <3> QED
      BY <1>1, <1>2, <3>1 DEF FlushKeepAlive, NodesInv
  <2> QED
    BY <2>1, <2>2
<1>10. keepAliveSet_' = keepAliveSet_ \cup {c}
  BY DEF FlushKeepAlive
<1> QED
  BY <1>2, <1>4, <1>7, <1>8, <1>9, <1>10 DEF NodesInv, KeepAliveNodes

LEMMA NodesInductive == TypeOK /\ PlaceInv /\ NodesInv /\ [Next]_vars => NodesInv'
<1> SUFFICES ASSUME TypeOK, PlaceInv, NodesInv, [Next]_vars PROVE NodesInv'
  OBVIOUS
<1>1. CASE UNCHANGED <<mgrVars, fresh, pendingConns_>>
  BY <1>1 DEF mgrVars, NodesInv, KeepAliveNodes
<1>2. ASSUME NEW c \in Conns, Accept(c) PROVE NodesInv'
  BY <1>2 DEF Accept, mgrVars, NodesInv, KeepAliveNodes
<1>3. ASSUME NEW c \in Conns, AddHttpConnection(c) PROVE NodesInv'
  BY <1>3 DEF AddHttpConnection, NodesInv, KeepAliveNodes
<1>4. ASSUME NEW c \in Conns, HandleError(c) \/ ReadFails(c) \/ ReadNothing(c) \/ WriteFails(c)
      PROVE  NodesInv'
  BY <1>4, NodesAfterClose
     DEF HandleError, ReadFails, ReadNothing, WriteFails, WriteVarsElse
<1>5. ASSUME NEW c \in Conns, WriteAll(c) PROVE NodesInv'
  BY <1>1, <1>5, NodesAfterClose DEF WriteAll, WriteVarsElse, mgrVars
<1>6. ASSUME NEW c \in Conns, RespondAndKeep(c) PROVE NodesInv'
  BY <1>6, NodesAfterFlush DEF RespondAndKeep, Handling, Respond
<1> QED
  BY <1>1, <1>2, <1>3, <1>4, <1>5, <1>6, NodesAfterTick, NodesAfterExpiry
     DEF Next, LoopStep, Poll, PollTimer, ChannelStep, HandleRead, HandleWrite,
         HandleHttpReq, PeerStep, vars, sockVars, loopVars, connVars, mgrVars,
         PeerVarsElse, WriteVarsElse, PeerSends, PeerShutsDown, PeerResets,
         PeerDrains, PollReturns, EndBatch, UseAfterFree, ReadToEof, ReadData,
         SkipRead, WriteSome, RespondAndClose, RespondToShutdown, Respond,
         ParseForever, SkipHandler, EndFunctors

LEMMA OrderInductive ==
  TypeOK /\ NodesInv /\ ListInExpiryOrder /\ [Next]_vars => ListInExpiryOrder'
<1> SUFFICES ASSUME TypeOK, NodesInv, ListInExpiryOrder, [Next]_vars
             PROVE  ListInExpiryOrder'
  OBVIOUS
<1> DEFINE n == Len(keepAliveList_)
<1>0. /\ DOMAIN keepAliveList_ = 1 .. n /\ n \in Nat
      /\ \A i \in 1 .. n : keepAliveList_[i] \in Nodes
  BY LenProperties, ElementOfSeq DEF TypeOK
<1>1. CASE UNCHANGED keepAliveList_
  BY <1>1 DEF ListInExpiryOrder
<1>2. CASE Tick
  <2>1. /\ DOMAIN keepAliveList_' = 1 .. n
        /\ \A i \in 1 .. n : keepAliveList_'[i] = Aged(keepAliveList_[i])
    BY <1>2, ListAfterTick, LenProperties
  <2> HIDE DEF n
  <2>2. ASSUME NEW i \in 1 .. n, NEW j \in 1 .. n, i < j
        PROVE  Aged(keepAliveList_[i]).ttl <= Aged(keepAliveList_[j]).ttl
    <3>1. keepAliveList_[i].ttl <= keepAliveList_[j].ttl
      BY <1>0, <2>2 DEF ListInExpiryOrder
    <3>2. keepAliveList_[i] \in Nodes /\ keepAliveList_[j] \in Nodes
      BY <1>0
    <3> QED
      BY <3>1, <3>2 DEF Aged, Nodes
  <2> QED
    BY <2>1, <2>2 DEF ListInExpiryOrder
<1>3. CASE HandleExpireEvent
  <2> DEFINE k == Cardinality(ExpiredPrefix)
  <2>1. /\ k \in 0 .. n /\ DOMAIN keepAliveList_' = 1 .. n - k
        /\ \A i \in 1 .. n - k : keepAliveList_'[i] = keepAliveList_[k + i]
    BY <1>3, ListAfterExpiry, LenProperties
  <2> HIDE DEF n, k
  <2>2. ASSUME NEW i \in 1 .. n - k, NEW j \in 1 .. n - k, i < j
        PROVE  keepAliveList_[k + i].ttl <= keepAliveList_[k + j].ttl
    <3>1. k + i \in 1 .. n /\ k + j \in 1 .. n /\ k + i < k + j
      BY <1>0, <2>1, <2>2
    <3> QED
      BY <1>0, <3>1 DEF ListInExpiryOrder
  <2> QED
    BY <2>1, <2>2 DEF ListInExpiryOrder
<1>4. ASSUME NEW c \in Conns, FlushKeepAlive(c) PROVE ListInExpiryOrder'
  <2> DEFINE m == Len(keepAliveList_')
  <2>1. /\ DOMAIN keepAliveList_' = 1 .. m /\ m \in Nat
        /\ keepAliveList_'[m].ttl = ExpireTicks
        /\ \A i \in 1 .. m - 1 :
             Before(i, c) \in 1 .. n /\ keepAliveList_'[i] = keepAliveList_[Before(i, c)]
    <3>1. KeepAliveNodes
      BY DEF NodesInv
    <3>2. keepAliveList_'[m] = [ch |-> c, ttl |-> ExpireTicks]
      BY <1>4, <3>1, ListAfterFlush
    <3> QED
      BY <1>4, <3>1, <3>2, ListAfterFlush
  <2>2. c \in keepAliveSet_ => TimerNode(c) \in Nat
    BY TimerNodeIsValid DEF NodesInv
  <2> HIDE DEF n, m
  <2> SUFFICES ASSUME NEW i \in 1 .. m, NEW j \in 1 .. m, i < j
               PROVE  keepAliveList_'[i].ttl <= keepAliveList_'[j].ttl
    BY <2>1 DEF ListInExpiryOrder
  <2>3. i \in 1 .. m - 1 /\ keepAliveList_[Before(i, c)] \in Nodes
    BY <1>0, <2>1
  <2>4. CASE j = m
    BY <2>1, <2>3, <2>4, ConnsAssumption DEF Nodes
  <2>5. CASE j # m
    <3>1. j \in 1 .. m - 1
      BY <2>1, <2>5
    <3>2. Before(i, c) < Before(j, c)
      BY <2>1, <2>2, <2>3, <3>1 DEF Before
    <3>3. keepAliveList_[Before(i, c)].ttl <= keepAliveList_[Before(j, c)].ttl
      BY <1>0, <2>1, <2>3, <3>1, <3>2 DEF ListInExpiryOrder
    <3> QED
      BY <2>1, <2>3, <3>1, <3>3
  <2> QED
    BY <2>4, <2>5
<1>5. ASSUME NEW c \in Conns, RespondAndKeep(c) PROVE ListInExpiryOrder'
  BY <1>4, <1>5 DEF RespondAndKeep
<1> QED
  BY <1>1, <1>2, <1>3, <1>5, ZenonT(40)
     DEF Next, LoopStep, Poll, PollTimer, ChannelStep, HandleRead, HandleWrite,
         HandleHttpReq, PeerStep, vars, sockVars, loopVars, connVars, mgrVars,
         PeerVarsElse, WriteVarsElse, PeerSends, PeerShutsDown, PeerResets,
         PeerDrains, PollReturns, EndBatch, UseAfterFree, ReadToEof, ReadData,
         SkipRead, WriteSome, RespondAndClose, RespondToShutdown, Respond,
         ParseForever, SkipHandler, EndFunctors, Accept, AddHttpConnection,
         HandleError, ReadFails, ReadNothing, WriteFails, WriteAll

-----------------------------------------------------------------------------
(* Input and output.                                                            *)
LEMMA InputInductive ==
  TypeOK /\ PlaceInv /\ NodesInv /\ InputInv /\ [Next]_vars => InputInv'
<1> SUFFICES ASSUME TypeOK, PlaceInv, KeepAliveNodes, InputInv, [Next]_vars,
                    NEW d \in httpMap'
             PROVE  InputAt(d)'
  BY DEF InputInv, NodesInv
<1> USE DEF TypeOK, PlaceInv, InputInv, InputAt, WillBeRead, Events, sockVars,
        loopVars, connVars, mgrVars
<1>0. CASE UNCHANGED vars
  BY <1>0 DEF vars
<1>1. ASSUME NEW c \in Conns, Accept(c) PROVE InputAt(d)'
  BY <1>1 DEF Accept
<1>2. ASSUME NEW c \in Conns, PeerSends(c) PROVE InputAt(d)'
  BY <1>2 DEF PeerSends, Arm, PeerVarsElse
<1>3. ASSUME NEW c \in Conns, PeerShutsDown(c) PROVE InputAt(d)'
  BY <1>3 DEF PeerShutsDown, Arm, PeerVarsElse
<1>4. ASSUME NEW c \in Conns, PeerResets(c) PROVE InputAt(d)'
  BY <1>4 DEF PeerResets, Arm, PeerVarsElse
<1>5. ASSUME NEW c \in Conns, PeerDrains(c) PROVE InputAt(d)'
  BY <1>5 DEF PeerDrains, Arm, PeerVarsElse
<1>6. ASSUME Tick PROVE InputAt(d)'
  BY <1>6 DEF Tick
<1>7. ASSUME NEW timer \in BOOLEAN, PollReturns(timer) PROVE InputAt(d)'
  BY <1>7 DEF PollReturns, ReadyEvents
<1>8. ASSUME EndBatch PROVE InputAt(d)'
  BY <1>8 DEF EndBatch
<1>9. ASSUME HandleExpireEvent PROVE InputAt(d)'
  <2>1. HandleClose(Expired) /\ UNCHANGED loopPc
    BY <1>9, ExpiryCloses
  <2> QED
    BY <1>9, <2>1 DEF HandleExpireEvent, HandleClose
<1>10. ASSUME NEW c \in Conns, UseAfterFree(c) PROVE InputAt(d)'
  BY <1>10 DEF UseAfterFree, Dispatching
<1>11. ASSUME NEW c \in Conns, HandleError(c) PROVE InputAt(d)'
  BY <1>11 DEF HandleError, Dispatching, HandleClose, ChannelDone
<1>12. ASSUME NEW c \in Conns, ReadFails(c) PROVE InputAt(d)'
  BY <1>12 DEF ReadFails, Reading, Dispatching, HandleClose, AfterRead, GoTo
<1>13. ASSUME NEW c \in Conns, ReadNothing(c) PROVE InputAt(d)'
  BY <1>13 DEF ReadNothing, EmptySocket, Reading, Dispatching, HandleClose,
     AfterRead, GoTo
<1>14. ASSUME NEW c \in Conns, ReadToEof(c) PROVE InputAt(d)'
  BY <1>14 DEF ReadToEof, EmptySocket, Reading, Dispatching, UpdateChannel,
     AfterRead, GoTo
<1>15. ASSUME NEW c \in Conns, ReadData(c) PROVE InputAt(d)'
  BY <1>15 DEF ReadData, EmptySocket, Reading, Dispatching, AfterRead, GoTo
<1>16. ASSUME NEW c \in Conns, SkipRead(c) PROVE InputAt(d)'
  BY <1>16 DEF SkipRead, Dispatching, GoTo
<1>17. ASSUME NEW c \in Conns, WriteFails(c) PROVE InputAt(d)'
  BY <1>17 DEF WriteFails, Writing, HandleClose, GoTo, WriteVarsElse
<1>18. ASSUME NEW c \in Conns, WriteSome(c) PROVE InputAt(d)'
  BY <1>18 DEF WriteSome, Writing, GoTo, WriteVarsElse
<1>19. ASSUME NEW c \in Conns, WriteAll(c) PROVE InputAt(d)'
  BY <1>19 DEF WriteAll, Writing, HandleClose, UpdateChannel, GoTo, WriteVarsElse
<1>20. ASSUME NEW c \in Conns, RespondAndClose(c) PROVE InputAt(d)'
  BY <1>20 DEF RespondAndClose, Handling, Respond, ChannelDone, UpdateChannel
<1>21. ASSUME NEW c \in Conns, RespondToShutdown(c) PROVE InputAt(d)'
  BY <1>21 DEF RespondToShutdown, Handling, Respond, ChannelDone, UpdateChannel
<1>22. ASSUME NEW c \in Conns, RespondAndKeep(c) PROVE InputAt(d)'
  BY <1>22 DEF RespondAndKeep, Handling, Respond, ChannelDone, UpdateChannel,
     FlushKeepAlive
<1>23. ASSUME NEW c \in Conns, ParseForever(c) PROVE InputAt(d)'
  BY <1>23 DEF ParseForever, Handling
<1>24. ASSUME NEW c \in Conns, SkipHandler(c) PROVE InputAt(d)'
  BY <1>24 DEF SkipHandler, ChannelDone
<1>25. ASSUME NEW c \in Conns, AddHttpConnection(c) PROVE InputAt(d)'
  BY <1>25 DEF AddHttpConnection, UpdateChannel
<1>26. ASSUME EndFunctors PROVE InputAt(d)'
  BY <1>26 DEF EndFunctors
<1> HIDE DEF TypeOK, PlaceInv, InputInv, InputAt, WillBeRead, Events, sockVars,
        loopVars, connVars, mgrVars
<1> QED
  BY <1>0, <1>1, <1>2, <1>3, <1>4, <1>5, <1>6, <1>7, <1>8, <1>9, <1>10, <1>11,
     <1>12, <1>13, <1>14, <1>15, <1>16, <1>17, <1>18, <1>19, <1>20, <1>21, <1>22,
     <1>23, <1>24, <1>25, <1>26
     DEF Next, LoopStep, Poll, PollTimer, ChannelStep, HandleRead, HandleWrite,
         HandleHttpReq, PeerStep

LEMMA OutputInductive ==
  TypeOK /\ PlaceInv /\ NodesInv /\ OutputInv /\ [Next]_vars => OutputInv'
<1> SUFFICES ASSUME TypeOK, PlaceInv, KeepAliveNodes, OutputInv, [Next]_vars,
                    NEW d \in httpMap'
             PROVE  OutputAt(d)'
  BY DEF OutputInv, NodesInv
<1> USE DEF TypeOK, PlaceInv, OutputInv, OutputAt, WillBeWritten, Events, sockVars,
        loopVars, connVars, mgrVars
<1>0. CASE UNCHANGED vars
  BY <1>0 DEF vars
<1>1. ASSUME NEW c \in Conns, Accept(c) PROVE OutputAt(d)'
  BY <1>1 DEF Accept
<1>2. ASSUME NEW c \in Conns, PeerSends(c) PROVE OutputAt(d)'
  BY <1>2 DEF PeerSends, Arm, PeerVarsElse
<1>3. ASSUME NEW c \in Conns, PeerShutsDown(c) PROVE OutputAt(d)'
  BY <1>3 DEF PeerShutsDown, Arm, PeerVarsElse
<1>4. ASSUME NEW c \in Conns, PeerResets(c) PROVE OutputAt(d)'
  BY <1>4 DEF PeerResets, Arm, PeerVarsElse
<1>5. ASSUME NEW c \in Conns, PeerDrains(c) PROVE OutputAt(d)'
  BY <1>5 DEF PeerDrains, Arm, PeerVarsElse
<1>6. ASSUME Tick PROVE OutputAt(d)'
  BY <1>6 DEF Tick
<1>7. ASSUME NEW timer \in BOOLEAN, PollReturns(timer) PROVE OutputAt(d)'
  BY <1>7 DEF PollReturns, ReadyEvents
<1>8. ASSUME EndBatch PROVE OutputAt(d)'
  BY <1>8 DEF EndBatch
<1>9. ASSUME HandleExpireEvent PROVE OutputAt(d)'
  <2>1. HandleClose(Expired) /\ UNCHANGED loopPc
    BY <1>9, ExpiryCloses
  <2> QED
    BY <1>9, <2>1 DEF HandleExpireEvent, HandleClose
<1>10. ASSUME NEW c \in Conns, UseAfterFree(c) PROVE OutputAt(d)'
  BY <1>10 DEF UseAfterFree, Dispatching
<1>11. ASSUME NEW c \in Conns, HandleError(c) PROVE OutputAt(d)'
  BY <1>11 DEF HandleError, Dispatching, HandleClose, ChannelDone
<1>12. ASSUME NEW c \in Conns, ReadFails(c) PROVE OutputAt(d)'
  BY <1>12 DEF ReadFails, Reading, Dispatching, HandleClose, AfterRead, GoTo
<1>13. ASSUME NEW c \in Conns, ReadNothing(c) PROVE OutputAt(d)'
  BY <1>13 DEF ReadNothing, EmptySocket, Reading, Dispatching, HandleClose,
     AfterRead, GoTo
<1>14. ASSUME NEW c \in Conns, ReadToEof(c) PROVE OutputAt(d)'
  BY <1>14 DEF ReadToEof, EmptySocket, Reading, Dispatching, UpdateChannel,
     AfterRead, GoTo
<1>15. ASSUME NEW c \in Conns, ReadData(c) PROVE OutputAt(d)'
  BY <1>15 DEF ReadData, EmptySocket, Reading, Dispatching, AfterRead, GoTo
<1>16. ASSUME NEW c \in Conns, SkipRead(c) PROVE OutputAt(d)'
  BY <1>16 DEF SkipRead, Dispatching, GoTo
<1>17. ASSUME NEW c \in Conns, WriteFails(c) PROVE OutputAt(d)'
  BY <1>17 DEF WriteFails, Writing, HandleClose, GoTo, WriteVarsElse
<1>18. ASSUME NEW c \in Conns, WriteSome(c) PROVE OutputAt(d)'
  BY <1>18 DEF WriteSome, Writing, GoTo, WriteVarsElse
<1>19. ASSUME NEW c \in Conns, WriteAll(c) PROVE OutputAt(d)'
  BY <1>19 DEF WriteAll, Writing, HandleClose, UpdateChannel, GoTo, WriteVarsElse
<1>20. ASSUME NEW c \in Conns, RespondAndClose(c) PROVE OutputAt(d)'
  BY <1>20 DEF RespondAndClose, Handling, Respond, ChannelDone, UpdateChannel
<1>21. ASSUME NEW c \in Conns, RespondToShutdown(c) PROVE OutputAt(d)'
  BY <1>21 DEF RespondToShutdown, Handling, Respond, ChannelDone, UpdateChannel
<1>22. ASSUME NEW c \in Conns, RespondAndKeep(c) PROVE OutputAt(d)'
  BY <1>22 DEF RespondAndKeep, Handling, Respond, ChannelDone, UpdateChannel,
     FlushKeepAlive
<1>23. ASSUME NEW c \in Conns, ParseForever(c) PROVE OutputAt(d)'
  BY <1>23 DEF ParseForever, Handling
<1>24. ASSUME NEW c \in Conns, SkipHandler(c) PROVE OutputAt(d)'
  BY <1>24 DEF SkipHandler, ChannelDone
<1>25. ASSUME NEW c \in Conns, AddHttpConnection(c) PROVE OutputAt(d)'
  BY <1>25 DEF AddHttpConnection, UpdateChannel
<1>26. ASSUME EndFunctors PROVE OutputAt(d)'
  BY <1>26 DEF EndFunctors
<1> HIDE DEF TypeOK, PlaceInv, OutputInv, OutputAt, WillBeWritten, Events,
        sockVars, loopVars, connVars, mgrVars
<1> QED
  BY <1>0, <1>1, <1>2, <1>3, <1>4, <1>5, <1>6, <1>7, <1>8, <1>9, <1>10, <1>11,
     <1>12, <1>13, <1>14, <1>15, <1>16, <1>17, <1>18, <1>19, <1>20, <1>21, <1>22,
     <1>23, <1>24, <1>25, <1>26
     DEF Next, LoopStep, Poll, PollTimer, ChannelStep, HandleRead, HandleWrite,
         HandleHttpReq, PeerStep

LEMMA ClosingInductive ==
  TypeOK /\ PlaceInv /\ NodesInv /\ OutputInv /\ ClosingInv /\ [Next]_vars => ClosingInv'
<1> SUFFICES ASSUME TypeOK, PlaceInv, KeepAliveNodes, OutputInv, ClosingInv, [Next]_vars,
                    NEW d \in httpMap'
             PROVE  ClosingAt(d)'
  BY DEF ClosingInv, NodesInv
<1> USE DEF TypeOK, PlaceInv, OutputInv, OutputAt, ClosingInv, ClosingAt, Events,
        ConnStates, sockVars, loopVars, connVars, mgrVars
<1>0. CASE UNCHANGED vars
  BY <1>0 DEF vars
<1>1. ASSUME NEW c \in Conns, Accept(c) PROVE ClosingAt(d)'
  BY <1>1 DEF Accept
<1>2. ASSUME NEW c \in Conns, PeerSends(c) PROVE ClosingAt(d)'
  BY <1>2 DEF PeerSends, Arm, PeerVarsElse
<1>3. ASSUME NEW c \in Conns, PeerShutsDown(c) PROVE ClosingAt(d)'
  BY <1>3 DEF PeerShutsDown, Arm, PeerVarsElse
<1>4. ASSUME NEW c \in Conns, PeerResets(c) PROVE ClosingAt(d)'
  BY <1>4 DEF PeerResets, Arm, PeerVarsElse
<1>5. ASSUME NEW c \in Conns, PeerDrains(c) PROVE ClosingAt(d)'
  BY <1>5 DEF PeerDrains, Arm, PeerVarsElse
<1>6. ASSUME Tick PROVE ClosingAt(d)'
  BY <1>6 DEF Tick
<1>7. ASSUME NEW timer \in BOOLEAN, PollReturns(timer) PROVE ClosingAt(d)'
  BY <1>7 DEF PollReturns, ReadyEvents
<1>8. ASSUME EndBatch PROVE ClosingAt(d)'
  BY <1>8 DEF EndBatch
<1>9. ASSUME HandleExpireEvent PROVE ClosingAt(d)'
  <2>1. HandleClose(Expired) /\ UNCHANGED loopPc
    BY <1>9, ExpiryCloses
  <2> QED
    BY <1>9, <2>1 DEF HandleExpireEvent, HandleClose
<1>10. ASSUME NEW c \in Conns, UseAfterFree(c) PROVE ClosingAt(d)'
  BY <1>10 DEF UseAfterFree, Dispatching
<1>11. ASSUME NEW c \in Conns, HandleError(c) PROVE ClosingAt(d)'
  BY <1>11 DEF HandleError, Dispatching, HandleClose, ChannelDone
<1>12. ASSUME NEW c \in Conns, ReadFails(c) PROVE ClosingAt(d)'
  BY <1>12 DEF ReadFails, Reading, Dispatching, HandleClose, AfterRead, GoTo
<1>13. ASSUME NEW c \in Conns, ReadNothing(c) PROVE ClosingAt(d)'
  BY <1>13 DEF ReadNothing, EmptySocket, Reading, Dispatching, HandleClose,
     AfterRead, GoTo
<1>14. ASSUME NEW c \in Conns, ReadToEof(c) PROVE ClosingAt(d)'
  BY <1>14 DEF ReadToEof, EmptySocket, Reading, Dispatching, UpdateChannel,
     AfterRead, GoTo
<1>15. ASSUME NEW c \in Conns, ReadData(c) PROVE ClosingAt(d)'
  BY <1>15 DEF ReadData, EmptySocket, Reading, Dispatching, AfterRead, GoTo
<1>16. ASSUME NEW c \in Conns, SkipRead(c) PROVE ClosingAt(d)'
  BY <1>16 DEF SkipRead, Dispatching, GoTo
<1>17. ASSUME NEW c \in Conns, WriteFails(c) PROVE ClosingAt(d)'
  BY <1>17 DEF WriteFails, Writing, HandleClose, GoTo, WriteVarsElse
<1>18. ASSUME NEW c \in Conns, WriteSome(c) PROVE ClosingAt(d)'
  BY <1>18 DEF WriteSome, Writing, GoTo, WriteVarsElse
<1>19. ASSUME NEW c \in Conns, WriteAll(c) PROVE ClosingAt(d)'
  BY <1>19 DEF WriteAll, Writing, HandleClose, UpdateChannel, GoTo, WriteVarsElse
<1>20. ASSUME NEW c \in Conns, RespondAndClose(c) PROVE ClosingAt(d)'
  BY <1>20 DEF RespondAndClose, Handling, Respond, ChannelDone, UpdateChannel
<1>21. ASSUME NEW c \in Conns, RespondToShutdown(c) PROVE ClosingAt(d)'
  BY <1>21 DEF RespondToShutdown, Handling, Respond, ChannelDone, UpdateChannel
<1>22. ASSUME NEW c \in Conns, RespondAndKeep(c) PROVE ClosingAt(d)'
  BY <1>22 DEF RespondAndKeep, Handling, Respond, ChannelDone, UpdateChannel,
     FlushKeepAlive
<1>23. ASSUME NEW c \in Conns, ParseForever(c) PROVE ClosingAt(d)'
  BY <1>23 DEF ParseForever, Handling
<1>24. ASSUME NEW c \in Conns, SkipHandler(c) PROVE ClosingAt(d)'
  BY <1>24 DEF SkipHandler, ChannelDone
<1>25. ASSUME NEW c \in Conns, AddHttpConnection(c) PROVE ClosingAt(d)'
  BY <1>25 DEF AddHttpConnection, UpdateChannel
<1>26. ASSUME EndFunctors PROVE ClosingAt(d)'
  BY <1>26 DEF EndFunctors
<1> HIDE DEF TypeOK, PlaceInv, OutputInv, OutputAt, ClosingInv, ClosingAt, Events,
        ConnStates, sockVars, loopVars, connVars, mgrVars
<1> QED
  BY <1>0, <1>1, <1>2, <1>3, <1>4, <1>5, <1>6, <1>7, <1>8, <1>9, <1>10, <1>11,
     <1>12, <1>13, <1>14, <1>15, <1>16, <1>17, <1>18, <1>19, <1>20, <1>21, <1>22,
     <1>23, <1>24, <1>25, <1>26
     DEF Next, LoopStep, Poll, PollTimer, ChannelStep, HandleRead, HandleWrite,
         HandleHttpReq, PeerStep

LEMMA ExpiryInductive ==
  TypeOK /\ PlaceInv /\ NodesInv /\ ExpiryInv /\ [Next]_vars => ExpiryInv'
<1> SUFFICES ASSUME TypeOK, PlaceInv, KeepAliveNodes, ExpiryInv, [Next]_vars,
                    NEW d \in httpMap'
             PROVE  ExpiryAt(d)'
  BY DEF ExpiryInv, NodesInv
<1> USE DEF TypeOK, PlaceInv, ExpiryInv, ExpiryAt, Events, ConnStates, sockVars,
        loopVars, connVars, mgrVars
<1>0. CASE UNCHANGED vars
  BY <1>0 DEF vars
<1>1. ASSUME NEW c \in Conns, Accept(c) PROVE ExpiryAt(d)'
  BY <1>1 DEF Accept
<1>2. ASSUME NEW c \in Conns, PeerSends(c) PROVE ExpiryAt(d)'
  BY <1>2 DEF PeerSends, Arm, PeerVarsElse
<1>3. ASSUME NEW c \in Conns, PeerShutsDown(c) PROVE ExpiryAt(d)'
  BY <1>3 DEF PeerShutsDown, Arm, PeerVarsElse
<1>4. ASSUME NEW c \in Conns, PeerResets(c) PROVE ExpiryAt(d)'
  BY <1>4 DEF PeerResets, Arm, PeerVarsElse
<1>5. ASSUME NEW c \in Conns, PeerDrains(c) PROVE ExpiryAt(d)'
  BY <1>5 DEF PeerDrains, Arm, PeerVarsElse
<1>6. ASSUME Tick PROVE ExpiryAt(d)'
  BY <1>6 DEF Tick
<1>7. ASSUME NEW timer \in BOOLEAN, PollReturns(timer) PROVE ExpiryAt(d)'
  BY <1>7 DEF PollReturns, ReadyEvents
<1>8. ASSUME EndBatch PROVE ExpiryAt(d)'
  BY <1>8 DEF EndBatch
<1>9. ASSUME HandleExpireEvent PROVE ExpiryAt(d)'
  <2>1. HandleClose(Expired) /\ UNCHANGED loopPc
    BY <1>9, ExpiryCloses
  <2> QED
    BY <1>9, <2>1 DEF HandleExpireEvent, HandleClose
<1>10. ASSUME NEW c \in Conns, UseAfterFree(c) PROVE ExpiryAt(d)'
  BY <1>10 DEF UseAfterFree, Dispatching
<1>11. ASSUME NEW c \in Conns, HandleError(c) PROVE ExpiryAt(d)'
  BY <1>11 DEF HandleError, Dispatching, HandleClose, ChannelDone
<1>12. ASSUME NEW c \in Conns, ReadFails(c) PROVE ExpiryAt(d)'
  BY <1>12 DEF ReadFails, Reading, Dispatching, HandleClose, AfterRead, GoTo
<1>13. ASSUME NEW c \in Conns, ReadNothing(c) PROVE ExpiryAt(d)'
  BY <1>13 DEF ReadNothing, EmptySocket, Reading, Dispatching, HandleClose,
     AfterRead, GoTo
<1>14. ASSUME NEW c \in Conns, ReadToEof(c) PROVE ExpiryAt(d)'
  BY <1>14 DEF ReadToEof, EmptySocket, Reading, Dispatching, UpdateChannel,
     AfterRead, GoTo
<1>15. ASSUME NEW c \in Conns, ReadData(c) PROVE ExpiryAt(d)'
  BY <1>15 DEF ReadData, EmptySocket, Reading, Dispatching, AfterRead, GoTo
<1>16. ASSUME NEW c \in Conns, SkipRead(c) PROVE ExpiryAt(d)'
  BY <1>16 DEF SkipRead, Dispatching, GoTo
<1>17. ASSUME NEW c \in Conns, WriteFails(c) PROVE ExpiryAt(d)'
  BY <1>17 DEF WriteFails, Writing, HandleClose, GoTo, WriteVarsElse
<1>18. ASSUME NEW c \in Conns, WriteSome(c) PROVE ExpiryAt(d)'
  BY <1>18 DEF WriteSome, Writing, GoTo, WriteVarsElse
<1>19. ASSUME NEW c \in Conns, WriteAll(c) PROVE ExpiryAt(d)'
  BY <1>19 DEF WriteAll, Writing, HandleClose, UpdateChannel, GoTo, WriteVarsElse
<1>20. ASSUME NEW c \in Conns, RespondAndClose(c) PROVE ExpiryAt(d)'
  BY <1>20 DEF RespondAndClose, Handling, Respond, ChannelDone, UpdateChannel
<1>21. ASSUME NEW c \in Conns, RespondToShutdown(c) PROVE ExpiryAt(d)'
  BY <1>21 DEF RespondToShutdown, Handling, Respond, ChannelDone, UpdateChannel
<1>22. ASSUME NEW c \in Conns, RespondAndKeep(c) PROVE ExpiryAt(d)'
  BY <1>22 DEF RespondAndKeep, Handling, Respond, ChannelDone, UpdateChannel,
     FlushKeepAlive
<1>23. ASSUME NEW c \in Conns, ParseForever(c) PROVE ExpiryAt(d)'
  BY <1>23 DEF ParseForever, Handling
<1>24. ASSUME NEW c \in Conns, SkipHandler(c) PROVE ExpiryAt(d)'
  BY <1>24 DEF SkipHandler, ChannelDone
<1>25. ASSUME NEW c \in Conns, AddHttpConnection(c) PROVE ExpiryAt(d)'
  BY <1>25 DEF AddHttpConnection, UpdateChannel
<1>26. ASSUME EndFunctors PROVE ExpiryAt(d)'
  BY <1>26 DEF EndFunctors
<1> HIDE DEF TypeOK, PlaceInv, ExpiryInv, ExpiryAt, Events, ConnStates, sockVars,
        loopVars, connVars, mgrVars
<1> QED
  BY <1>0, <1>1, <1>2, <1>3, <1>4, <1>5, <1>6, <1>7, <1>8, <1>9, <1>10, <1>11,
     <1>12, <1>13, <1>14, <1>15, <1>16, <1>17, <1>18, <1>19, <1>20, <1>21, <1>22,
     <1>23, <1>24, <1>25, <1>26
     DEF Next, LoopStep, Poll, PollTimer, ChannelStep, HandleRead, HandleWrite,
         HandleHttpReq, PeerStep

-----------------------------------------------------------------------------
(* The inductive invariant.                                                   *)
IInv == /\ TypeOK /\ PlaceInv /\ NodesInv /\ ListInExpiryOrder
        /\ InputInv /\ OutputInv /\ ClosingInv /\ ExpiryInv

LEMMA InitIInv == Init => IInv
<1> SUFFICES ASSUME Init PROVE IInv
  OBVIOUS
<1>1. TypeOK
  <2>1. 0 \in 0 .. MaxRequests
    BY ConnsAssumption
  <2>2. <<>> \in Seq(Requests) /\ <<>> \in Seq(Nodes)
    BY EmptySeq
  <2> QED
    BY <2>1, <2>2 DEF Init, TypeOK, LoopPcs, ConnStates
<1>2. PlaceInv /\ InputInv /\ OutputInv /\ ClosingInv /\ ExpiryInv
  BY DEF Init, PlaceInv, InputInv, OutputInv, ClosingInv, ExpiryInv
<1>3. DOMAIN keepAliveList_ = {}
  BY EmptySeq DEF Init
<1>4. NodesInv /\ ListInExpiryOrder
  BY <1>3 DEF Init, NodesInv, KeepAliveNodes, ListInExpiryOrder
<1> QED
  BY <1>1, <1>2, <1>4 DEF IInv

LEMMA IInvInductive == IInv /\ [Next]_vars => IInv'
BY TypeInductive, PlaceInductive, NodesInductive, OrderInductive, InputInductive,
   OutputInductive, ClosingInductive, ExpiryInductive
   DEF IInv

(* The loop's bookkeeping is consistent in every reachable state.             *)
THEOREM Invariance == Spec => []IInv
<1>1. Init => IInv
  BY InitIInv
<1>2. IInv /\ [Next]_vars => IInv'
  BY IInvInductive
<1> QED
  BY <1>1, <1>2, PTL DEF Spec

(* Every variable of the loop keeps its type.                                 *)
THEOREM TypeCorrect == Spec => []TypeOK
<1>1. IInv => TypeOK
  BY DEF IInv
<1> QED
  BY <1>1, Invariance, PTL

(* timerNode_ is a valid iterator whenever flushKeepAlive erases by it.       *)
THEOREM KeepAliveNodesHolds == Spec => []KeepAliveNodes
<1>1. IInv => KeepAliveNodes
  BY DEF IInv, NodesInv
<1> QED
  BY <1>1, Invariance, PTL

(* handleExpireEvent may stop at the first entry that has not expired.        *)
THEOREM ListInExpiryOrderHolds == Spec => []ListInExpiryOrder
<1>1. IInv => ListInExpiryOrder
  BY DEF IInv
<1> QED
  BY <1>1, Invariance, PTL

(* The loop never sleeps on data, or on a reset, it will not be told of again. *)
THEOREM NoLostInputHolds == Spec => []NoLostInput
<1>1. IInv => NoLostInput
  BY DEF IInv, InputInv, InputAt, NoLostInput, WillBeRead
<1> QED
  BY <1>1, Invariance, PTL

(* A response in __out_buffer is on its way out, or waits for the peer.       *)
THEOREM NoStuckOutputHolds == Spec => []NoStuckOutput
<1>1. IInv => NoStuckOutput
  BY DEF IInv, OutputInv, OutputAt, NoStuckOutput
<1> QED
  BY <1>1, Invariance, PTL

(* A connection that no longer reads has the output whose end closes it.      *)
THEOREM ClosingHasOutputHolds == Spec => []ClosingHasOutput
<1>1. IInv => ClosingHasOutput
  BY DEF IInv, ClosingInv, ClosingAt, ClosingHasOutput
<1> QED
  BY <1>1, Invariance, PTL

(* Between batches every connection that sends requests can time out.         *)
THEOREM ActiveConnectionsExpireHolds == Spec => []ActiveConnectionsExpire
<1>1. IInv => ActiveConnectionsExpire
  BY DEF IInv, PlaceInv, ExpiryInv, ExpiryAt, ActiveConnectionsExpire
<1> QED
  BY <1>1, Invariance, PTL

-----------------------------------------------------------------------------
(* What getRecvBuffer() hands to the parser is a sequence of line contents    *)
(* and line ends, however many segments it was received in.                   *)
Lines ==
  {RequestLine(m, p, v) : m \in {"GET", "HEAD", "PUT"},
                          p \in {"/", "/none", "none", "/a:b"},
                          v \in {"HTTP/1.1", "HTTP/1.0"}}
    \cup {HeaderLine(k, v) : k \in {"Connection", "Host"},
                             v \in {"close", "keep-alive", "h"}}
    \cup {CRLF}

LEMMA TextOfLines == \A r \in Segments : Text[r] \in Seq(Lines)
<1>1. /\ RequestLine("GET", "/", "HTTP/1.1") \in Lines
      /\ RequestLine("HEAD", "/", "HTTP/1.0") \in Lines
      /\ RequestLine("PUT", "/none", "HTTP/1.1") \in Lines
      /\ RequestLine("GET", "none", "HTTP/1.1") \in Lines
      /\ RequestLine("GET", "/none", "HTTP/1.1") \in Lines
      /\ RequestLine("GET", "/a:b", "HTTP/1.1") \in Lines
      /\ HeaderLine("Connection", "close") \in Lines
      /\ HeaderLine("Connection", "keep-alive") \in Lines
      /\ HeaderLine("Host", "h") \in Lines
      /\ CRLF \in Lines
  BY DEF Lines
<1>2. /\ Text.keep \in Seq(Lines) /\ Text.close \in Seq(Lines)
      /\ Text.old \in Seq(Lines) /\ Text.missing \in Seq(Lines)
      /\ Text.bad \in Seq(Lines) /\ Text.first \in Seq(Lines)
      /\ Text.last \in Seq(Lines) /\ Text.cut \in Seq(Lines)
      /\ Text.rest \in Seq(Lines)
  BY <1>1 DEF Text
<1>3. Segments = {"keep", "close", "old", "missing", "bad", "first", "last", "cut",
                  "rest"}
  BY DEF Segments, Text
<1> QED
  BY <1>2, <1>3

LEMMA FlattenSeqType ==
  ASSUME NEW S, NEW s \in Seq(Seq(S))
  PROVE  FlattenSeq(s) \in Seq(S)
<1> DEFINE n == Len(s)
           Is(g, m) == \A i \in 1 .. m : g[i] = IF i = 1 THEN s[i] ELSE g[i - 1] \o s[i]
           T == {m \in 0 .. n : \E g \in [1 .. m -> Seq(S)] : Is(g, m)}
           flatten[i \in 1 .. n] == IF i = 1 THEN s[i] ELSE flatten[i - 1] \o s[i]
<1>1. n \in Nat /\ \A i \in 1 .. n : s[i] \in Seq(S)
  OBVIOUS
<1>2. CASE n = 0
  <2>1. FlattenSeq(s) = s /\ s = <<>>
    BY <1>2, EmptySeq DEF FlattenSeq
  <2> QED
    BY <2>1
<1>3. CASE n # 0
  <2> HIDE DEF n
  <2>1. 0 \in T
    <3> DEFINE g == [i \in 1 .. 0 |-> <<>>]
    <3>1. g \in [1 .. 0 -> Seq(S)] /\ Is(g, 0)
      OBVIOUS
    <3>2. 0 \in 0 .. n
      BY <1>1
    <3> QED
      BY <3>1, <3>2
  <2>2. ASSUME NEW m \in 0 .. n - 1, m \in T PROVE m + 1 \in T
    <3>1. PICK g \in [1 .. m -> Seq(S)] : Is(g, m)
      BY <2>2
    <3> DEFINE x == IF m = 0 THEN s[1] ELSE g[m] \o s[m + 1]
               h == [i \in 1 .. m + 1 |-> IF i = m + 1 THEN x ELSE g[i]]
    <3>2. x \in Seq(S)
      <4>1. CASE m = 0
        BY <1>1, <1>3, <4>1
      <4>2. CASE m # 0
        <5>1. g[m] \in Seq(S) /\ s[m + 1] \in Seq(S)
          BY <1>1, <4>2
        <5> QED
          BY <4>2, <5>1
      <4> QED
        BY <4>1, <4>2
    <3> HIDE DEF x
    <3>3. h \in [1 .. m + 1 -> Seq(S)] /\ \A i \in 1 .. m : h[i] = g[i]
      BY <3>2
    <3>4. h[m + 1] = x
      OBVIOUS
    <3> HIDE DEF h
    <3>5. ASSUME NEW i \in 1 .. m + 1
          PROVE  h[i] = IF i = 1 THEN s[i] ELSE h[i - 1] \o s[i]
      <4>1. CASE i = m + 1
        BY <3>3, <3>4, <4>1 DEF x
      <4>2. CASE i # m + 1
        <5>1. i \in 1 .. m /\ (i # 1 => i - 1 \in 1 .. m)
          BY <4>2
        <5> QED
          BY <3>1, <3>3, <5>1
      <4> QED
        BY <4>1, <4>2
    <3>6. m + 1 \in 0 .. n
      BY <1>1
    <3> QED
      BY <3>3, <3>5, <3>6
  <2>3. n \in T
    <3> HIDE DEF T
    <3>1. n \in 0 .. n
      BY <1>1
    <3>2. 0 .. n \subseteq T
      BY <1>1, <2>1, <2>2, EveryTurn
    <3> QED
      BY <3>1, <3>2
  <2>4. PICK g \in [1 .. n -> Seq(S)] : Is(g, n)
    BY <2>3
  <2>5. g = [i \in 1 .. n |-> IF i = 1 THEN s[i] ELSE g[i - 1] \o s[i]]
    <3>1. g = [i \in 1 .. n |-> g[i]]
      BY <2>4
    <3> QED
      BY <2>4, <3>1
  <2>6. flatten = [i \in 1 .. n |-> IF i = 1 THEN s[i] ELSE flatten[i - 1] \o s[i]]
    BY <2>5
  <2>7. FlattenSeq(s) = flatten[n]
    BY <1>3 DEF FlattenSeq, n
  <2> HIDE DEF flatten
  <2> DEFINE U == {m \in 0 .. n : m = 0 \/ flatten[m] \in Seq(S)}
  <2>8. 0 \in U
    BY <1>1
  <2>9. ASSUME NEW m \in 0 .. n - 1, m \in U PROVE m + 1 \in U
    <3>1. m + 1 \in 1 .. n /\ m + 1 \in 0 .. n /\ (m + 1) - 1 = m
      BY <1>1
    <3>2. flatten[m + 1] = IF m + 1 = 1 THEN s[m + 1] ELSE flatten[m] \o s[m + 1]
      BY <2>6, <3>1
    <3>3. flatten[m + 1] \in Seq(S)
      <4>1. CASE m = 0
        BY <1>1, <3>1, <3>2, <4>1
      <4>2. CASE m # 0
        <5>1. flatten[m] \in Seq(S) /\ s[m + 1] \in Seq(S) /\ m + 1 # 1
          BY <1>1, <2>9, <3>1, <4>2
        <5> QED
          BY <3>2, <5>1
      <4> QED
        BY <4>1, <4>2
    <3> QED
      BY <3>1, <3>3
  <2>10. n \in U
    <3> HIDE DEF U
    <3>1. n \in 0 .. n
      BY <1>1
    <3>2. 0 .. n \subseteq U
      BY <1>1, <2>8, <2>9, EveryTurn
    <3> QED
      BY <3>1, <3>2
  <2> QED
    BY <1>3, <2>7, <2>10
<1> QED
  BY <1>2, <1>3

(* The parser comes to an end on every buffer that holds an empty line.       *)
THEOREM ParsesWholeHeadersHolds == Spec => []ParsesWholeHeaders
<1>1. ASSUME TypeOK, NEW c \in Conns PROVE Buffer(c) \in Seq(Lines)
  <2> DEFINE pieces == [i \in DOMAIN inBuffer[c] |-> Text[inBuffer[c][i]]]
  <2>1. inBuffer[c] \in Seq(Requests)
    BY <1>1 DEF TypeOK
  <2>2. /\ DOMAIN inBuffer[c] = 1 .. Len(inBuffer[c])
        /\ Len(inBuffer[c]) \in Nat
        /\ \A i \in 1 .. Len(inBuffer[c]) : inBuffer[c][i] \in Segments
    BY <2>1, ConnsAssumption
  <2>3. pieces \in Seq(Seq(Lines))
    BY <2>2, TextOfLines
  <2> HIDE DEF pieces
  <2>4. FlattenSeq(pieces) \in Seq(Lines)
    BY <2>3, FlattenSeqType
  <2> QED
    BY <2>4 DEF Buffer, pieces
<1>2. TypeOK => ParsesWholeHeaders
  BY <1>1, EmptyLineEndsWalk DEF ParsesWholeHeaders
<1> QED
  BY <1>2, TypeCorrect, PTL

-----------------------------------------------------------------------------
(* What a batch may do.                                                       *)

(* The connection being handled came with an event, and one that has answered *)
(* nothing yet is not written to.                                             *)
EventInv ==
  /\ \A c \in cur : revents_[c] # {}
  /\ \A c \in Conns : state_[c] = "kConnected" => "OUT" \notin events_[c] \cup revents_[c]

LEMMA EventInductive == TypeOK /\ PlaceInv /\ EventInv /\ [Next]_vars => EventInv'
<1> SUFFICES ASSUME TypeOK, PlaceInv, EventInv, [Next]_vars PROVE EventInv'
  OBVIOUS
<1> USE DEF TypeOK, PlaceInv, EventInv, sockVars, loopVars, connVars, mgrVars
<1>0. CASE UNCHANGED vars
  BY <1>0 DEF vars
<1>1. ASSUME NEW c \in Conns, Accept(c) PROVE EventInv'
  BY <1>1 DEF Accept
<1>2. ASSUME NEW c \in Conns, PeerSends(c) PROVE EventInv'
  BY <1>2 DEF PeerSends, Arm, PeerVarsElse
<1>3. ASSUME NEW c \in Conns, PeerShutsDown(c) PROVE EventInv'
  BY <1>3 DEF PeerShutsDown, Arm, PeerVarsElse
<1>4. ASSUME NEW c \in Conns, PeerResets(c) PROVE EventInv'
  BY <1>4 DEF PeerResets, Arm, PeerVarsElse
<1>5. ASSUME NEW c \in Conns, PeerDrains(c) PROVE EventInv'
  BY <1>5 DEF PeerDrains, Arm, PeerVarsElse
<1>6. ASSUME Tick PROVE EventInv'
  BY <1>6 DEF Tick
<1>7. ASSUME NEW timer \in BOOLEAN, PollReturns(timer) PROVE EventInv'
  BY <1>7 DEF ReadyEvents, PollReturns
<1>8. ASSUME EndBatch PROVE EventInv'
  BY <1>8 DEF EndBatch, Unhandled
<1>9. ASSUME HandleExpireEvent PROVE EventInv'
  BY <1>9 DEF HandleExpireEvent, HandleClose
<1>10. ASSUME NEW c \in Conns, UseAfterFree(c) PROVE EventInv'
  BY <1>10 DEF UseAfterFree
<1>11. ASSUME NEW c \in Conns, HandleError(c) PROVE EventInv'
  BY <1>11 DEF HandleError, Dispatching, HandleClose, ChannelDone
<1>12. ASSUME NEW c \in Conns, ReadFails(c) PROVE EventInv'
  BY <1>12 DEF Unhandled, ReadFails, Reading, Dispatching, HandleClose, AfterRead, GoTo
<1>13. ASSUME NEW c \in Conns, ReadNothing(c) PROVE EventInv'
  BY <1>13 DEF Unhandled, ReadNothing, EmptySocket, Reading, Dispatching, HandleClose,
     AfterRead, GoTo
<1>14. ASSUME NEW c \in Conns, ReadToEof(c) PROVE EventInv'
  BY <1>14 DEF Unhandled, ReadToEof, EmptySocket, Reading, Dispatching, UpdateChannel,
     AfterRead, GoTo
<1>15. ASSUME NEW c \in Conns, ReadData(c) PROVE EventInv'
  BY <1>15 DEF Unhandled, ReadData, EmptySocket, Reading, Dispatching, AfterRead, GoTo
<1>16. ASSUME NEW c \in Conns, SkipRead(c) PROVE EventInv'
  BY <1>16 DEF Unhandled, SkipRead, Dispatching, GoTo
<1>17. ASSUME NEW c \in Conns, WriteFails(c) PROVE EventInv'
  BY <1>17 DEF WriteFails, Writing, HandleClose, GoTo, WriteVarsElse
<1>18. ASSUME NEW c \in Conns, WriteSome(c) PROVE EventInv'
  BY <1>18 DEF WriteSome, Writing, GoTo, WriteVarsElse
<1>19. ASSUME NEW c \in Conns, WriteAll(c) PROVE EventInv'
  <2>1. c \in cur /\ cur' = {c} /\ revents_' = revents_
    BY <1>19 DEF WriteAll, Writing, GoTo
  <2>2. CASE state_[c] = "kDisConnecting"
    BY <1>19, <2>1, <2>2 DEF WriteAll, HandleClose
  <2>3. CASE state_[c] # "kDisConnecting"
    <3>1. /\ state_' = state_
          /\ events_' = [events_ EXCEPT ![c] = events_[c] \ {"OUT"}]
      BY <1>19, <2>3 DEF WriteAll, UpdateChannel
    <3>2. \A e \in Conns : "OUT" \in events_'[e] => "OUT" \in events_[e]
      BY <3>1
    <3> QED
      BY <2>1, <3>1, <3>2
  <2> QED
    BY <2>2, <2>3
<1>20. ASSUME NEW c \in Conns, RespondAndClose(c) PROVE EventInv'
  BY <1>20 DEF RespondAndClose, Handling, Respond, ChannelDone, UpdateChannel
<1>21. ASSUME NEW c \in Conns, RespondToShutdown(c) PROVE EventInv'
  BY <1>21 DEF RespondToShutdown, Handling, Respond, ChannelDone, UpdateChannel
<1>22. ASSUME NEW c \in Conns, RespondAndKeep(c) PROVE EventInv'
  BY <1>22 DEF RespondAndKeep, Handling, Respond, ChannelDone, UpdateChannel,
     FlushKeepAlive
<1>23. ASSUME NEW c \in Conns, ParseForever(c) PROVE EventInv'
  BY <1>23 DEF ParseForever, Handling
<1>24. ASSUME NEW c \in Conns, SkipHandler(c) PROVE EventInv'
  BY <1>24 DEF SkipHandler, ChannelDone
<1>25. ASSUME NEW c \in Conns, AddHttpConnection(c) PROVE EventInv'
  BY <1>25 DEF AddHttpConnection, UpdateChannel
<1>26. ASSUME EndFunctors PROVE EventInv'
  BY <1>26 DEF EndFunctors
<1> QED
  BY <1>0, <1>1, <1>2, <1>3, <1>4, <1>5, <1>6, <1>7, <1>8, <1>9, <1>10, <1>11,
     <1>12, <1>13, <1>14, <1>15, <1>16, <1>17, <1>18, <1>19, <1>20, <1>21, <1>22,
     <1>23, <1>24, <1>25, <1>26
     DEF Next, LoopStep, Poll, PollTimer, ChannelStep, HandleRead, HandleWrite,
         HandleHttpReq, PeerStep

LEMMA EventInvariance == Spec => [](IInv /\ EventInv)
<1>1. Init => EventInv
  BY DEF Init, EventInv
<1>2. IInv /\ EventInv /\ [Next]_vars => EventInv'
  BY EventInductive DEF IInv
<1> QED
  BY <1>1, <1>2, Invariance, PTL DEF Spec

(* A connection was destroyed, and a callback of its Channel is to come.      *)
Dangling(c) == c \notin httpMap /\ revents_[c] # {} /\ (c \in cur => loopPc = "write")

(* The use after free that run http_use_after_free shows has two causes:      *)
(* handleExpireEvent closes a connection whose event is later in the batch,   *)
(* or handleRead closes the connection, for a reset that came after the poll, *)
(* and handleWrite is called for the same event (Channel.cc:52-60).           *)
DanglesByExpiryOrReset ==
  \A c \in Conns :
    /\ UseAfterFree(c) => Dangling(c)
    /\ Dangling(c)' /\ ~Dangling(c) =>
         HandleExpireEvent \/ (ReadFails(c) /\ "OUT" \in revents_[c])

LEMMA DanglesOnlyBy ==
  TypeOK /\ PlaceInv /\ EventInv /\ [Next]_vars => DanglesByExpiryOrReset
<1>u. ASSUME PlaceInv, EventInv, NEW c \in Conns, UseAfterFree(c) PROVE Dangling(c)
  BY <1>u DEF PlaceInv, EventInv, UseAfterFree, Dispatching, Unhandled, Dangling
<1> SUFFICES ASSUME TypeOK, PlaceInv, EventInv, [Next]_vars,
                    NEW d \in Conns, Dangling(d)', ~Dangling(d)
             PROVE  HandleExpireEvent \/ (ReadFails(d) /\ "OUT" \in revents_[d])
  BY <1>u DEF DanglesByExpiryOrReset
<1> DEFINE Cause == HandleExpireEvent \/ (ReadFails(d) /\ "OUT" \in revents_[d])
<1> USE DEF TypeOK, PlaceInv, EventInv, Dangling, sockVars, loopVars, connVars, mgrVars
<1>0. CASE UNCHANGED vars
  BY <1>0 DEF vars
<1>1. ASSUME NEW c \in Conns, Accept(c) PROVE Cause
  BY <1>1 DEF Accept
<1>2. ASSUME NEW c \in Conns, PeerSends(c) PROVE Cause
  BY <1>2 DEF PeerSends, Arm, PeerVarsElse
<1>3. ASSUME NEW c \in Conns, PeerShutsDown(c) PROVE Cause
  BY <1>3 DEF PeerShutsDown, Arm, PeerVarsElse
<1>4. ASSUME NEW c \in Conns, PeerResets(c) PROVE Cause
  BY <1>4 DEF PeerResets, Arm, PeerVarsElse
<1>5. ASSUME NEW c \in Conns, PeerDrains(c) PROVE Cause
  BY <1>5 DEF PeerDrains, Arm, PeerVarsElse
<1>6. ASSUME Tick PROVE Cause
  BY <1>6 DEF Tick
<1>7. ASSUME NEW timer \in BOOLEAN, PollReturns(timer) PROVE Cause
  BY <1>7 DEF PollReturns
<1>8. ASSUME EndBatch PROVE Cause
  BY <1>8 DEF EndBatch, Unhandled
<1>9. ASSUME HandleExpireEvent PROVE Cause
  BY <1>9
<1>10. ASSUME NEW c \in Conns, UseAfterFree(c) PROVE Cause
  BY <1>10 DEF UseAfterFree
<1>11. ASSUME NEW c \in Conns, HandleError(c) PROVE Cause
  BY <1>11 DEF HandleError, Dispatching, HandleClose, ChannelDone
<1>12. ASSUME NEW c \in Conns, ReadFails(c) PROVE Cause
  BY <1>12 DEF ReadFails, Reading, Dispatching, HandleClose, AfterRead, GoTo
<1>13. ASSUME NEW c \in Conns, ReadNothing(c) PROVE Cause
  BY <1>13 DEF ReadNothing, EmptySocket, Reading, Dispatching, HandleClose,
     AfterRead, GoTo
<1>14. ASSUME NEW c \in Conns, ReadToEof(c) PROVE Cause
  BY <1>14 DEF ReadToEof, EmptySocket, Reading, Dispatching, UpdateChannel,
     AfterRead, GoTo
<1>15. ASSUME NEW c \in Conns, ReadData(c) PROVE Cause
  BY <1>15 DEF ReadData, EmptySocket, Reading, Dispatching, AfterRead, GoTo
<1>16. ASSUME NEW c \in Conns, SkipRead(c) PROVE Cause
  BY <1>16 DEF SkipRead, Dispatching, GoTo
<1>17. ASSUME NEW c \in Conns, WriteFails(c) PROVE Cause
  BY <1>17 DEF WriteFails, Writing, HandleClose, GoTo, WriteVarsElse
<1>18. ASSUME NEW c \in Conns, WriteSome(c) PROVE Cause
  BY <1>18 DEF WriteSome, Writing, GoTo, WriteVarsElse
<1>19. ASSUME NEW c \in Conns, WriteAll(c) PROVE Cause
  BY <1>19 DEF WriteAll, Writing, HandleClose, UpdateChannel, GoTo, WriteVarsElse
<1>20. ASSUME NEW c \in Conns, RespondAndClose(c) PROVE Cause
  BY <1>20 DEF RespondAndClose, Handling, Respond, ChannelDone, UpdateChannel
<1>21. ASSUME NEW c \in Conns, RespondToShutdown(c) PROVE Cause
  BY <1>21 DEF RespondToShutdown, Handling, Respond, ChannelDone, UpdateChannel
<1>22. ASSUME NEW c \in Conns, RespondAndKeep(c) PROVE Cause
  BY <1>22 DEF RespondAndKeep, Handling, Respond, ChannelDone, UpdateChannel,
     FlushKeepAlive
<1>23. ASSUME NEW c \in Conns, ParseForever(c) PROVE Cause
  BY <1>23 DEF ParseForever, Handling
<1>24. ASSUME NEW c \in Conns, SkipHandler(c) PROVE Cause
  BY <1>24 DEF SkipHandler, ChannelDone
<1>25. ASSUME NEW c \in Conns, AddHttpConnection(c) PROVE Cause
  BY <1>25 DEF AddHttpConnection, UpdateChannel
<1>26. ASSUME EndFunctors PROVE Cause
  BY <1>26 DEF EndFunctors
<1> QED
  BY <1>0, <1>1, <1>2, <1>3, <1>4, <1>5, <1>6, <1>7, <1>8, <1>9, <1>10, <1>11,
     <1>12, <1>13, <1>14, <1>15, <1>16, <1>17, <1>18, <1>19, <1>20, <1>21, <1>22,
     <1>23, <1>24, <1>25, <1>26
     DEF Next, LoopStep, Poll, PollTimer, ChannelStep, HandleRead, HandleWrite,
         HandleHttpReq, PeerStep

(* A callback runs on a destroyed connection only in one of these two ways.   *)
THEOREM DanglesByExpiryOrResetHolds == Spec => [][DanglesByExpiryOrReset]_vars
<1>1. IInv /\ EventInv /\ [Next]_vars => [DanglesByExpiryOrReset]_vars
  BY DanglesOnlyBy DEF IInv
<1> QED
  BY <1>1, EventInvariance, PTL DEF Spec

(* The place of the loop in the handling of one event.                        *)
StageOf(pc) ==
  CASE pc = "dispatch" -> 3 [] pc = "write" -> 2 [] pc = "handler" -> 1
    [] pc \in {"poll", "functors", "crashed", "parsing"} -> 0

(* No event joins a batch, and every step of the batch goes on in the event,  *)
(* or is done with an event for good, whatever the peers do meanwhile.        *)
BatchRunsOut ==
  loopPc \in {"dispatch", "write", "handler"} =>
    /\ timerReady' => timerReady
    /\ \A c \in Conns : revents_'[c] \in {revents_[c], {}}
    /\ \/ UNCHANGED loopVars
       \/ StageOf(loopPc') < StageOf(loopPc)
       \/ timerReady /\ ~timerReady'
       \/ \E c \in Conns : revents_[c] # {} /\ revents_'[c] = {}

LEMMA BatchStep == TypeOK /\ PlaceInv /\ EventInv /\ [Next]_vars => BatchRunsOut
<1> SUFFICES ASSUME TypeOK, PlaceInv, EventInv, [Next]_vars,
                    loopPc \in {"dispatch", "write", "handler"}
             PROVE  BatchRunsOut
  BY DEF BatchRunsOut
<1> USE DEF TypeOK, PlaceInv, EventInv, BatchRunsOut, StageOf, sockVars, loopVars,
            connVars, mgrVars
<1>0. CASE UNCHANGED vars
  BY <1>0 DEF vars
<1>1. ASSUME NEW c \in Conns, Accept(c) PROVE BatchRunsOut
  BY <1>1 DEF Accept
<1>2. ASSUME NEW c \in Conns, PeerSends(c) PROVE BatchRunsOut
  BY <1>2 DEF PeerSends, Arm, PeerVarsElse
<1>3. ASSUME NEW c \in Conns, PeerShutsDown(c) PROVE BatchRunsOut
  BY <1>3 DEF PeerShutsDown, Arm, PeerVarsElse
<1>4. ASSUME NEW c \in Conns, PeerResets(c) PROVE BatchRunsOut
  BY <1>4 DEF PeerResets, Arm, PeerVarsElse
<1>5. ASSUME NEW c \in Conns, PeerDrains(c) PROVE BatchRunsOut
  BY <1>5 DEF PeerDrains, Arm, PeerVarsElse
<1>6. ASSUME Tick PROVE BatchRunsOut
  BY <1>6 DEF Tick
<1>7. ASSUME NEW timer \in BOOLEAN, PollReturns(timer) PROVE BatchRunsOut
  BY <1>7 DEF PollReturns
<1>8. ASSUME EndBatch PROVE BatchRunsOut
  BY <1>8 DEF EndBatch, Unhandled
<1>9. ASSUME HandleExpireEvent PROVE BatchRunsOut
  BY <1>9 DEF HandleExpireEvent
<1>10. ASSUME NEW c \in Conns, UseAfterFree(c) PROVE BatchRunsOut
  BY <1>10 DEF UseAfterFree
<1>11. ASSUME NEW c \in Conns, HandleError(c) PROVE BatchRunsOut
  BY <1>11 DEF HandleError, Dispatching, HandleClose, ChannelDone
<1>12. ASSUME NEW c \in Conns, ReadFails(c) PROVE BatchRunsOut
  BY <1>12 DEF ReadFails, Reading, Dispatching, HandleClose, AfterRead, GoTo
<1>13. ASSUME NEW c \in Conns, ReadNothing(c) PROVE BatchRunsOut
  BY <1>13 DEF ReadNothing, EmptySocket, Reading, Dispatching, HandleClose,
     AfterRead, GoTo
<1>14. ASSUME NEW c \in Conns, ReadToEof(c) PROVE BatchRunsOut
  BY <1>14 DEF ReadToEof, EmptySocket, Reading, Dispatching, UpdateChannel,
     AfterRead, GoTo
<1>15. ASSUME NEW c \in Conns, ReadData(c) PROVE BatchRunsOut
  BY <1>15 DEF ReadData, EmptySocket, Reading, Dispatching, AfterRead, GoTo
<1>16. ASSUME NEW c \in Conns, SkipRead(c) PROVE BatchRunsOut
  BY <1>16 DEF SkipRead, Dispatching, GoTo
<1>17. ASSUME NEW c \in Conns, WriteFails(c) PROVE BatchRunsOut
  BY <1>17 DEF WriteFails, Writing, HandleClose, GoTo, WriteVarsElse
<1>18. ASSUME NEW c \in Conns, WriteSome(c) PROVE BatchRunsOut
  BY <1>18 DEF WriteSome, Writing, GoTo, WriteVarsElse
<1>19. ASSUME NEW c \in Conns, WriteAll(c) PROVE BatchRunsOut
  BY <1>19 DEF WriteAll, Writing, HandleClose, UpdateChannel, GoTo, WriteVarsElse
<1>20. ASSUME NEW c \in Conns, RespondAndClose(c) PROVE BatchRunsOut
  BY <1>20 DEF RespondAndClose, Handling, Respond, ChannelDone, UpdateChannel
<1>21. ASSUME NEW c \in Conns, RespondToShutdown(c) PROVE BatchRunsOut
  BY <1>21 DEF RespondToShutdown, Handling, Respond, ChannelDone, UpdateChannel
<1>22. ASSUME NEW c \in Conns, RespondAndKeep(c) PROVE BatchRunsOut
  BY <1>22 DEF RespondAndKeep, Handling, Respond, ChannelDone, UpdateChannel,
     FlushKeepAlive
<1>23. ASSUME NEW c \in Conns, ParseForever(c) PROVE BatchRunsOut
  BY <1>23 DEF ParseForever, Handling
<1>24. ASSUME NEW c \in Conns, SkipHandler(c) PROVE BatchRunsOut
  BY <1>24 DEF SkipHandler, ChannelDone
<1>25. ASSUME NEW c \in Conns, AddHttpConnection(c) PROVE BatchRunsOut
  BY <1>25 DEF AddHttpConnection, UpdateChannel
<1>26. ASSUME EndFunctors PROVE BatchRunsOut
  BY <1>26 DEF EndFunctors
<1> QED
  BY <1>0, <1>1, <1>2, <1>3, <1>4, <1>5, <1>6, <1>7, <1>8, <1>9, <1>10, <1>11,
     <1>12, <1>13, <1>14, <1>15, <1>16, <1>17, <1>18, <1>19, <1>20, <1>21, <1>22,
     <1>23, <1>24, <1>25, <1>26
     DEF Next, LoopStep, Poll, PollTimer, ChannelStep, HandleRead, HandleWrite,
         HandleHttpReq, PeerStep

(* The steps of a batch are numbered: peers that go on sending cannot keep    *)
(* the loop from its functors and its next poll.                              *)
THEOREM BatchRunsOutHolds == Spec => [][BatchRunsOut]_vars
<1>1. IInv /\ EventInv /\ [Next]_vars => [BatchRunsOut]_vars
  BY BatchStep DEF IInv
<1> QED
  BY <1>1, EventInvariance, PTL DEF Spec
=============================================================================
