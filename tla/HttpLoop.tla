------------------------------- MODULE HttpLoop -------------------------------
(* The connections of one EventLoop: Channel, HttpConnection, HttpHandler and *)
(* HttpManager, driven by batches of edge-triggered epoll events and by the   *)
(* keep-alive timer, against peers that send requests, shut down, reset and   *)
(* stop reading.  How connections reach the loop's thread is EventLoop's      *)
(* matter: here they are in pendingConns_ until doPendingFunctors adds them.  *)
EXTENDS HttpParse, FiniteSets, SequencesExt

CONSTANTS Conns,        \* connections, each accepted at most once
          MaxRequests,  \* bound: segments the peers send in all
          Requests,     \* the segments peers send, named as in HttpParse
          ExpireTicks   \* MAX_HTTPEXPIRETIME in clock ticks

ASSUME ConnsAssumption ==
  /\ MaxRequests \in Nat
  /\ Requests \subseteq Segments
  /\ ExpireTicks \in Nat \ {0}

VARIABLES
  (* The kernel and the peers. *)
  peer,            \* "open", "fin" (sent FIN) or "rst" (reset the connection)
  sent,            \* how many segments were sent, by all peers
  sockIn,          \* segments in the receive buffer of the socket
  blocked,         \* the send buffer of the socket is full
  armed,           \* connections on epoll's ready list
  (* The event loop. *)
  loopPc,          \* see LoopPcs
  cur,             \* the connection being dispatched, in a set of at most one
  revents_,        \* per connection: its events in this batch, not handled yet
  timerReady,      \* the timer's channel is in this batch, not handled yet
  pendingConns_,   \* connections queued for addHttpConnection
  fresh,           \* connections not accepted yet
  errno,           \* "EAGAIN" or "other": what the last failing call left
  (* Channel, HttpConnection and HttpHandler. *)
  events_, state_, inBuffer, outBuffer, keepAlive_,
  (* HttpManager. *)
  httpMap, keepAliveSet_, keepAliveList_

sockVars == <<peer, sent, sockIn, blocked>>
loopVars == <<loopPc, cur, revents_, timerReady>>
connVars == <<state_, inBuffer, outBuffer, keepAlive_>>
mgrVars  == <<httpMap, keepAliveSet_, keepAliveList_>>
vars == <<sockVars, armed, loopVars, pendingConns_, fresh, errno, events_,
          connVars, mgrVars>>

LoopPcs == {"poll", "dispatch", "write", "handler", "functors",
            "crashed", "parsing"}
ConnStates == {"kConnected", "kHandle", "kDisConnecting", "kDisconnected"}

(* "ERR" stands for EPOLLERR and EPOLLHUP, which a reset raises together.     *)
Events == {"IN", "OUT", "ERR"}

Nodes == [ch : Conns, ttl : 0 .. ExpireTicks]

TypeOK ==
  /\ peer \in [Conns -> {"open", "fin", "rst"}]
  /\ sent \in 0 .. MaxRequests
  /\ sockIn \in [Conns -> Seq(Requests)]
  /\ blocked \in [Conns -> BOOLEAN]
  /\ armed \subseteq Conns
  /\ loopPc \in LoopPcs
  /\ cur \in SUBSET Conns
  /\ revents_ \in [Conns -> SUBSET Events]
  /\ timerReady \in BOOLEAN
  /\ pendingConns_ \subseteq Conns
  /\ fresh \subseteq Conns
  /\ errno \in {"EAGAIN", "other"}
  /\ events_ \in [Conns -> SUBSET {"IN", "OUT"}]
  /\ state_ \in [Conns -> ConnStates]
  /\ inBuffer \in [Conns -> Seq(Requests)]
  /\ outBuffer \in [Conns -> BOOLEAN]
  /\ keepAlive_ \in [Conns -> BOOLEAN]
  /\ httpMap \subseteq Conns
  /\ keepAliveSet_ \subseteq Conns
  /\ keepAliveList_ \in Seq(Nodes)

Init ==
  /\ peer = [c \in Conns |-> "open"]
  /\ sent = 0
  /\ sockIn = [c \in Conns |-> <<>>]
  /\ blocked = [c \in Conns |-> FALSE]
  /\ armed = {}
  /\ loopPc = "poll"
  /\ cur = {}
  /\ revents_ = [c \in Conns |-> {}]
  /\ timerReady = FALSE
  /\ pendingConns_ = {}
  /\ fresh = Conns
  /\ errno = "other"
  /\ events_ = [c \in Conns |-> {}]
  /\ state_ = [c \in Conns |-> "kConnected"]
  /\ inBuffer = [c \in Conns |-> <<>>]
  /\ outBuffer = [c \in Conns |-> FALSE]  \* __out_buffer holds nothing
  /\ keepAlive_ = [c \in Conns |-> FALSE]
  /\ httpMap = {}
  /\ keepAliveSet_ = {}
  /\ keepAliveList_ = <<>>

-----------------------------------------------------------------------------
(* The peers, the acceptor and the clock.                                     *)

(* A peer matters while its connection is waiting to be added or in use.      *)
Live(c) == c \in pendingConns_ \cup httpMap

(* Something new on the socket puts it on the ready list, if it is watched.   *)
Arm(c) == armed' = armed \cup ({c} \cap httpMap)

PeerVarsElse == <<loopVars, pendingConns_, fresh, errno, events_, connVars, mgrVars>>

(* HttpServer::acceptor hands a connection over with queueInLoop.             *)
Accept(c) ==
  /\ c \in fresh
  /\ fresh' = fresh \ {c}
  /\ pendingConns_' = pendingConns_ \cup {c}
  /\ UNCHANGED <<sockVars, armed, loopVars, errno, events_, connVars, mgrVars>>

PeerSends(c) ==
  /\ Live(c) /\ peer[c] = "open" /\ sent < MaxRequests
  /\ sent' = sent + 1
  /\ \E r \in Requests : sockIn' = [sockIn EXCEPT ![c] = Append(@, r)]
  /\ Arm(c)
  /\ UNCHANGED <<peer, blocked, PeerVarsElse>>

PeerShutsDown(c) ==
  /\ Live(c) /\ peer[c] = "open"
  /\ peer' = [peer EXCEPT ![c] = "fin"]
  /\ Arm(c)
  /\ UNCHANGED <<sent, sockIn, blocked, PeerVarsElse>>

PeerResets(c) ==
  /\ Live(c) /\ peer[c] # "rst"
  /\ peer' = [peer EXCEPT ![c] = "rst"]
  /\ Arm(c)
  /\ UNCHANGED <<sent, sockIn, blocked, PeerVarsElse>>

(* The peer reads, and the full send buffer has room again.                   *)
PeerDrains(c) ==
  /\ Live(c) /\ blocked[c]
  /\ blocked' = [blocked EXCEPT ![c] = FALSE]
  /\ Arm(c)
  /\ UNCHANGED <<peer, sent, sockIn, PeerVarsElse>>

(* gettimeofday() advances: every keep-alive entry is nearer to its expiry.   *)
Aged(n) == [n EXCEPT !.ttl = IF @ = 0 THEN 0 ELSE @ - 1]

Tick ==
  /\ \E i \in DOMAIN keepAliveList_ : keepAliveList_[i].ttl > 0
  /\ keepAliveList_' = [i \in DOMAIN keepAliveList_ |-> Aged(keepAliveList_[i])]
  /\ UNCHANGED <<sockVars, armed, loopVars, pendingConns_, fresh, errno, events_,
                 connVars, httpMap, keepAliveSet_>>

-----------------------------------------------------------------------------
(* EventLoop::loop and Epoll::poll.                                           *)

(* What epoll reports of a watched socket: the subscribed events that hold    *)
(* now, and a reset whether subscribed or not.                                *)
ReadyEvents(c) ==
  {e \in events_[c] : \/ e = "IN" /\ (sockIn[c] # <<>> \/ peer[c] # "open")
                      \/ e = "OUT" /\ (~blocked[c] \/ peer[c] = "rst")}
    \cup {e \in {"ERR"} : peer[c] = "rst"}

Ready == {c \in armed : ReadyEvents(c) # {}}

(* epoll_wait empties the ready list into the batch.  With edge triggering an *)
(* entry comes back only by a new edge or an epoll_ctl on it.                 *)
PollReturns(timer) ==
  /\ loopPc = "poll"
  /\ revents_' = [c \in Conns |-> IF c \in armed THEN ReadyEvents(c) ELSE {}]
  /\ armed' = {}
  /\ timerReady' = timer
  /\ loopPc' = "dispatch"
  /\ UNCHANGED <<sockVars, cur, pendingConns_, fresh, errno, events_, connVars,
                 mgrVars>>

Poll == (Ready # {} \/ pendingConns_ # {}) /\ PollReturns(FALSE)

PollTimer == PollReturns(TRUE)

Unhandled == {c \in Conns : revents_[c] # {}}

(* c is the next channel of the batch; epoll's order is arbitrary.            *)
Dispatching(c) == loopPc = "dispatch" /\ c \in Unhandled

EndBatch ==
  /\ loopPc = "dispatch" /\ Unhandled = {} /\ ~timerReady
  /\ loopPc' = "functors"
  /\ UNCHANGED <<sockVars, armed, cur, revents_, timerReady, pendingConns_, fresh,
                 errno, events_, connVars, mgrVars>>

(* handleEvent() and manager_->handler() are done with the channel.           *)
ChannelDone(c) ==
  /\ loopPc' = "dispatch"
  /\ cur' = {}
  /\ revents_' = [revents_ EXCEPT ![c] = {}]
  /\ UNCHANGED timerReady

GoTo(pc, c) ==
  /\ loopPc' = pc
  /\ cur' = {c}
  /\ UNCHANGED <<revents_, timerReady>>
-----------------------------------------------------------------------------
(* Channel and Epoll: EPOLL_CTL_MOD looks at the socket again, so whatever is *)
(* ready makes a new edge; EPOLL_CTL_DEL takes it off the ready list.         *)
UpdateChannel(c, events) ==
  /\ events_' = [events_ EXCEPT ![c] = events]
  /\ armed' = armed \cup {c}

(* Mutant: delHttpConnection forgets keepAliveSet_.                           *)
HandleCloseKeepsNode(S) ==
  /\ events_' = [c \in Conns |-> IF c \in S THEN {} ELSE events_[c]]
  /\ armed' = armed \ S
  /\ state_' = [c \in Conns |-> IF c \in S THEN "kDisconnected" ELSE state_[c]]
  /\ httpMap' = httpMap \ S
  /\ UNCHANGED keepAliveSet_

(* HttpConnection::handleClose of each connection of S: disableAll, then      *)
(* EventLoop::removeChannel and HttpManager::delHttpConnection.  httpMap held *)
(* the last reference to the HttpHandler and with it to the HttpConnection:   *)
(* both are destroyed.  Entries of keepAliveList_ stay.                       *)
HandleClose(S) ==
  /\ events_' = [c \in Conns |-> IF c \in S THEN {} ELSE events_[c]]
  /\ armed' = armed \ S
  /\ state_' = [c \in Conns |-> IF c \in S THEN "kDisconnected" ELSE state_[c]]
  /\ httpMap' = httpMap \ S
  /\ keepAliveSet_' = keepAliveSet_ \ S

(* The Channel's callbacks hold a bare HttpConnection*: running one after the *)
(* connection was destroyed is undefined, and nothing is said of what follows.*)
UseAfterFree(c) ==
  /\ \/ Dispatching(c)
     \/ loopPc = "write" /\ c \in cur
  /\ c \notin httpMap
  /\ loopPc' = "crashed"
  /\ UNCHANGED <<sockVars, armed, cur, revents_, timerReady, pendingConns_, fresh,
                 errno, events_, connVars, mgrVars>>

(* Mutant: the error callback does nothing.                                   *)
HandleErrorIgnored(c) ==
  /\ Dispatching(c) /\ c \in httpMap
  /\ "ERR" \in revents_[c]
  /\ ChannelDone(c)
  /\ UNCHANGED <<sockVars, armed, pendingConns_, fresh, errno, events_, connVars,
                 mgrVars>>

(* Channel::handleEvent, EPOLLHUP or EPOLLERR: handleClose() or handleError().*)
HandleError(c) ==
  /\ Dispatching(c) /\ c \in httpMap
  /\ "ERR" \in revents_[c]
  /\ HandleClose({c})
  /\ ChannelDone(c)
  /\ UNCHANGED <<sockVars, pendingConns_, fresh, errno, inBuffer, outBuffer,
                 keepAlive_, keepAliveList_>>

-----------------------------------------------------------------------------
(* HttpConnection::handleRead.                                                *)

Reading(c) ==
  /\ Dispatching(c) /\ c \in httpMap
  /\ "ERR" \notin revents_[c] /\ "IN" \in revents_[c]

AfterRead(c) == GoTo(IF "OUT" \in revents_[c] THEN "write" ELSE "handler", c)

(* Mutant: handleRead() leaves kError to the handler.                         *)
ReadFailsStaysOpen(c) ==
  /\ Reading(c) /\ peer[c] = "rst"
  /\ sockIn' = [sockIn EXCEPT ![c] = <<>>]
  /\ state_' = [state_ EXCEPT ![c] = "kError"]
  /\ errno' = "other"
  /\ AfterRead(c)
  /\ UNCHANGED <<peer, sent, blocked, armed, pendingConns_, fresh, events_, inBuffer,
                 outBuffer, keepAlive_, mgrVars>>

(* readn() fails: the reset came after epoll_wait returned.                   *)
ReadFails(c) ==
  /\ Reading(c) /\ peer[c] = "rst"
  /\ sockIn' = [sockIn EXCEPT ![c] = <<>>]
  /\ HandleClose({c})
  /\ errno' = "other"
  /\ AfterRead(c)
  /\ UNCHANGED <<peer, sent, blocked, pendingConns_, fresh, inBuffer, outBuffer,
                 keepAlive_, keepAliveList_>>

(* Mutant: readn() reads once, not until EAGAIN.                              *)
EmptySocketOnce(c) ==
  /\ Reading(c) /\ peer[c] # "rst"
  /\ \/ sockIn[c] = <<>> /\ UNCHANGED <<inBuffer, sockIn>>
     \/ /\ sockIn[c] # <<>>
        /\ inBuffer' = [inBuffer EXCEPT ![c] = Append(@, Head(sockIn[c]))]
        /\ sockIn' = [sockIn EXCEPT ![c] = Tail(@)]
  /\ UNCHANGED errno
  /\ AfterRead(c)

(* readn() empties the socket.  A read() of 0, the peer's FIN, leaves errno   *)
(* alone, and readn() tests errno first: after an EAGAIN of an earlier call   *)
(* it takes the FIN for "no more data".                                       *)
EmptySocket(c) ==
  /\ Reading(c) /\ peer[c] # "rst"
  /\ inBuffer' = [inBuffer EXCEPT ![c] = @ \o sockIn[c]]
  /\ sockIn' = [sockIn EXCEPT ![c] = <<>>]
  /\ errno' = IF peer[c] = "open" THEN "EAGAIN" ELSE errno
  /\ AfterRead(c)

IsZero(c) == peer[c] = "fin" /\ errno # "EAGAIN"

(* The first event of the connection brought no data.                         *)
ReadNothing(c) ==
  /\ EmptySocket(c)
  /\ sockIn[c] = <<>> /\ state_[c] = "kConnected"
  /\ HandleClose({c})
  /\ UNCHANGED <<peer, sent, blocked, pendingConns_, fresh, outBuffer, keepAlive_,
                 keepAliveList_>>

(* The shutdown() may fail, by a reset meanwhile; errno is "other" already.   *)
ReadToEof(c) ==
  /\ EmptySocket(c)
  /\ ~(sockIn[c] = <<>> /\ state_[c] = "kConnected")
  /\ IsZero(c)
  /\ state_' = [state_ EXCEPT ![c] = "kDisConnecting"]
  /\ UpdateChannel(c, events_[c] \ {"IN"})
  /\ UNCHANGED <<peer, sent, blocked, pendingConns_, fresh, outBuffer, keepAlive_,
                 mgrVars>>

ReadData(c) ==
  /\ EmptySocket(c)
  /\ ~(sockIn[c] = <<>> /\ state_[c] = "kConnected")
  /\ ~IsZero(c)
  /\ state_' = [state_ EXCEPT ![c] = "kHandle"]
  /\ UNCHANGED <<peer, sent, blocked, armed, pendingConns_, fresh, events_,
                 outBuffer, keepAlive_, mgrVars>>

HandleRead(c) == ReadFails(c) \/ ReadNothing(c) \/ ReadToEof(c) \/ ReadData(c)

(* Only EPOLLOUT was reported.                                                *)
SkipRead(c) ==
  /\ Dispatching(c) /\ c \in httpMap
  /\ revents_[c] = {"OUT"}
  /\ GoTo("write", c)
  /\ UNCHANGED <<sockVars, armed, pendingConns_, fresh, errno, events_, connVars,
                 mgrVars>>

-----------------------------------------------------------------------------
(* HttpConnection::handleWrite.                                               *)

Writing(c) == loopPc = "write" /\ c \in cur /\ c \in httpMap

WriteVarsElse == <<peer, sent, sockIn, pendingConns_, fresh, inBuffer, keepAlive_,
                   keepAliveList_>>

(* write() fails: writen() drops the output and the connection is closed.     *)
WriteFails(c) ==
  /\ Writing(c) /\ peer[c] = "rst"
  /\ outBuffer' = [outBuffer EXCEPT ![c] = FALSE]
  /\ HandleClose({c})
  /\ GoTo("handler", c)
  /\ errno' = "other"
  /\ UNCHANGED <<blocked, WriteVarsElse>>

(* Mutant: handleWrite() stops watching after any write.                      *)
WriteSomeStopsWatching(c) ==
  /\ Writing(c) /\ peer[c] # "rst" /\ outBuffer[c]
  /\ blocked' = [blocked EXCEPT ![c] = TRUE]
  /\ errno' = "EAGAIN"
  /\ UpdateChannel(c, events_[c] \ {"OUT"})
  /\ GoTo("handler", c)
  /\ UNCHANGED <<state_, outBuffer, httpMap, keepAliveSet_, WriteVarsElse>>

(* The send buffer is full, or fills up before all is written.                *)
WriteSome(c) ==
  /\ Writing(c) /\ peer[c] # "rst" /\ outBuffer[c]
  /\ blocked' = [blocked EXCEPT ![c] = TRUE]
  /\ errno' = "EAGAIN"
  /\ GoTo("handler", c)
  /\ UNCHANGED <<armed, events_, state_, outBuffer, httpMap, keepAliveSet_,
                 WriteVarsElse>>

(* Mutant: the end of the response does not close the connection.             *)
WriteAllLeavesOpen(c) ==
  /\ Writing(c) /\ peer[c] # "rst" /\ (outBuffer[c] => ~blocked[c])
  /\ outBuffer' = [outBuffer EXCEPT ![c] = FALSE]
  /\ UpdateChannel(c, events_[c] \ {"OUT"})
  /\ GoTo("handler", c)
  /\ UNCHANGED <<blocked, errno, state_, httpMap, keepAliveSet_, WriteVarsElse>>

(* Everything is written: stop watching, and close if that was all to do.     *)
WriteAll(c) ==
  /\ Writing(c) /\ peer[c] # "rst" /\ (outBuffer[c] => ~blocked[c])
  /\ outBuffer' = [outBuffer EXCEPT ![c] = FALSE]
  /\ IF state_[c] = "kDisConnecting"
       THEN HandleClose({c})
       ELSE /\ UpdateChannel(c, events_[c] \ {"OUT"})
            /\ UNCHANGED <<state_, httpMap, keepAliveSet_>>
  /\ GoTo("handler", c)
  /\ UNCHANGED <<blocked, errno, WriteVarsElse>>

HandleWrite(c) == WriteFails(c) \/ WriteSome(c) \/ WriteAll(c)

-----------------------------------------------------------------------------
(* HttpManager::handler and HttpHandler::handleHttpReq.                       *)

(* The place in keepAliveList_ a handler's timerNode_ points at.              *)
TimerNode(c) ==
  CHOOSE i \in DOMAIN keepAliveList_ : keepAliveList_[i].ch = c

(* Mutant: a refreshed entry keeps its place in the list.                     *)
FlushKeepAliveInPlace(c) ==
  /\ keepAliveList_' =
       IF c \in keepAliveSet_
       THEN [i \in DOMAIN keepAliveList_ |->
               IF keepAliveList_[i].ch = c THEN [ch |-> c, ttl |-> ExpireTicks]
                                           ELSE keepAliveList_[i]]
       ELSE Append(keepAliveList_, [ch |-> c, ttl |-> ExpireTicks])
  /\ keepAliveSet_' = keepAliveSet_ \cup {c}

(* HttpManager::flushKeepAlive: only an entry of a connection in the set is   *)
(* known to be in the list.                                                   *)
FlushKeepAlive(c) ==
  /\ keepAliveList_' =
       Append(IF c \in keepAliveSet_ THEN RemoveAt(keepAliveList_, TimerNode(c))
                                     ELSE keepAliveList_,
              [ch |-> c, ttl |-> ExpireTicks])
  /\ keepAliveSet_' = keepAliveSet_ \cup {c}

(* What getRecvBuffer() hands over: all that was read since the last request. *)
Buffer(c) == FlattenSeq([i \in DOMAIN inBuffer[c] |-> Text[inBuffer[c][i]]])

Hangs(c) == Outcome(Buffer(c)) = "forever"

KeepsAlive(c) == KeepAliveAfter(Buffer(c), keepAlive_[c])

Handling(c) ==
  /\ loopPc = "handler" /\ c \in cur
  /\ c \in httpMap /\ "IN" \in revents_[c]

(* What errno may be afterwards.  The access() of a missing file leaves its   *)
(* own; for a file that is there the stat(), open() or mmap() may fail (404   *)
(* all the same), and so may the shutdown() of a connection about to close.   *)
ErrnoAfter(c) ==
  IF errno = "other" \/ NotFound(Buffer(c)) THEN {"other"}
  ELSE {errno} \cup {e \in {"other"} : ~KeepsAlive(c) \/ Outcome(Buffer(c)) = "end"}

(* Parsing and responseReq(): one response to the whole buffer, even when it  *)
(* holds part of a request, or several.                                       *)
Respond(c) ==
  /\ ~Hangs(c)
  /\ inBuffer' = [inBuffer EXCEPT ![c] = <<>>]
  /\ outBuffer' = [outBuffer EXCEPT ![c] = TRUE]
  /\ keepAlive_' = [keepAlive_ EXCEPT ![c] = KeepsAlive(c)]
  /\ errno' \in ErrnoAfter(c)
  /\ ChannelDone(c)
  /\ UNCHANGED <<sockVars, pendingConns_, fresh, httpMap>>

(* Mutant: send() does not subscribe to EPOLLOUT.                             *)
RespondAndCloseUnwatched(c) ==
  /\ Handling(c) /\ ~KeepsAlive(c)
  /\ Respond(c)
  /\ state_' = [state_ EXCEPT ![c] = "kDisConnecting"]
  /\ UpdateChannel(c, events_[c] \ {"IN"})
  /\ UNCHANGED <<keepAliveSet_, keepAliveList_>>

(* keepAliveHandle: not a keep-alive connection, close it once it is answered.*)
RespondAndClose(c) ==
  /\ Handling(c) /\ ~KeepsAlive(c)
  /\ Respond(c)
  /\ state_' = [state_ EXCEPT ![c] = "kDisConnecting"]
  /\ UpdateChannel(c, (events_[c] \cup {"OUT"}) \ {"IN"})
  /\ UNCHANGED <<keepAliveSet_, keepAliveList_>>

(* keepAliveHandle: the peer has shut down already.                           *)
RespondToShutdown(c) ==
  /\ Handling(c) /\ KeepsAlive(c) /\ state_[c] = "kDisConnecting"
  /\ Respond(c)
  /\ UpdateChannel(c, events_[c] \cup {"OUT"})
  /\ UNCHANGED <<state_, keepAliveSet_, keepAliveList_>>

(* Mutant: the time-out of the first answer is forgotten.                     *)
RespondAndKeepUntimed(c) ==
  /\ Handling(c) /\ KeepsAlive(c) /\ state_[c] # "kDisConnecting"
  /\ Respond(c)
  /\ state_' = [state_ EXCEPT ![c] = "kHandle"]
  /\ UpdateChannel(c, events_[c] \cup {"OUT"})
  /\ UNCHANGED <<keepAliveSet_, keepAliveList_>>

(* keepAliveHandle: ready for the next request.                               *)
RespondAndKeep(c) ==
  /\ Handling(c) /\ KeepsAlive(c) /\ state_[c] # "kDisConnecting"
  /\ Respond(c)
  /\ FlushKeepAlive(c)
  /\ state_' = [state_ EXCEPT ![c] = "kHandle"]
  /\ UpdateChannel(c, events_[c] \cup {"OUT"})

(* praseHeader() does not come back, nor does the loop.                       *)
ParseForever(c) ==
  /\ Handling(c) /\ Hangs(c)
  /\ loopPc' = "parsing"
  /\ inBuffer' = [inBuffer EXCEPT ![c] = <<>>]
  /\ keepAlive_' = [keepAlive_ EXCEPT ![c] = KeepsAlive(c)]
  /\ UNCHANGED <<sockVars, armed, cur, revents_, timerReady, pendingConns_, fresh,
                 errno, events_, state_, outBuffer, mgrVars>>

HandleHttpReq(c) ==
  \/ RespondAndClose(c) \/ RespondToShutdown(c) \/ RespondAndKeep(c)
  \/ ParseForever(c)

(* Nothing was read, or the connection is gone.                               *)
SkipHandler(c) ==
  /\ loopPc = "handler" /\ c \in cur
  /\ c \notin httpMap \/ "IN" \notin revents_[c]
  /\ ChannelDone(c)
  /\ UNCHANGED <<sockVars, armed, pendingConns_, fresh, errno, events_, connVars,
                 mgrVars>>

-----------------------------------------------------------------------------
(* HttpManager's timer and the functors of the loop.                          *)

(* Mutant: the walk leaves out the first entry.                               *)
ExpiredPrefixSkipsFirst ==
  {i \in DOMAIN keepAliveList_ :
     i > 1 /\ \A j \in 2 .. i : keepAliveList_[j].ttl = 0}

(* The walk stops at the first entry whose time has not come.                 *)
ExpiredPrefix ==
  {i \in DOMAIN keepAliveList_ : \A j \in 1 .. i : keepAliveList_[j].ttl = 0}

(* Mutant: the entries of connections that were closed are not passed over.   *)
ExpiredStale == {keepAliveList_[i].ch : i \in ExpiredPrefix}

(* The connections of these entries, but for those delHttpConnection took out *)
(* of keepAliveSet_.                                                          *)
Expired == {keepAliveList_[i].ch : i \in ExpiredPrefix} \cap keepAliveSet_

(* httpMap[channel] finds the handler of each of them, and handleClose closes *)
(* the connection.  For a channel that is not in httpMap, operator[] would    *)
(* enter a null handler for it, and to use that is undefined.                 *)
HandleExpireEvent ==
  /\ loopPc = "dispatch" /\ timerReady
  /\ IF Expired \subseteq httpMap
       THEN HandleClose(Expired) /\ UNCHANGED loopPc
       ELSE /\ httpMap' = httpMap \cup Expired
            /\ keepAliveSet_' = keepAliveSet_ \ Expired
            /\ loopPc' = "crashed"
            /\ UNCHANGED <<events_, armed, state_>>
  /\ keepAliveList_' = SubSeq(keepAliveList_, Cardinality(ExpiredPrefix) + 1,
                              Len(keepAliveList_))
  /\ timerReady' = FALSE
  /\ UNCHANGED <<sockVars, cur, revents_, pendingConns_, fresh, errno, inBuffer,
                 outBuffer, keepAlive_>>

(* doPendingFunctors: addHttpConnection, newConnection, enableReading, whose  *)
(* EPOLL_CTL_ADD reports what the socket received before.                     *)
AddHttpConnection(c) ==
  /\ loopPc = "functors" /\ c \in pendingConns_
  /\ pendingConns_' = pendingConns_ \ {c}
  /\ httpMap' = httpMap \cup {c}
  /\ UpdateChannel(c, {"IN"})
  /\ UNCHANGED <<sockVars, loopVars, fresh, errno, connVars, keepAliveSet_,
                 keepAliveList_>>

(* A connection queued after the swap is taken with the next batch, which     *)
(* follows at once (it comes with a wake-up): as if it were accepted later.   *)
EndFunctors ==
  /\ loopPc = "functors" /\ pendingConns_ = {}
  /\ loopPc' = "poll"
  /\ UNCHANGED <<sockVars, armed, cur, revents_, timerReady, pendingConns_, fresh,
                 errno, events_, connVars, mgrVars>>

-----------------------------------------------------------------------------
ChannelStep(c) ==
  \/ HandleError(c) \/ HandleRead(c) \/ SkipRead(c) \/ HandleWrite(c)
  \/ HandleHttpReq(c) \/ SkipHandler(c) \/ UseAfterFree(c)

LoopStep ==
  \/ Poll
  \/ \E c \in Conns : ChannelStep(c) \/ AddHttpConnection(c)
  \/ HandleExpireEvent \/ EndBatch \/ EndFunctors

PeerStep(c) ==
  \/ Accept(c) \/ PeerSends(c) \/ PeerShutsDown(c) \/ PeerResets(c)
  \/ PeerDrains(c)

Next ==
  \/ LoopStep
  \/ PollTimer
  \/ Tick
  \/ \E c \in Conns : PeerStep(c)

(* The loop's thread runs, the timer's 3 s period keeps passing, and so does  *)
(* the time to the expiry of an entry nobody refreshes.  Peers owe nothing.   *)
Fairness ==
  /\ WF_vars(LoopStep)
  /\ SF_vars(PollTimer)
  /\ WF_vars(Tick)

Spec == Init /\ [][Next]_vars /\ Fairness

-----------------------------------------------------------------------------
(* Properties.                                                                *)

(* The loop's thread does nothing any more.                                   *)
Stopped == loopPc \in {"crashed", "parsing"}

(* timerNode_ is a valid iterator whenever flushKeepAlive uses it: a          *)
(* connection of keepAliveSet_ is open, and has one entry in keepAliveList_;  *)
(* an entry that delHttpConnection leaves behind is nobody's second entry.    *)
KeepAliveNodes ==
  /\ keepAliveSet_ \subseteq httpMap
  /\ \A c \in keepAliveSet_ : \E i \in DOMAIN keepAliveList_ : keepAliveList_[i].ch = c
  /\ \A i, j \in DOMAIN keepAliveList_ :
        keepAliveList_[i].ch = keepAliveList_[j].ch => i = j

(* handleExpireEvent may stop at the first entry that has not expired: the    *)
(* list is ordered by expiry, whatever was refreshed or closed in between.    *)
ListInExpiryOrder ==
  \A i, j \in DOMAIN keepAliveList_ :
     i < j => keepAliveList_[i].ttl <= keepAliveList_[j].ttl

(* c will be read, or found to be in error, before the loop sleeps on it.     *)
WillBeRead(c) ==
  \/ c \in armed
  \/ c \notin cur /\ revents_[c] \cap {"IN", "ERR"} # {}

(* Edge-triggered input is never stranded: data in the socket of a connection *)
(* that still reads, or a reset of any connection, has an event to come.      *)
NoLostInput ==
  \A c \in httpMap :
     (sockIn[c] # <<>> /\ "IN" \in events_[c]) \/ peer[c] = "rst" => WillBeRead(c)

WillBeWritten(c) ==
  \/ blocked[c]
  \/ c \in armed
  \/ "OUT" \in revents_[c] /\ (c \in cur => loopPc = "write")

(* A response in __out_buffer is never stranded: EPOLLOUT is subscribed, and  *)
(* either the peer has to make room first or the event is on its way.         *)
NoStuckOutput ==
  \A c \in httpMap : outBuffer[c] => "OUT" \in events_[c] /\ WillBeWritten(c)

(* A connection that waits to be closed (it no longer reads) has a response   *)
(* to send, the end of which closes it (HttpConnection.cc:83-89); only while  *)
(* the handler is about to answer has it none.                                *)
ClosingHasOutput ==
  \A c \in httpMap :
     \/ state_[c] = "kDisConnecting" => outBuffer[c] /\ "IN" \notin events_[c]
     \/ loopPc \in {"handler", "parsing"} /\ c \in cur /\ "IN" \in revents_[c]

(* Between batches a connection that has sent something and still reads is    *)
(* subject to the time-out: it cannot slip out of keepAliveSet_ (it would     *)
(* then never be closed for being idle).                                      *)
ActiveConnectionsExpire ==
  loopPc = "poll" => \A c \in httpMap : state_[c] = "kHandle" => c \in keepAliveSet_

(* A buffer that holds a whole header block is parsed to an end, whatever     *)
(* else was received with it: praseHeader (HttpHandler.cc:172) walks in       *)
(* circles only in a header that was cut off.                                 *)
ParsesWholeHeaders ==
  \A c \in Conns :
     Handling(c) /\ EmptyLines(Buffer(c)) # {} => Outcome(Buffer(c)) # "forever"

(* HttpManager keeps the promise of KeepAlive: whatever happens to the list,  *)
(* its stale entries and the iterators into it, an expiry closes exactly the  *)
(* connections without a request for ExpireTicks, and each is opened once.    *)
Clocks == [c \in keepAliveSet_ |-> keepAliveList_[TimerNode(c)].ttl]

Promise == INSTANCE KeepAlive WITH
             waiting <- fresh \cup pendingConns_,
             open <- httpMap,
             left <- Clocks,
             due <- timerReady

KeepAliveRefinement == Promise!Spec

(* A connection the peer resets is closed.                                    *)
ResetEndsConnection ==
  \A c \in Conns : peer[c] = "rst" ~> (~Live(c) \/ Stopped)

(* A response is written out, unless the peer does not read or the connection *)
(* is closed first.                                                           *)
ResponsesAreSent ==
  \A c \in Conns : outBuffer[c] ~> (~outBuffer[c] \/ blocked[c] \/ ~Live(c) \/ Stopped)

(* A keep-alive connection on which nothing happens any more is closed: it    *)
(* cannot stay in keepAliveSet_ for ever without events.                      *)
IdleConnectionsExpire ==
  \A c \in Conns : []<>(c \notin keepAliveSet_ \/ revents_[c] # {} \/ Stopped)

(* What HttpConnection.h:67 says of holder_, that it prolongs the handler's   *)
(* life: no callback runs on a destroyed HttpConnection.                      *)
NoUseAfterFree == loopPc # "crashed"

(* What HttpConnection.cc:83-84 says: once the peer has shut down and got its *)
(* response, the connection is closed (unless the peer does not read).        *)
ShutdownEndsConnection ==
  \A c \in Conns : peer[c] = "fin" ~> (~Live(c) \/ blocked[c] \/ Stopped)

(* What HttpConnection.cc:67 says: requests received before the peer shut     *)
(* down are answered before the connection is closed.                         *)
AnsweredBeforeClose ==
  [][\A c \in httpMap :
       loopPc = "write" /\ peer[c] = "fin" /\ c \notin httpMap' => inBuffer[c] = <<>>]_vars

(* What HttpConnection.cc:106 says: the socket of a closed connection is      *)
(* closed at once.  The Channel closes it when its last reference goes, and a *)
(* keepAliveList_ entry is one.                                               *)
ClosedMeansSocketClosed ==
  \A i \in DOMAIN keepAliveList_ : Live(keepAliveList_[i].ch)
=============================================================================
