----------------------------- MODULE CommRequest -----------------------------
(***************************************************************************)
(* The client's side of the network: CommStage::sendRequest, ConnMgr, the  *)
(* life of a Conn with its reference count and deferred cleanup, the send  *)
(* and receive threads of Net and its epoll threads, and the callbacks of  *)
(* Conn that complete the event of a request.                              *)
(*                                                                         *)
(* A connection is named by its socket, which it has from Conn::setup to   *)
(* the close in Conn::cleanup; the number may then be used again.  An      *)
(* action is one critical section (of mapMutex, mMutex, mSendMutex, ...)   *)
(* or one step between two of them.  A cleanup is one action: it starts    *)
(* when nobody else has, or can get, a pointer to the connection.          *)
(***************************************************************************)
EXTENDS Naturals, Sequences, FiniteSets

CONSTANTS
    Requests,        \* one CommEvent each, sent by a thread of its own
    Refused,         \* requests whose message the server cannot deserialize:
                     \* it answers before their attachments are sent
    EndPoints,
    TargetEp,        \* CommEvent::getTargetEp
    Socks,           \* socket numbers the kernel may give out
    NetThreadCount,  \* number of send and of receive threads
    Pollers,         \* the send and the receive epoll thread
    Nil

(* The last IoVec of a request has the callback parameter with the event,  *)
(* those before it have none.                                              *)
IoVecs == [req : Requests, last : BOOLEAN]

ASSUME CommAssumption ==
    /\ IsFiniteSet(Requests) /\ Refused \subseteq Requests
    /\ TargetEp \in [Requests -> EndPoints]
    /\ Socks \subseteq Nat /\ IsFiniteSet(Socks)
    /\ NetThreadCount \in Nat \ {0}
    /\ Nil \notin Requests \cup Socks /\ Nil \notin IoVecs

Lanes == 0..NetThreadCount - 1

(* What a request puts into the send queue.                                *)
ReqIovecs(r) ==
    LET final == [req |-> r, last |-> TRUE]
    IN IF r \in Refused THEN <<[req |-> r, last |-> FALSE], final>> ELSE <<final>>

VARIABLES
    open,           \* connections that exist
    sockConnMap,    \* ConnMgr: the connections that can be found
    epSockMap,      \* ConnMgr: the sockets of an end point
    mRefCount, mCleaning,
    mSendQ, mCurSendBlock,
    mSendEventMap,  \* the requests whose answer is awaited
    recvCev,        \* mRecvCb->cev: the request whose answer is being received
    pending,        \* requests whose event has status PENDING
    sendSockQ, recvSockQ,  \* sockets in the queues of the data threads
    hup,            \* error events an epoll thread has fetched, not handled
    cpc, cconn,     \* sendRequest: where it is, its connection
    spc, sconn,     \* a send thread
    scb,            \* the request whose last send callback is running
    rpc, rconn,     \* a receive thread
    up,             \* external: connections whose peer is still there
    wire,           \* external: requests whose answer is in flight
    served,         \* external: requests the server has received
    reply           \* client: how a request's event was completed

mapVars == <<sockConnMap, epSockMap>>
eventVars == <<pending, reply>>
connVars == <<open, mCleaning, mSendQ, mCurSendBlock, mSendEventMap, recvCev,
              up, wire>>
queueVars == <<sendSockQ, recvSockQ, hup>>
callVars == <<cpc, cconn>>
sendVars == <<spc, sconn, scb>>
recvVars == <<rpc, rconn>>
vars == <<mapVars, eventVars, connVars, mRefCount, queueVars, callVars,
          sendVars, recvVars, served>>

TypeOK ==
    /\ sockConnMap \subseteq open /\ open \subseteq Socks
    /\ epSockMap \in [EndPoints -> SUBSET Socks]
    /\ mRefCount \in [Socks -> 0..Cardinality(Requests) + 2]
    /\ mCleaning \subseteq Socks
    /\ mSendQ \in [Socks -> Seq(IoVecs)]
    /\ mCurSendBlock \in [Socks -> IoVecs \cup {Nil}]
    /\ mSendEventMap \in [Socks -> SUBSET Requests]
    /\ recvCev \in [Socks -> Requests \cup {Nil}]
    /\ pending \subseteq Requests
    /\ sendSockQ \subseteq Socks /\ recvSockQ \subseteq Socks
    /\ hup \in [Pollers -> SUBSET Socks]
    /\ cpc \in [Requests -> {"idle", "getConn", "addEntry", "prepare", "notify",
                             "release", "failRelease", "failComplete", "returned"}]
    /\ cconn \in [Requests -> Socks \cup {Nil}]
    /\ spc \in [Lanes -> {"idle", "progress", "callback", "release"}]
    /\ sconn \in [Lanes -> Socks \cup {Nil}]
    /\ scb \in [Lanes -> Requests \cup {Nil}]
    /\ rpc \in [Lanes -> {"idle", "progress", "release", "broken", "remove"}]
    /\ rconn \in [Lanes -> Socks \cup {Nil}]
    /\ up \subseteq Socks
    /\ wire \in [Socks -> SUBSET Requests]
    /\ served \subseteq Requests
    /\ reply \in [Requests -> {"none", "answer", "error", "twice"}]

Init ==
    /\ open = {} /\ sockConnMap = {} /\ mCleaning = {} /\ up = {}
    /\ epSockMap = [e \in EndPoints |-> {}]
    /\ mRefCount = [s \in Socks |-> 0]
    /\ mSendQ = [s \in Socks |-> <<>>]
    /\ mCurSendBlock = [s \in Socks |-> Nil]
    /\ mSendEventMap = [s \in Socks |-> {}]
    /\ recvCev = [s \in Socks |-> Nil]
    /\ wire = [s \in Socks |-> {}]
    /\ pending = {} /\ served = {}
    /\ sendSockQ = {} /\ recvSockQ = {}
    /\ hup = [p \in Pollers |-> {}]
    /\ cpc = [r \in Requests |-> "idle"]
    /\ cconn = [r \in Requests |-> Nil]
    /\ spc = [l \in Lanes |-> "idle"]
    /\ rpc = [l \in Lanes |-> "idle"]
    /\ sconn = [l \in Lanes |-> Nil]
    /\ rconn = [l \in Lanes |-> Nil]
    /\ scb = [l \in Lanes |-> Nil]
    /\ reply = [r \in Requests |-> "none"]

-----------------------------------------------------------------------------
(* CommEvent::completeEvent for the requests in S.  The client may free a  *)
(* completed event, so that a second completion is an error.               *)
CompleteEvent(S, how) ==
    /\ reply' = [r \in Requests |->
                   IF r \notin S THEN reply[r]
                   ELSE IF reply[r] = "none" THEN how ELSE "twice"]
    /\ pending' = pending \ S

(* The requests Conn::cleanup completes: the one being received, those that *)
(* have their last IoVec in the send queue, and those left in the map.      *)
Unsent(s) ==
    {v.req : v \in {x \in {mSendQ[s][i] : i \in DOMAIN mSendQ[s]}
                            \cup ({mCurSendBlock[s]} \ {Nil}) : x.last}}
Receiving(s) == {recvCev[s]} \ {Nil}
(* Mutant: the map is cleared without completing its events.               *)
FailedByCleanupQueues(s) == Receiving(s) \cup Unsent(s)
FailedByCleanup(s) == Receiving(s) \cup Unsent(s) \cup mSendEventMap[s]

(* The part of Conn::cleanup that runs without references, for the          *)
(* connections in F: no more than one.  A request that is both unsent and   *)
(* being answered is completed by the callbacks of both its IoVecs.         *)
CleanupConn(F) ==
    LET failed == UNION {FailedByCleanup(s) : s \in F}
        both == UNION {Receiving(s) \cap Unsent(s) : s \in F}
    IN /\ reply' = [r \in Requests |->
                      IF r \notin failed THEN reply[r]
                      ELSE IF reply[r] = "none" /\ r \notin both THEN "error"
                      ELSE "twice"]
       /\ pending' = pending \ failed
       /\ open' = open \ F
       /\ up' = up \ F
       /\ mSendQ' = [s \in Socks |-> IF s \in F THEN <<>> ELSE mSendQ[s]]
       /\ mCurSendBlock' = [s \in Socks |-> IF s \in F THEN Nil ELSE mCurSendBlock[s]]
       /\ mSendEventMap' = [s \in Socks |-> IF s \in F THEN {} ELSE mSendEventMap[s]]
       /\ recvCev' = [s \in Socks |-> IF s \in F THEN Nil ELSE recvCev[s]]
       /\ wire' = [s \in Socks |-> IF s \in F THEN {} ELSE wire[s]]

(* Mutant: one reference, taken for the caller's own, is not counted.      *)
BusyForTwo(s) == mRefCount[s] > 1
Busy(s) == mRefCount[s] > 0

(* Conn::cleanup, called with mapMutex held by ConnMgr::remove.            *)
Cleanup(s) ==
    LET freed == IF Busy(s) THEN {} ELSE {s}
    IN /\ mCleaning' = (mCleaning \cup {s}) \ freed
       /\ CleanupConn(freed)

(* ConnMgr::remove.                                                        *)
(* Mutant: the socket stays in the set of its end point.                   *)
ErasedEpSockNot(s) == epSockMap
ErasedEpSock(s) == [e \in EndPoints |-> epSockMap[e] \ {s}]
RemoveConn(s) ==
    /\ epSockMap' = ErasedEpSock(s)
    /\ sockConnMap' = sockConnMap \ {s}
    /\ IF s \in sockConnMap
         THEN Cleanup(s)
         ELSE UNCHANGED <<eventVars, connVars>>

(* Conn::release: the last one cleans up what was removed.                 *)
(* Mutants: the count is compared before it is decremented; any last       *)
(* release cleans up.                                                      *)
LastReferenceEarly(s) == mRefCount[s] = 0 /\ s \in mCleaning
LastReferenceAny(s) == mRefCount[s] = 1
LastReference(s) == mRefCount[s] = 1 /\ s \in mCleaning
Release(s) ==
    LET freed == IF LastReference(s) THEN {s} ELSE {}
    IN /\ mRefCount' = [mRefCount EXCEPT ![s] = @ - 1]
       /\ mCleaning' = mCleaning \ freed
       /\ CleanupConn(freed)

(* Mutant: a connection is found without being acquired.                   *)
AcquireNot(s) == UNCHANGED mRefCount
Acquire(s) == mRefCount' = [mRefCount EXCEPT ![s] = @ + 1]

RemoveEventEntry(s, r) == mSendEventMap' = [mSendEventMap EXCEPT ![s] = @ \ {r}]

-----------------------------------------------------------------------------
(* CommStage::sendRequest.                                                 *)
Ask(r) ==
    /\ cpc[r] = "idle"
    /\ cpc' = [cpc EXCEPT ![r] = "getConn"]
    /\ pending' = pending \cup {r}
    /\ UNCHANGED <<mapVars, reply, connVars, mRefCount, queueVars, cconn,
                   sendVars, recvVars, served>>

(* ConnMgr::find by end point: the first socket of the set.                *)
Find(e) ==
    {s \in epSockMap[e] \cap sockConnMap : \A t \in epSockMap[e] : s <= t}

Connected(r, s) ==
    /\ cconn' = [cconn EXCEPT ![r] = s]
    /\ cpc' = [cpc EXCEPT ![r] = "addEntry"]

(* Net::getConn, under mapMutex: a known connection, ...                   *)
FindConn(r) ==
    /\ cpc[r] = "getConn"
    /\ \E s \in Find(TargetEp[r]) : Acquire(s) /\ Connected(r, s)
    /\ UNCHANGED <<mapVars, eventVars, connVars, queueVars, sendVars, recvVars,
                   served>>

(* Conn::connect: a socket is made and set up, its connect is underway.    *)
OpenConn(s) == s \notin open /\ open' = open \cup {s} /\ up' = up \cup {s}

(* ConnMgr::insert.                                                        *)
InsertConn(e, s) ==
    /\ sockConnMap' = sockConnMap \cup {s}
    /\ epSockMap' = [epSockMap EXCEPT ![e] = @ \cup {s}]

(* ... a new one, whose connect may yet fail (Break), ...                  *)
MakeConn(r, s) ==
    /\ cpc[r] = "getConn"
    /\ Find(TargetEp[r]) = {}
    /\ OpenConn(s)
    /\ InsertConn(TargetEp[r], s)
    /\ Acquire(s)
    /\ Connected(r, s)
    /\ UNCHANGED <<eventVars, mCleaning, mSendQ, mCurSendBlock, mSendEventMap,
                   recvCev, wire, queueVars, sendVars, recvVars, served>>

(* ... or none: connect or epoll_ctl failed, and the maps are as before.   *)
FailConn(r) ==
    /\ cpc[r] = "getConn"
    /\ Find(TargetEp[r]) = {}
    /\ CompleteEvent({r}, "error")
    /\ cpc' = [cpc EXCEPT ![r] = "returned"]
    /\ UNCHANGED <<mapVars, connVars, mRefCount, queueVars, cconn, sendVars,
                   recvVars, served>>

AddEventEntry(r) ==
    /\ cpc[r] = "addEntry"
    /\ mSendEventMap' = [mSendEventMap EXCEPT ![cconn[r]] = @ \cup {r}]
    /\ cpc' = [cpc EXCEPT ![r] = "prepare"]
    /\ UNCHANGED <<mapVars, eventVars, open, mCleaning, mSendQ, mCurSendBlock,
                   recvCev, up, wire, mRefCount, queueVars, cconn, sendVars,
                   recvVars, served>>

(* The send thread keeps mSendMutex while it runs a callback.              *)
SendMutexFree(s) == \A l \in Lanes : ~(spc[l] = "callback" /\ sconn[l] = s)

PostSend(r) ==
    /\ cpc[r] = "prepare"
    /\ SendMutexFree(cconn[r])
    /\ mSendQ' = [mSendQ EXCEPT ![cconn[r]] = @ \o ReqIovecs(r)]
    /\ cpc' = [cpc EXCEPT ![r] = "notify"]
    /\ UNCHANGED <<mapVars, eventVars, open, mCleaning, mCurSendBlock,
                   mSendEventMap, recvCev, up, wire, mRefCount, queueVars, cconn,
                   sendVars, recvVars, served>>

PrepareSend(r) ==
    /\ cpc[r] = "notify"
    /\ sendSockQ' = sendSockQ \cup {cconn[r]}
    /\ cpc' = [cpc EXCEPT ![r] = "release"]
    /\ UNCHANGED <<mapVars, eventVars, connVars, mRefCount, recvSockQ, hup,
                   cconn, sendVars, recvVars, served>>

(* CommStage::cleanupFailedReq: the entry is removed, the connection       *)
(* released, the event completed.                                          *)
PrepareFails(r) ==
    /\ cpc[r] = "prepare"
    /\ RemoveEventEntry(cconn[r], r)
    /\ cpc' = [cpc EXCEPT ![r] = "failRelease"]
    /\ UNCHANGED <<mapVars, eventVars, open, mCleaning, mSendQ, mCurSendBlock,
                   recvCev, up, wire, mRefCount, queueVars, cconn, sendVars,
                   recvVars, served>>

ReleaseConn(r) ==
    /\ \/ cpc[r] = "release" /\ cpc' = [cpc EXCEPT ![r] = "returned"]
       \/ cpc[r] = "failRelease" /\ cpc' = [cpc EXCEPT ![r] = "failComplete"]
    /\ Release(cconn[r])
    /\ cconn' = [cconn EXCEPT ![r] = Nil]
    /\ UNCHANGED <<mapVars, queueVars, sendVars, recvVars, served>>

CompleteFailed(r) ==
    /\ cpc[r] = "failComplete"
    /\ CompleteEvent({r}, "error")
    /\ cpc' = [cpc EXCEPT ![r] = "returned"]
    /\ UNCHANGED <<mapVars, connVars, mRefCount, queueVars, cconn, sendVars,
                   recvVars, served>>

-----------------------------------------------------------------------------
(* Net::handlingData and Net::sendData.  A socket is always handled by the *)
(* same thread; equal numbers next to each other in its queue are one.     *)
Lane(s) == s % NetThreadCount

SendFind(l, s) ==
    /\ spc[l] = "idle"
    /\ s \in sendSockQ /\ Lane(s) = l
    /\ sendSockQ' = sendSockQ \ {s}
    /\ IF s \in sockConnMap
         THEN /\ Acquire(s)
              /\ sconn' = [sconn EXCEPT ![l] = s]
              /\ spc' = [spc EXCEPT ![l] = "progress"]
         ELSE UNCHANGED <<mRefCount, sconn, spc>>
    /\ UNCHANGED <<mapVars, eventVars, connVars, recvSockQ, hup, callVars, scb,
                   recvVars, served>>

(* Conn::sendProgress, one turn of its loop: nothing to send, ...          *)
SendNext(l) ==
    LET s == sconn[l]
    IN /\ spc[l] = "progress" /\ mCurSendBlock[s] = Nil
       /\ IF mSendQ[s] = <<>>
            THEN spc' = [spc EXCEPT ![l] = "release"]
                 /\ UNCHANGED <<mSendQ, mCurSendBlock>>
            ELSE /\ mCurSendBlock' = [mCurSendBlock EXCEPT ![s] = Head(mSendQ[s])]
                 /\ mSendQ' = [mSendQ EXCEPT ![s] = Tail(@)]
                 /\ UNCHANGED spc
       /\ UNCHANGED <<mapVars, eventVars, open, mCleaning, mSendEventMap, recvCev,
                      up, wire, mRefCount, queueVars, callVars, sconn, scb,
                      recvVars, served>>

(* ... the socket is not ready, or is full before the IoVec is sent, ...   *)
SendUnavail(l) ==
    /\ spc[l] = "progress"
    /\ spc' = [spc EXCEPT ![l] = "release"]
    /\ UNCHANGED <<mapVars, eventVars, connVars, mRefCount, queueVars, callVars,
                   sconn, scb, recvVars, served>>

(* The server has the whole message, or refuses it and answers at once.    *)
Answers(v) == v.last # (v.req \in Refused)

(* ... ::send has taken the rest of the IoVec, which is lost if the peer   *)
(* has gone; the last one of a request has a callback to run, ...          *)
SendDone(l) ==
    LET s == sconn[l]
        v == mCurSendBlock[s]
    IN /\ spc[l] = "progress" /\ v # Nil
       /\ s \notin mCleaning
       /\ mCurSendBlock' = [mCurSendBlock EXCEPT ![s] = Nil]
       /\ IF v.last
            THEN scb' = [scb EXCEPT ![l] = v.req]
                 /\ spc' = [spc EXCEPT ![l] = "callback"]
            ELSE UNCHANGED <<scb, spc>>
       /\ IF s \in up /\ Answers(v)
            THEN /\ wire' = [wire EXCEPT ![s] = @ \cup {v.req}]
                 /\ served' = served \cup {v.req}
            ELSE UNCHANGED <<wire, served>>
       /\ UNCHANGED <<mapVars, eventVars, open, mCleaning, mSendQ, mSendEventMap,
                      recvCev, up, mRefCount, queueVars, callVars, sconn, recvVars>>

(* ... or the connection is broken, or being cleaned up: only the last     *)
(* IoVec of a request tells its event (Conn::sendReqCallback, ERROR).      *)
(* Mutant: the failed request stays in the map.                            *)
SendErrorEntryKept(s, r) == mSendEventMap[s]
SendErrorEntry(s, r) == mSendEventMap[s] \ {r}
SendBroken(l) ==
    LET s == sconn[l]
        v == mCurSendBlock[s]
    IN /\ spc[l] = "progress" /\ v # Nil
       /\ s \in mCleaning \/ s \notin up
       /\ mCurSendBlock' = [mCurSendBlock EXCEPT ![s] = Nil]
       /\ IF v.last
            THEN /\ mSendEventMap' =
                      [mSendEventMap EXCEPT ![s] = SendErrorEntry(s, v.req)]
                 /\ CompleteEvent({v.req}, "error")
            ELSE UNCHANGED <<mSendEventMap, eventVars>>
       /\ spc' = [spc EXCEPT ![l] = "release"]
       /\ UNCHANGED <<mapVars, open, mCleaning, mSendQ, recvCev, up, wire,
                      mRefCount, queueVars, callVars, sconn, scb, recvVars, served>>

(* Conn::sendReqCallback, DONE: the event waits for its answer.            *)
SendCallback(l) ==
    /\ spc[l] = "callback"
    /\ pending' = pending \ {scb[l]}
    /\ scb' = [scb EXCEPT ![l] = Nil]
    /\ spc' = [spc EXCEPT ![l] = "progress"]
    /\ UNCHANGED <<mapVars, reply, connVars, mRefCount, queueVars, callVars, sconn,
                   recvVars, served>>

SendRelease(l) ==
    /\ spc[l] = "release"
    /\ Release(sconn[l])
    /\ sconn' = [sconn EXCEPT ![l] = Nil]
    /\ spc' = [spc EXCEPT ![l] = "idle"]
    /\ UNCHANGED <<mapVars, queueVars, callVars, scb, recvVars, served>>

-----------------------------------------------------------------------------
(* Net::handlingData and Net::recvData.                                    *)
RecvFind(l, s) ==
    /\ rpc[l] = "idle"
    /\ s \in recvSockQ /\ Lane(s) = l
    /\ recvSockQ' = recvSockQ \ {s}
    /\ IF s \in sockConnMap
         THEN /\ Acquire(s)
              /\ rconn' = [rconn EXCEPT ![l] = s]
              /\ rpc' = [rpc EXCEPT ![l] = "progress"]
         ELSE UNCHANGED <<mRefCount, rconn, rpc>>
    /\ UNCHANGED <<mapVars, eventVars, connVars, sendSockQ, hup, callVars,
                   sendVars, served>>

(* Header and message of an answer have arrived (Conn::recvRspMsg).  The   *)
(* answer to a request that is no longer in the map is drained.            *)
RecvRsp(l, r) ==
    LET s == rconn[l]
    IN /\ rpc[l] = "progress" /\ s \notin mCleaning
       /\ recvCev[s] = Nil /\ r \in wire[s]
       /\ wire' = [wire EXCEPT ![s] = @ \ {r}]
       /\ IF r \in mSendEventMap[s]
            THEN /\ RemoveEventEntry(s, r)
                 /\ recvCev' = [recvCev EXCEPT ![s] = r]
                 /\ pending' = pending \ {r}
            ELSE UNCHANGED <<mSendEventMap, recvCev, pending>>
       /\ UNCHANGED <<mapVars, reply, open, mCleaning, mSendQ, mCurSendBlock, up,
                      mRefCount, queueVars, callVars, sendVars, recvVars, served>>

(* The answer is complete, attachments included (Conn::eventDone, which    *)
(* waits while the status of the event is PENDING).                        *)
EventDone(l) ==
    LET s == rconn[l]
        r == recvCev[s]
    IN /\ rpc[l] = "progress" /\ s \notin mCleaning
       /\ r # Nil /\ r \notin pending
       /\ CompleteEvent({r}, "answer")
       /\ recvCev' = [recvCev EXCEPT ![s] = Nil]
       /\ UNCHANGED <<mapVars, open, mCleaning, mSendQ, mCurSendBlock,
                      mSendEventMap, up, wire, mRefCount, queueVars, callVars,
                      sendVars, recvVars, served>>

RecvUnavail(l) ==
    /\ rpc[l] = "progress"
    /\ rpc' = [rpc EXCEPT ![l] = "release"]
    /\ UNCHANGED <<mapVars, eventVars, connVars, mRefCount, queueVars, callVars,
                   sendVars, rconn, served>>

(* ::recv has returned 0 or an error, or the connection is being cleaned   *)
(* up (Conn::recvErrCb).                                                   *)
RecvBroken(l) ==
    LET s == rconn[l]
    IN /\ rpc[l] = "progress"
       /\ s \in mCleaning \/ s \notin up
       /\ CompleteEvent(Receiving(s), "error")
       /\ recvCev' = [recvCev EXCEPT ![s] = Nil]
       /\ rpc' = [rpc EXCEPT ![l] = "broken"]
       /\ UNCHANGED <<mapVars, open, mCleaning, mSendQ, mCurSendBlock,
                      mSendEventMap, up, wire, mRefCount, queueVars, callVars,
                      sendVars, rconn, served>>

(* The connection is released first and then removed by its number.        *)
RecvRelease(l) ==
    /\ \/ /\ rpc[l] = "release"
          /\ rpc' = [rpc EXCEPT ![l] = "idle"]
          /\ rconn' = [rconn EXCEPT ![l] = Nil]
       \/ /\ rpc[l] = "broken"
          /\ rpc' = [rpc EXCEPT ![l] = "remove"]
          /\ UNCHANGED rconn
    /\ Release(rconn[l])
    /\ UNCHANGED <<mapVars, queueVars, callVars, sendVars, served>>

RecvRemove(l) ==
    /\ rpc[l] = "remove"
    /\ RemoveConn(rconn[l])
    /\ rpc' = [rpc EXCEPT ![l] = "idle"]
    /\ rconn' = [rconn EXCEPT ![l] = Nil]
    /\ UNCHANGED <<mRefCount, queueVars, callVars, sendVars, served>>

-----------------------------------------------------------------------------
(* Net::SendEPollThread, Net::RecvEPollThread.  A connection is in the     *)
(* epoll sets until its cleanup.  An error event is fetched, and handled   *)
(* after the events fetched with it.                                       *)
PollError(p, s) ==
    /\ s \in open \ up /\ s \notin hup[p]
    /\ hup' = [hup EXCEPT ![p] = @ \cup {s}]
    /\ UNCHANGED <<mapVars, eventVars, connVars, mRefCount, sendSockQ, recvSockQ,
                   callVars, sendVars, recvVars, served>>

HandleError(p, s) ==
    /\ s \in hup[p]
    /\ hup' = [hup EXCEPT ![p] = @ \ {s}]
    /\ RemoveConn(s)
    /\ UNCHANGED <<mRefCount, sendSockQ, recvSockQ, callVars, sendVars, recvVars,
                   served>>

(* Events of a socket with nothing to send or to read are left out: the     *)
(* data threads would find nothing to do.                                   *)
PollSend(s) ==
    /\ s \in sockConnMap
    /\ mSendQ[s] # <<>> \/ mCurSendBlock[s] # Nil
    /\ sendSockQ' = sendSockQ \cup {s}
    /\ UNCHANGED <<mapVars, eventVars, connVars, mRefCount, recvSockQ, hup,
                   callVars, sendVars, recvVars, served>>

PollRecv(s) ==
    /\ s \in open
    /\ wire[s] # {} \/ recvCev[s] # Nil \/ s \notin up
    /\ recvSockQ' = recvSockQ \cup {s}
    /\ UNCHANGED <<mapVars, eventVars, connVars, mRefCount, sendSockQ, hup,
                   callVars, sendVars, recvVars, served>>

(* Net::delConn: find, release and remove under mapMutex.                  *)
DelConn(e) ==
    /\ \E s \in Find(e) : RemoveConn(s)
    /\ UNCHANGED <<mRefCount, queueVars, callVars, sendVars, recvVars, served>>

(* External: the peer goes away, or a connect under way fails.             *)
Break(s) ==
    /\ s \in up
    /\ up' = up \ {s}
    /\ UNCHANGED <<mapVars, eventVars, open, mCleaning, mSendQ, mCurSendBlock,
                   mSendEventMap, recvCev, wire, mRefCount, queueVars, callVars,
                   sendVars, recvVars, served>>

(* All requests have been sent and no connection is left.                  *)
AtRest ==
    /\ open = {} /\ \A r \in Requests : cpc[r] = "returned"
    /\ UNCHANGED vars

CallerStep(r) ==
    \/ FindConn(r) \/ (\E s \in Socks : MakeConn(r, s)) \/ FailConn(r)
    \/ AddEventEntry(r) \/ PrepareFails(r) \/ PostSend(r) \/ PrepareSend(r)
    \/ ReleaseConn(r) \/ CompleteFailed(r)

SendStep(l) ==
    \/ \E s \in Socks : SendFind(l, s)
    \/ SendNext(l) \/ SendUnavail(l) \/ SendDone(l) \/ SendBroken(l)
    \/ SendCallback(l) \/ SendRelease(l)

RecvStep(l) ==
    \/ \E s \in Socks : RecvFind(l, s)
    \/ \E r \in Requests : RecvRsp(l, r)
    \/ EventDone(l) \/ RecvUnavail(l) \/ RecvBroken(l)
    \/ RecvRelease(l) \/ RecvRemove(l)

Next ==
    \/ \E r \in Requests : Ask(r) \/ CallerStep(r)
    \/ \E l \in Lanes : SendStep(l) \/ RecvStep(l)
    \/ \E p \in Pollers, s \in Socks : PollError(p, s) \/ HandleError(p, s)
    \/ \E s \in Socks : PollSend(s) \/ PollRecv(s) \/ Break(s)
    \/ \E e \in EndPoints : DelConn(e)
    \/ AtRest

Spec == Init /\ [][Next]_vars

(* The scheduler runs every thread that can take a step, and epoll reports *)
(* a broken connection.                                                    *)
FairSpec ==
    /\ Spec
    /\ \A r \in Requests : WF_vars(CallerStep(r))
    /\ \A l \in Lanes : WF_vars(SendStep(l)) /\ WF_vars(RecvStep(l))
    /\ \A p \in Pollers, s \in Socks :
         WF_vars(PollError(p, s)) /\ WF_vars(HandleError(p, s))

-----------------------------------------------------------------------------
(* mRefCount is the number of threads that are using the connection:       *)
(* every acquire has its release, also when the connection is removed, the *)
(* request cannot be prepared or the peer is gone.                         *)
Holders(s) ==
    Cardinality({r \in Requests : cconn[r] = s})
    + Cardinality({l \in Lanes : sconn[l] = s})
    + Cardinality({l \in Lanes : rconn[l] = s /\ rpc[l] # "remove"})

(* The types are checked along.                                            *)
RefExact == TypeOK /\ \A s \in Socks : mRefCount[s] = Holders(s)

(* Nobody uses a connection that has been deleted: cleanup is put off      *)
(* while there are references, and nothing is found that is being removed. *)
(* Nor does a connection leak: one that can no longer be found is still    *)
(* referenced by a thread, and the last release will clean it up.          *)
HeldConnAlive ==
    /\ \A r \in Requests : cconn[r] # Nil => cconn[r] \in open
    /\ \A l \in Lanes : sconn[l] # Nil => sconn[l] \in open
    /\ \A l \in Lanes : rconn[l] # Nil /\ rpc[l] # "remove" => rconn[l] \in open
    /\ mCleaning \subseteq open
    /\ \A s \in open \ sockConnMap : s \in mCleaning /\ Busy(s)

(* Both maps of ConnMgr have the same sockets, each under one end point,   *)
(* and an end point has one connection at most: a request never makes a    *)
(* second one, nor gets one that is being cleaned up.                      *)
MapsAgree ==
    /\ sockConnMap \subseteq open \ mCleaning
    /\ UNION {epSockMap[e] : e \in EndPoints} = sockConnMap
    /\ \A e \in EndPoints : \A s, t \in epSockMap[e] : s = t
    /\ \A e, f \in EndPoints : epSockMap[e] \cap epSockMap[f] # {} => e = f

(* A request that has not been answered or failed is in one connection     *)
(* that still exists: its answer, or the cleanup, will find it there.      *)
NoRequestLost ==
    \A r \in Requests :
        cpc[r] = "returned" /\ reply[r] = "none" =>
            /\ \E s \in open : r \in mSendEventMap[s] \cup Receiving(s)
            /\ \A s, t \in Socks :
                 (/\ r \in mSendEventMap[s] \cup Receiving(s)
                  /\ r \in mSendEventMap[t] \cup Receiving(t)) => s = t

(* CommRequest implements OneReply for the requests the server can read.   *)
Prompt == Requests \ Refused
Promise ==
    INSTANCE OneReply WITH
        Request <- Prompt,
        asked <- {r \in Prompt : cpc[r] # "idle"},
        served <- served \cap Prompt,
        reply <- [r \in Prompt |-> reply[r]]
KeepsOneReply == Promise!Spec

(* The requests of a connection whose peer is gone are failed, if no       *)
(* answer is left to read.                                                 *)
BrokenConnFails ==
    \A r \in Requests, s \in Socks :
        (s \in open \ up /\ r \in mSendEventMap[s] \cup Receiving(s))
            ~> reply[r] # "none"

(* The comment in Conn::eventDone: the event is not completed before the   *)
(* send callback is done with it.                                          *)
EventOutlivesCallback ==
    \A l \in Lanes : spc[l] = "callback" => reply[scb[l]] = "none"
=============================================================================
