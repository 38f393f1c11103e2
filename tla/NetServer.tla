------------------------------ MODULE NetServer ------------------------------
(***************************************************************************)
(* The server's side of the network: NetServer::acceptConns, the epoll     *)
(* threads and the data threads of Net with their queues, the readiness of *)
(* a socket to send, the way of a request from its connection to the next  *)
(* stage and of its answer back (CommStage::sendResponse), which finds the *)
(* connection again by its socket number.                                  *)
(*                                                                         *)
(* A connection is named by its socket number, which the kernel gives out  *)
(* again after the close.  Epoll is edge triggered: an edge is pending     *)
(* until an epoll thread fetches it with all others, and the events it has *)
(* fetched stay even when their connection goes.  The first IoVec of a     *)
(* send queue stands for mCurSendBlock.                                    *)
(***************************************************************************)
EXTENDS Naturals, Sequences, FiniteSets

CONSTANTS
    Clients,
    Requests,         \* one CommEvent each
    Owner,            \* the client that asks a request
    LeavesBy,         \* how a client may end its connection
    Socks,            \* descriptors the process may have for connections
    NumRemoveInactive,
    Lanes,            \* the pairs of a send and a receive thread
    Lane,             \* whose queues a socket goes to: sock % NetThreadCount
    Listen,           \* mListenSock
    Nil

ASSUME NetAssumption ==
    /\ Owner \in [Requests -> Clients]
    /\ LeavesBy \in [Clients -> SUBSET {"fin", "reset"}]
    /\ IsFiniteSet(Requests) /\ IsFiniteSet(Socks) /\ Listen \notin Socks
    /\ Lane \in [Socks -> Lanes]
    /\ NumRemoveInactive \in Nat \ {0}
    /\ Nil \notin Clients \cup Requests \cup Socks

VARIABLES
    stage,          \* client: before its connect, in the backlog, accepted, gone
    peer, link,     \* external: who is at the other end of a socket, and if it is there
    inbox,          \* external: parts of requests that have arrived, unread
    full,           \* external: sockets whose send buffer is full
    got,            \* external: the clients that have received an answer
    asked,          \* client: how much of a request it has sent
    recvReady, sendReady,      \* edges epoll_wait has not returned yet
    recvEvents, sendEvents,    \* events an epoll thread has fetched, not handled
    accepting,      \* the receive epoll thread is in acceptConns
    shortOfFds,     \* history: acceptConns gave up with clients waiting
    sockConnMap, mRefCount, mCleaning,
    mReadyToSend,
    overrun,        \* history: mReadyToSend was cleared after the edge
    mSendQ,
    recvCev,        \* mRecvCb->cev: the request whose attachment is awaited
    cevSock,        \* CommEvent::sock
    tpc,            \* the thread that answers a request: where it is
    dones,          \* how often an event has been completed (and so deleted)
    sendSockQ, recvSockQ,
    spc, sconn, rpc, rconn,    \* send and receive data threads
    rreq            \* a receive thread: the malformed request it is answering

clientVars == <<stage, peer, asked, got>>
linkVars == <<link, inbox, full>>
edgeVars == <<recvReady, sendReady>>
pollVars == <<recvEvents, sendEvents, accepting, shortOfFds>>
connVars == <<sockConnMap, mCleaning, mSendQ, recvCev, overrun, mReadyToSend>>
eventVars == <<cevSock, tpc, dones>>
queueVars == <<sendSockQ, recvSockQ>>
sendVars == <<spc, sconn>>
recvVars == <<rpc, rconn, rreq>>
vars == <<clientVars, linkVars, edgeVars, pollVars, connVars, mRefCount,
          eventVars, queueVars, sendVars, recvVars>>

(* A request is sent whole, or its attachment after the rest of it.        *)
Parts == Requests \X {"whole", "message", "attachment"}
Links == {"closed", "up", "fin", "reset"}
PollEvents == [sock : Socks \cup {Listen}, hup : BOOLEAN]

TypeOK ==
    /\ stage \in [Clients -> {"new", "backlog", "accepted", "gone"}]
    /\ peer \in [Socks -> Clients \cup {Nil}] /\ link \in [Socks -> Links]
    /\ inbox \in [Socks -> SUBSET Parts]
    /\ full \subseteq Socks
    /\ got \in [Requests -> SUBSET Clients]
    /\ asked \in [Requests -> {"nothing", "message", "all"}]
    /\ recvReady \subseteq Socks \cup {Listen} /\ sendReady \subseteq Socks
    /\ recvEvents \subseteq PollEvents /\ sendEvents \subseteq PollEvents
    /\ accepting \in BOOLEAN /\ shortOfFds \in BOOLEAN
    /\ sockConnMap \subseteq Socks
    /\ mRefCount \in [Socks -> 0..Cardinality(Requests) + 2]
    /\ mCleaning \subseteq Socks \ sockConnMap
    /\ mReadyToSend \subseteq Socks /\ overrun \subseteq Socks
    /\ mSendQ \in [Socks -> Seq(Requests)]
    /\ recvCev \in [Socks -> Requests \cup {Nil}]
    /\ cevSock \in [Requests -> Socks \cup {Nil}]
    /\ tpc \in [Requests -> {"none", "next", "post", "notify",
                             "release", "end"}]
    /\ dones \in [Requests -> 0..2]
    /\ sendSockQ \subseteq Socks /\ recvSockQ \subseteq Socks
    /\ spc \in [Lanes -> {"idle", "progress", "eagain", "release"}]
    /\ sconn \in [Lanes -> Socks \cup {Nil}]
    /\ rpc \in [Lanes -> {"idle", "progress", "answer", "release", "broken", "remove"}]
    /\ rconn \in [Lanes -> Socks \cup {Nil}]
    /\ rreq \in [Lanes -> Requests \cup {Nil}]

Init ==
    /\ stage = [c \in Clients |-> "new"]
    /\ peer = [s \in Socks |-> Nil] /\ link = [s \in Socks |-> "closed"]
    /\ inbox = [s \in Socks |-> {}] /\ full = {}
    /\ got = [r \in Requests |-> {}] /\ asked = [r \in Requests |-> "nothing"]
    /\ recvReady = {} /\ sendReady = {} /\ recvEvents = {} /\ sendEvents = {}
    /\ accepting = FALSE /\ shortOfFds = FALSE
    /\ sockConnMap = {} /\ mRefCount = [s \in Socks |-> 0] /\ mCleaning = {}
    /\ mReadyToSend = {} /\ overrun = {}
    /\ mSendQ = [s \in Socks |-> <<>>] /\ recvCev = [s \in Socks |-> Nil]
    /\ cevSock = [r \in Requests |-> Nil]
    /\ tpc = [r \in Requests |-> "none"] /\ dones = [r \in Requests |-> 0]
    /\ sendSockQ = {} /\ recvSockQ = {}
    /\ spc = [l \in Lanes |-> "idle"] /\ sconn = [l \in Lanes |-> Nil]
    /\ rpc = [l \in Lanes |-> "idle"] /\ rconn = [l \in Lanes |-> Nil]
    /\ rreq = [l \in Lanes |-> Nil]

-----------------------------------------------------------------------------
(* CommEvent::completeEvent for a set of events.                           *)
Completed(S) ==
    [r \in Requests |-> IF r \in S /\ dones[r] < 2 THEN dones[r] + 1 ELSE dones[r]]

(* What the deletion of the connections in F completes: the answers not    *)
(* sent (Conn::sendRspCallback), the request not received (recvErrCb).     *)
(* Mutant: the event of a half received request is forgotten.              *)
LostByDeleteUnsent(F) == UNION {{mSendQ[s][i] : i \in DOMAIN mSendQ[s]} : s \in F}
LostByDelete(F) ==
    UNION {{mSendQ[s][i] : i \in DOMAIN mSendQ[s]} \cup ({recvCev[s]} \ {Nil}) : s \in F}

Closed(F, f, value) == [s \in Socks |-> IF s \in F THEN value ELSE f[s]]

(* The part of Conn::cleanup that runs when there are no references.  The  *)
(* close takes the socket out of the epoll sets.                           *)
DeleteConns(F) ==
    /\ dones' = Completed(LostByDelete(F))
    /\ mSendQ' = Closed(F, mSendQ, <<>>)
    /\ recvCev' = Closed(F, recvCev, Nil)
    /\ mReadyToSend' = mReadyToSend \ F
    /\ overrun' = overrun \ F
    /\ link' = Closed(F, link, "closed")
    /\ peer' = Closed(F, peer, Nil)
    /\ stage' = [c \in Clients |-> IF \E s \in F : peer[s] = c THEN "gone" ELSE stage[c]]
    /\ inbox' = Closed(F, inbox, {})
    /\ full' = full \ F
    /\ recvReady' = recvReady \ F
    /\ sendReady' = sendReady \ F

(* Mutant: one reference, taken for the caller's own, is not counted.      *)
IdleForTwo(s) == mRefCount[s] < 2
Idle(s) == mRefCount[s] = 0

(* ConnMgr::remove for those of S that are in its map: the ones in use are *)
(* cleaned up by their last release.                                       *)
Erased(S) == sockConnMap \ S
RemoveConns(S) ==
    LET found == S \cap sockConnMap
        freed == {s \in found : Idle(s)}
    IN /\ sockConnMap' = Erased(S)
       /\ mCleaning' = mCleaning \cup (found \ freed)
       /\ DeleteConns(freed)

(* Conn::release.                                                          *)
Release(s) ==
    LET freed == IF mRefCount[s] = 1 /\ s \in mCleaning THEN {s} ELSE {}
    IN /\ mRefCount' = [mRefCount EXCEPT ![s] = @ - 1]
       /\ mCleaning' = mCleaning \ freed
       /\ DeleteConns(freed)

Acquire(s) == mRefCount' = [mRefCount EXCEPT ![s] = @ + 1]

-----------------------------------------------------------------------------
(* External: the clients.                                                  *)
Connect(c) ==
    /\ stage[c] = "new"
    /\ stage' = [stage EXCEPT ![c] = "backlog"]
    /\ recvReady' = recvReady \cup {Listen}
    /\ UNCHANGED <<peer, asked, got, linkVars, sendReady, pollVars, connVars,
                   mRefCount, eventVars, queueVars, sendVars, recvVars>>

(* A request is sent without another in between.                           *)
HalfSent(c) == {r \in Requests : Owner[r] = c /\ asked[r] = "message"}
Send(r, part, s) ==
    /\ peer[s] = Owner[r] /\ link[s] = "up" /\ HalfSent(Owner[r]) \subseteq {r}
    /\ asked[r] = IF part = "attachment" THEN "message" ELSE "nothing"
    /\ asked' = [asked EXCEPT ![r] = IF part = "message" THEN "message" ELSE "all"]
    /\ inbox' = [inbox EXCEPT ![s] = @ \cup {<<r, part>>}]
    /\ recvReady' = recvReady \cup {s}
    /\ UNCHANGED <<stage, peer, got, link, full, sendReady, pollVars, connVars,
                   mRefCount, eventVars, queueVars, sendVars, recvVars>>

(* It reads what has filled the server's send buffer.                      *)
Drain(s) ==
    /\ s \in full /\ link[s] = "up"
    /\ full' = full \ {s}
    /\ sendReady' = sendReady \cup {s}
    /\ UNCHANGED <<clientVars, link, inbox, recvReady, pollVars, connVars, mRefCount,
                   eventVars, queueVars, sendVars, recvVars>>

(* It closes its end, or resets the connection, also afterwards: what it   *)
(* has not read, and with a reset what the server has not read, is lost.   *)
Leave(s, how) ==
    /\ link[s] = "up" \/ (link[s] = "fin" /\ how = "reset")
    /\ how \in LeavesBy[peer[s]]
    /\ link' = [link EXCEPT ![s] = how]
    /\ inbox' = IF how = "reset" THEN [inbox EXCEPT ![s] = {}] ELSE inbox
    /\ full' = full \ {s}
    /\ recvReady' = recvReady \cup {s}
    /\ sendReady' = sendReady \cup {s}
    /\ UNCHANGED <<clientVars, pollVars, connVars, mRefCount, eventVars, queueVars,
                   sendVars, recvVars>>

-----------------------------------------------------------------------------
(* Net::RecvEPollThread: the events of one epoll_wait are handled one      *)
(* after the other.                                                        *)
Fetched(edges) ==
    [sock : edges \ {Listen}, hup : BOOLEAN]
        \cap {e \in PollEvents : e.sock \in Socks /\ (e.hup <=> link[e.sock] = "reset")}

FetchRecv ==
    /\ recvEvents = {} /\ ~accepting /\ recvReady # {}
    /\ recvEvents' = Fetched(recvReady)
                       \cup [sock : recvReady \cap {Listen}, hup : {FALSE}]
    /\ recvReady' = {}
    /\ UNCHANGED <<clientVars, linkVars, sendReady, sendEvents, accepting, shortOfFds,
                   connVars, mRefCount, eventVars, queueVars, sendVars, recvVars>>

RecvHup(e) ==
    /\ e \in recvEvents /\ ~accepting /\ e.hup
    /\ recvEvents' = recvEvents \ {e}
    /\ RemoveConns({e.sock})
    /\ UNCHANGED <<asked, got, sendEvents, accepting, shortOfFds, mRefCount, cevSock, tpc,
                   queueVars, sendVars, recvVars>>

(* Net::prepareRecv.                                                       *)
PrepareRecv(e) ==
    /\ e \in recvEvents /\ ~accepting /\ ~e.hup /\ e.sock # Listen
    /\ recvEvents' = recvEvents \ {e}
    /\ recvSockQ' = recvSockQ \cup {e.sock}
    /\ UNCHANGED <<clientVars, linkVars, edgeVars, sendEvents, accepting, shortOfFds,
                   connVars, mRefCount, eventVars, sendSockQ, sendVars, recvVars>>

(* NetServer::acceptConns: it accepts until no client is waiting.          *)
StartAccept(e) ==
    /\ e \in recvEvents /\ ~accepting /\ e.sock = Listen
    /\ recvEvents' = recvEvents \ {e}
    /\ accepting' = TRUE /\ shortOfFds' = FALSE
    /\ UNCHANGED <<clientVars, linkVars, edgeVars, sendEvents, connVars, mRefCount,
                   eventVars, queueVars, sendVars, recvVars>>

Waiting == {c \in Clients : stage[c] = "backlog"}
FreeSocks == {s \in Socks : link[s] = "closed"}

(* accept, new Conn and Net::addConn, which puts it into the map and then  *)
(* into both epoll sets: a socket that is ready is reported at once.       *)
Accept(c, s) ==
    /\ accepting /\ c \in Waiting /\ s \in FreeSocks
    /\ stage' = [stage EXCEPT ![c] = "accepted"]
    /\ peer' = [peer EXCEPT ![s] = c] /\ link' = [link EXCEPT ![s] = "up"]
    /\ sockConnMap' = sockConnMap \cup {s}
    /\ sendReady' = sendReady \cup {s}
    /\ UNCHANGED <<asked, got, inbox, full, recvReady, pollVars, mCleaning, mSendQ,
                   recvCev, overrun, mReadyToSend, mRefCount, eventVars, queueVars,
                   sendVars, recvVars>>

(* accept fails for this client, or epoll_ctl does and addConn removes the *)
(* connection: the loop goes on with the next.                             *)
(* Mutant: it returns, as it does when descriptors are short.              *)
NextAcceptReturns == FALSE
NextAccept == accepting
AcceptError(c) ==
    /\ accepting /\ c \in Waiting /\ FreeSocks # {}
    /\ stage' = [stage EXCEPT ![c] = "gone"]
    /\ accepting' = NextAccept
    /\ UNCHANGED <<peer, asked, got, linkVars, edgeVars, recvEvents, sendEvents,
                   shortOfFds, connVars, mRefCount, eventVars, queueVars, sendVars,
                   recvVars>>

(* EMFILE or ENFILE, for files and other processes use descriptors too:    *)
(* ConnMgr::removeInactive removes connections nobody is using, the least  *)
(* active first (the numbers of their activity are left out).              *)
Inactive == {s \in sockConnMap : Idle(s)}
MakeRoom(S) ==
    /\ accepting /\ Waiting # {}
    /\ S # {} /\ S \subseteq Inactive /\ Cardinality(S) <= NumRemoveInactive
    /\ Cardinality(S) < NumRemoveInactive => S = Inactive
    /\ RemoveConns(S)
    /\ UNCHANGED <<asked, got, pollVars, mRefCount, cevSock, tpc, queueVars, sendVars,
                   recvVars>>

NoRoom ==
    /\ accepting /\ Waiting # {} /\ Inactive = {}
    /\ accepting' = FALSE /\ shortOfFds' = TRUE
    /\ UNCHANGED <<clientVars, linkVars, edgeVars, recvEvents, sendEvents, connVars,
                   mRefCount, eventVars, queueVars, sendVars, recvVars>>

EndAccept ==
    /\ accepting /\ Waiting = {}
    /\ accepting' = FALSE
    /\ UNCHANGED <<clientVars, linkVars, edgeVars, recvEvents, sendEvents, shortOfFds,
                   connVars, mRefCount, eventVars, queueVars, sendVars, recvVars>>

-----------------------------------------------------------------------------
(* Net::SendEPollThread.                                                   *)
FetchSend ==
    /\ sendEvents = {} /\ sendReady # {}
    /\ sendEvents' = Fetched(sendReady)
    /\ sendReady' = {}
    /\ UNCHANGED <<clientVars, linkVars, recvReady, recvEvents, accepting, shortOfFds,
                   connVars, mRefCount, eventVars, queueVars, sendVars, recvVars>>

SendHup(e) ==
    /\ e \in sendEvents
    /\ e.hup \/ e.sock \notin sockConnMap
    /\ sendEvents' = sendEvents \ {e}
    /\ RemoveConns({e.sock})
    /\ UNCHANGED <<asked, got, recvEvents, accepting, shortOfFds, mRefCount, cevSock, tpc,
                   queueVars, sendVars, recvVars>>

(* The connection is marked as ready, without its send mutex, and its      *)
(* socket is put into the queue of its thread (Net::prepareSend).          *)
PollSend(e) ==
    /\ e \in sendEvents /\ ~e.hup /\ e.sock \in sockConnMap
    /\ sendEvents' = sendEvents \ {e}
    /\ mReadyToSend' = mReadyToSend \cup {e.sock}
    /\ overrun' = overrun \ {e.sock}
    /\ sendSockQ' = sendSockQ \cup {e.sock}
    /\ UNCHANGED <<clientVars, linkVars, edgeVars, recvEvents, accepting, shortOfFds,
                   sockConnMap, mCleaning, mSendQ, recvCev, mRefCount, eventVars,
                   recvSockQ, sendVars, recvVars>>

-----------------------------------------------------------------------------
(* Net::handlingData and Net::recvData.                                    *)
RecvFind(l, s) ==
    /\ rpc[l] = "idle" /\ s \in recvSockQ /\ Lane[s] = l
    /\ recvSockQ' = recvSockQ \ {s}
    /\ IF s \in sockConnMap
         THEN /\ Acquire(s)
              /\ rconn' = [rconn EXCEPT ![l] = s]
              /\ rpc' = [rpc EXCEPT ![l] = "progress"]
         ELSE UNCHANGED <<mRefCount, rconn, rpc>>
    /\ UNCHANGED <<clientVars, linkVars, edgeVars, pollVars, connVars, eventVars,
                   sendSockQ, sendVars, rreq>>

Reading(l) == rpc[l] = "progress" /\ rconn[l] \notin mCleaning

(* Conn::recvReqMsg makes the event; a complete one goes to the next stage *)
(* (Conn::eventDone).  One that cannot be deserialized is answered by this *)
(* thread (sendBadMsgErr); draining its attachment is left out.            *)
RecvMessage(l, r, part) ==
    LET s == rconn[l]
    IN /\ Reading(l) /\ recvCev[s] = Nil
       /\ part \in {"whole", "message"} /\ <<r, part>> \in inbox[s]
       /\ inbox' = [inbox EXCEPT ![s] = @ \ {<<r, part>>}]
       /\ cevSock' = [cevSock EXCEPT ![r] = s]
       /\ IF part = "message"
            THEN recvCev' = [recvCev EXCEPT ![s] = r] /\ UNCHANGED <<tpc, rreq, rpc>>
            ELSE /\ UNCHANGED recvCev
                 /\ tpc' = [tpc EXCEPT ![r] = "next"]
                 /\ \/ UNCHANGED <<rreq, rpc>>
                    \/ /\ rreq' = [rreq EXCEPT ![l] = r]
                       /\ rpc' = [rpc EXCEPT ![l] = "answer"]
       /\ UNCHANGED <<clientVars, link, full, edgeVars, pollVars, sockConnMap, mCleaning,
                      mSendQ, overrun, mReadyToSend, mRefCount, dones, queueVars,
                      sendVars, rconn>>

(* sendBadMsgErr cannot read the number of the request: no answer.         *)
RecvDropped(l, r) ==
    LET s == rconn[l]
    IN /\ Reading(l) /\ recvCev[s] = Nil /\ <<r, "whole">> \in inbox[s]
       /\ inbox' = [inbox EXCEPT ![s] = @ \ {<<r, "whole">>}]
       /\ UNCHANGED <<clientVars, link, full, edgeVars, pollVars, connVars, mRefCount,
                      eventVars, queueVars, sendVars, recvVars>>

RecvAttachment(l, r) ==
    LET s == rconn[l]
    IN /\ Reading(l) /\ recvCev[s] = r /\ <<r, "attachment">> \in inbox[s]
       /\ inbox' = [inbox EXCEPT ![s] = @ \ {<<r, "attachment">>}]
       /\ recvCev' = [recvCev EXCEPT ![s] = Nil]
       /\ tpc' = [tpc EXCEPT ![r] = "next"]
       /\ UNCHANGED <<clientVars, link, full, edgeVars, pollVars, sockConnMap, mCleaning,
                      mSendQ, overrun, mReadyToSend, mRefCount, cevSock, dones,
                      queueVars, sendVars, recvVars>>

(* Conn::sendBadMsgErr has returned: it runs sendResponse in this thread.  *)
BadMessageAnswered(l) ==
    /\ rpc[l] = "answer" /\ tpc[rreq[l]] = "end"
    /\ rpc' = [rpc EXCEPT ![l] = "progress"]
    /\ rreq' = [rreq EXCEPT ![l] = Nil]
    /\ UNCHANGED <<clientVars, linkVars, edgeVars, pollVars, connVars, mRefCount,
                   eventVars, queueVars, sendVars, rconn>>

Readable(s) ==
    \E p \in inbox[s] : IF recvCev[s] = Nil THEN p[2] # "attachment"
                        ELSE p = <<recvCev[s], "attachment">>

RecvUnavail(l) ==
    /\ Reading(l) /\ link[rconn[l]] = "up" /\ ~Readable(rconn[l])
    /\ rpc' = [rpc EXCEPT ![l] = "release"]
    /\ UNCHANGED <<clientVars, linkVars, edgeVars, pollVars, connVars, mRefCount,
                   eventVars, queueVars, sendVars, rconn, rreq>>

(* The end of the stream, an error, or the connection is being removed.    *)
RecvBroken(l) ==
    LET s == rconn[l]
        r == recvCev[s]
    IN /\ rpc[l] = "progress"
       /\ s \in mCleaning \/ (link[s] # "up" /\ ~Readable(s))
       /\ dones' = Completed({r} \ {Nil})
       /\ recvCev' = [recvCev EXCEPT ![s] = Nil]
       /\ rpc' = [rpc EXCEPT ![l] = "broken"]
       /\ UNCHANGED <<clientVars, linkVars, edgeVars, pollVars, sockConnMap, mCleaning,
                      mSendQ, overrun, mReadyToSend, mRefCount, cevSock, tpc, queueVars,
                      sendVars, rconn, rreq>>

RecvRelease(l) ==
    /\ \/ /\ rpc[l] = "release"
          /\ rpc' = [rpc EXCEPT ![l] = "idle"] /\ rconn' = [rconn EXCEPT ![l] = Nil]
       \/ /\ rpc[l] = "broken"
          /\ rpc' = [rpc EXCEPT ![l] = "remove"] /\ UNCHANGED rconn
    /\ Release(rconn[l])
    /\ UNCHANGED <<asked, got, pollVars, sockConnMap, cevSock, tpc, queueVars, sendVars,
                   rreq>>

RecvRemove(l) ==
    /\ rpc[l] = "remove"
    /\ RemoveConns({rconn[l]})
    /\ rpc' = [rpc EXCEPT ![l] = "idle"] /\ rconn' = [rconn EXCEPT ![l] = Nil]
    /\ UNCHANGED <<asked, got, pollVars, mRefCount, cevSock, tpc, queueVars, sendVars,
                   rreq>>

-----------------------------------------------------------------------------
(* CommStage::sendResponse, when the event's callback runs: Net::getConn   *)
(* with the socket number of the event, under mapMutex.                    *)
(* Mutant: by the end point of the client, which all on its host share.    *)
ConnOfByEndPoint(r) == sockConnMap
ConnOf(r) == {cevSock[r]} \cap sockConnMap

FindConn(r) ==
    /\ tpc[r] = "next"
    /\ \E s \in ConnOf(r) :
         Acquire(s) /\ cevSock' = [cevSock EXCEPT ![r] = s]
    /\ tpc' = [tpc EXCEPT ![r] = "post"]
    /\ UNCHANGED <<clientVars, linkVars, edgeVars, pollVars, connVars, dones, queueVars,
                   sendVars, recvVars>>

(* CommStage::cleanupFailedResp.                                           *)
NoConn(r) ==
    /\ tpc[r] = "next" /\ ConnOf(r) = {}
    /\ dones' = Completed({r})
    /\ tpc' = [tpc EXCEPT ![r] = "end"]
    /\ UNCHANGED <<clientVars, linkVars, edgeVars, pollVars, connVars, mRefCount,
                   cevSock, queueVars, sendVars, recvVars>>

PostSend(r) ==
    /\ tpc[r] = "post"
    /\ mSendQ' = [mSendQ EXCEPT ![cevSock[r]] = Append(@, r)]
    /\ tpc' = [tpc EXCEPT ![r] = "notify"]
    /\ UNCHANGED <<clientVars, linkVars, edgeVars, pollVars, sockConnMap, mCleaning,
                   recvCev, overrun, mReadyToSend, mRefCount, cevSock, dones, queueVars,
                   sendVars, recvVars>>

(* Net::prepareSend without the connection: only the queue of the thread.  *)
(* Mutant: a connection that a send thread is using is not queued again.   *)
ToSendOnce(s) == {s} \ {sconn[l] : l \in Lanes}
ToSend(s) == {s}
PrepareSend(r) ==
    /\ tpc[r] = "notify"
    /\ sendSockQ' = sendSockQ \cup ToSend(cevSock[r])
    /\ tpc' = [tpc EXCEPT ![r] = "release"]
    /\ UNCHANGED <<clientVars, linkVars, edgeVars, pollVars, connVars, mRefCount, cevSock,
                   dones, recvSockQ, sendVars, recvVars>>

ReleaseConn(r) ==
    /\ tpc[r] = "release"
    /\ Release(cevSock[r])
    /\ tpc' = [tpc EXCEPT ![r] = "end"]
    /\ UNCHANGED <<asked, got, pollVars, sockConnMap, cevSock, queueVars, sendVars,
                   recvVars>>

-----------------------------------------------------------------------------
(* Net::sendData and Conn::sendProgress.                                   *)
SendFind(l, s) ==
    /\ spc[l] = "idle" /\ s \in sendSockQ /\ Lane[s] = l
    /\ sendSockQ' = sendSockQ \ {s}
    /\ IF s \in sockConnMap
         THEN /\ Acquire(s)
              /\ sconn' = [sconn EXCEPT ![l] = s]
              /\ spc' = [spc EXCEPT ![l] = "progress"]
         ELSE UNCHANGED <<mRefCount, sconn, spc>>
    /\ UNCHANGED <<clientVars, linkVars, edgeVars, pollVars, connVars, eventVars,
                   recvSockQ, recvVars>>

(* Nothing is left to send, or the socket is not marked as ready.          *)
SendStop(l) ==
    /\ spc[l] = "progress"
    /\ mSendQ[sconn[l]] = <<>> \/ sconn[l] \notin mReadyToSend
    /\ spc' = [spc EXCEPT ![l] = "release"]
    /\ UNCHANGED <<clientVars, linkVars, edgeVars, pollVars, connVars, mRefCount,
                   eventVars, queueVars, sconn, recvVars>>

Sending(l) ==
    /\ spc[l] = "progress"
    /\ sconn[l] \in mReadyToSend /\ mSendQ[sconn[l]] # <<>>

(* The whole answer is in the send buffer, or lost with the peer; its      *)
(* event is done (Conn::sendRspCallback, DONE).                            *)
SendDone(l) ==
    LET s == sconn[l]
        r == Head(mSendQ[s])
    IN /\ Sending(l) /\ s \notin mCleaning \cup full /\ link[s] # "reset"
       /\ mSendQ' = [mSendQ EXCEPT ![s] = Tail(@)]
       /\ dones' = Completed({r})
       /\ got' = IF link[s] = "up" THEN [got EXCEPT ![r] = @ \cup {peer[s]}] ELSE got
       /\ UNCHANGED <<stage, peer, asked, linkVars, edgeVars, pollVars, sockConnMap,
                      mCleaning, recvCev, overrun, mReadyToSend, mRefCount, cevSock, tpc,
                      queueVars, sendVars, recvVars>>

(* The connection is broken, or being removed: its event is done (ERROR).  *)
LeftAfterError(s) == Tail(mSendQ[s])
SendBroken(l) ==
    LET s == sconn[l]
    IN /\ Sending(l)
       /\ s \in mCleaning \/ link[s] # "up"
       /\ mSendQ' = [mSendQ EXCEPT ![s] = LeftAfterError(s)]
       /\ dones' = Completed({Head(mSendQ[s])})
       /\ spc' = [spc EXCEPT ![l] = "release"]
       /\ UNCHANGED <<clientVars, linkVars, edgeVars, pollVars, sockConnMap, mCleaning,
                      recvCev, overrun, mReadyToSend, mRefCount, cevSock, tpc, queueVars,
                      sconn, recvVars>>

(* ::send has found the buffer full: EAGAIN, ...                           *)
SendFull(l) ==
    LET s == sconn[l]
    IN /\ Sending(l) /\ s \notin mCleaning /\ link[s] = "up"
       /\ full' = full \cup {s}
       /\ spc' = [spc EXCEPT ![l] = "eagain"]
       /\ UNCHANGED <<clientVars, link, inbox, edgeVars, pollVars, connVars, mRefCount,
                      eventVars, queueVars, sconn, recvVars>>

(* ... and the mark is cleared: also when the epoll thread has set it      *)
(* again in the meantime.                                                  *)
EdgeToCome(s) == s \in full \cup sendReady \cup {e.sock : e \in sendEvents}
ClearReady(l) ==
    LET s == sconn[l]
    IN /\ spc[l] = "eagain"
       /\ mReadyToSend' = mReadyToSend \ {s}
       /\ overrun' = IF EdgeToCome(s) THEN overrun ELSE overrun \cup {s}
       /\ spc' = [spc EXCEPT ![l] = "release"]
       /\ UNCHANGED <<clientVars, linkVars, edgeVars, pollVars, sockConnMap, mCleaning,
                      mSendQ, recvCev, mRefCount, eventVars, queueVars, sconn, recvVars>>

SendRelease(l) ==
    /\ spc[l] = "release"
    /\ Release(sconn[l])
    /\ sconn' = [sconn EXCEPT ![l] = Nil]
    /\ spc' = [spc EXCEPT ![l] = "idle"]
    /\ UNCHANGED <<asked, got, pollVars, sockConnMap, cevSock, tpc, queueVars, recvVars>>

-----------------------------------------------------------------------------
(* Everybody has gone, or nobody comes back for a client that is waiting.  *)
AtRest ==
    /\ \A c \in Clients : stage[c] = "gone" \/ (stage[c] = "backlog" /\ shortOfFds)
    /\ \A r \in Requests : tpc[r] \in {"none", "end"}
    /\ UNCHANGED vars

ClientStep ==
    \/ \E c \in Clients : Connect(c)
    \/ \E r \in Requests, part \in {"whole", "message", "attachment"}, s \in Socks : Send(r, part, s)
    \/ \E s \in Socks : Drain(s) \/ (\E how \in {"fin", "reset"} : Leave(s, how))

RecvPollStep ==
    \/ FetchRecv
    \/ \E e \in recvEvents : RecvHup(e) \/ PrepareRecv(e) \/ StartAccept(e)
    \/ \E c \in Clients : AcceptError(c) \/ (\E s \in Socks : Accept(c, s))
    \/ \E S \in SUBSET Socks : MakeRoom(S)
    \/ NoRoom \/ EndAccept

SendPollStep == FetchSend \/ (\E e \in sendEvents : SendHup(e) \/ PollSend(e))

RecvStep(l) ==
    \/ \E s \in Socks : RecvFind(l, s)
    \/ \E r \in Requests, part \in {"whole", "message"} : RecvMessage(l, r, part)
    \/ \E r \in Requests : RecvAttachment(l, r) \/ RecvDropped(l, r)
    \/ BadMessageAnswered(l) \/ RecvUnavail(l) \/ RecvBroken(l)
    \/ RecvRelease(l) \/ RecvRemove(l)

AnswerStep(r) ==
    FindConn(r) \/ NoConn(r) \/ PostSend(r) \/ PrepareSend(r) \/ ReleaseConn(r)

SendStep(l) ==
    \/ \E s \in Socks : SendFind(l, s)
    \/ SendStop(l) \/ SendDone(l) \/ SendBroken(l) \/ SendFull(l) \/ ClearReady(l)
    \/ SendRelease(l)

Next ==
    \/ ClientStep \/ RecvPollStep \/ SendPollStep
    \/ \E l \in Lanes : RecvStep(l) \/ SendStep(l)
    \/ \E r \in Requests : AnswerStep(r)
    \/ AtRest

Spec == Init /\ [][Next]_vars

-----------------------------------------------------------------------------
(* The event of a request is in one place until it is completed, and is    *)
(* completed once: in the connection that receives it, with the thread     *)
(* that answers it, or in the send queue of one connection.                *)
Places(r) ==
    Cardinality({s \in Socks : recvCev[s] = r})
    + (IF tpc[r] \in {"next", "post"} THEN 1 ELSE 0)
    + Cardinality({v \in Socks \X (1..Cardinality(Requests)) :
                     v[2] \in DOMAIN mSendQ[v[1]] /\ mSendQ[v[1]][v[2]] = r})

EventOnce ==
    \A r \in Requests :
        dones[r] + Places(r) = IF cevSock[r] = Nil THEN 0 ELSE 1

(* Nobody uses a deleted connection, every connection that cannot be found *)
(* any more is still used, and the references are counted exactly: an      *)
(* answer, a removal by number and the removal of inactive connections     *)
(* meet on one connection.  The types are checked along.                   *)
Holders(s) ==
    Cardinality({r \in Requests : cevSock[r] = s /\ tpc[r] \in {"post", "notify", "release"}})
    + Cardinality({l \in Lanes : sconn[l] = s})
    + Cardinality({l \in Lanes : rconn[l] = s /\ rpc[l] # "remove"})

HeldExact ==
    /\ TypeOK
    /\ \A s \in Socks :
         /\ mRefCount[s] = Holders(s)
         /\ s \in sockConnMap \cup mCleaning <=> link[s] # "closed"
         /\ s \in mCleaning => mRefCount[s] > 0
         /\ mRefCount[s] > 0 => link[s] # "closed"

(* While the connection of its asker exists, an answer reaches nobody else *)
(* ("Get a connection to the client EndPoint" in sendResponse).  When that *)
(* connection has gone, its number may be another client's.                *)
AnswerToAsker ==
    \A r \in Requests :
        got[r] \ {Owner[r]} # {} => \A s \in Socks : peer[s] # Owner[r]

(* A client waits to be accepted only until the receive epoll thread comes *)
(* to the listening socket, unless it has given up for want of descriptors;*)
(* and what can be read, a broken connection included, waits only until a  *)
(* receive thread comes, whatever its last read has found: with edge       *)
(* triggered sockets nobody would come back for it.                        *)
RecvWakeup ==
    /\ (\E c \in Clients : stage[c] = "backlog") =>
         \/ Listen \in recvReady \cup {e.sock : e \in recvEvents}
         \/ accepting \/ shortOfFds
    /\ \A s \in sockConnMap :
         link[s] # "up" \/ Readable(s) =>
           \/ s \in recvReady \cup recvSockQ \cup {e.sock : e \in recvEvents}
           \/ \E l \in Lanes : rconn[l] = s /\ rpc[l] # "release"

(* An answer waits in the send queue only while somebody will come for it: *)
(* the socket is full and reports when it is not, an edge, a queued socket *)
(* or a thread is on its way.  The one exception is the mark that was      *)
(* cleared after the edge.                                                 *)
SendWakeup ==
    \A s \in sockConnMap :
        mSendQ[s] # <<>> =>
            \/ EdgeToCome(s)
            \/ s \in sendSockQ
            \/ \E l \in Lanes : sconn[l] = s /\ spc[l] \in {"progress", "eagain"}
            \/ \E r \in Requests : tpc[r] = "notify" /\ cevSock[r] = s
            \/ link[s] # "up"
            \/ s \in overrun
=============================================================================
