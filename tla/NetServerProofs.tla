--------------------------- MODULE NetServerProofs ---------------------------
(***************************************************************************)
(* Theorems about NetServer, for any number of clients, requests, sockets  *)
(* and threads.                                                            *)
(***************************************************************************)
EXTENDS NetServer, FiniteSetTheorems, TLAPS

-----------------------------------------------------------------------------
(* The inductive invariant.  A thread has a connection in the places where *)
(* it uses one, and a data thread only those of its own lane; an event has *)
(* its socket once it is under way.                                        *)
ClientTypes ==
    /\ stage \in [Clients -> {"new", "backlog", "accepted", "gone"}]
    /\ peer \in [Socks -> Clients \cup {Nil}] /\ link \in [Socks -> Links]
    /\ inbox \in [Socks -> SUBSET Parts]
    /\ full \subseteq Socks
    /\ got \in [Requests -> SUBSET Clients]
    /\ asked \in [Requests -> {"nothing", "message", "all"}]

PollTypes ==
    /\ recvReady \subseteq Socks \cup {Listen} /\ sendReady \subseteq Socks
    /\ recvEvents \subseteq PollEvents /\ sendEvents \subseteq PollEvents
    /\ \A e \in recvEvents : e.hup => e.sock # Listen
    /\ \A e \in sendEvents : e.sock # Listen
    /\ accepting \in BOOLEAN /\ shortOfFds \in BOOLEAN

ConnTypes ==
    /\ sockConnMap \subseteq Socks /\ mCleaning \subseteq Socks
    /\ mRefCount \in [Socks -> Int]
    /\ mReadyToSend \subseteq Socks /\ overrun \subseteq Socks

DataTypes ==
    /\ mSendQ \in [Socks -> Seq(Requests)]
    /\ recvCev \in [Socks -> Requests \cup {Nil}]

EventTypes ==
    /\ cevSock \in [Requests -> Socks \cup {Nil}]
    /\ tpc \in [Requests -> {"none", "next", "post", "notify",
                             "release", "end"}]
    /\ dones \in [Requests -> 0..2]
    /\ \A r \in Requests : tpc[r] # "none" => cevSock[r] # Nil

QueueTypes == sendSockQ \subseteq Socks /\ recvSockQ \subseteq Socks

SendTypes ==
    /\ spc \in [Lanes -> {"idle", "progress", "eagain", "release"}]
    /\ sconn \in [Lanes -> Socks \cup {Nil}]
    /\ \A l \in Lanes : /\ sconn[l] # Nil <=> spc[l] # "idle"
                        /\ sconn[l] # Nil => Lane[sconn[l]] = l

RecvTypes ==
    /\ rpc \in [Lanes -> {"idle", "progress", "answer", "release", "broken", "remove"}]
    /\ rconn \in [Lanes -> Socks \cup {Nil}]
    /\ rreq \in [Lanes -> Requests \cup {Nil}]
    /\ \A l \in Lanes : /\ rconn[l] # Nil <=> rpc[l] # "idle"
                        /\ rreq[l] # Nil <=> rpc[l] = "answer"
                        /\ rconn[l] # Nil => Lane[rconn[l]] = l

Typed ==
    /\ ClientTypes /\ PollTypes /\ ConnTypes /\ DataTypes /\ EventTypes
    /\ QueueTypes /\ SendTypes /\ RecvTypes

Answering(s) == {r \in Requests : cevSock[r] = s /\ tpc[r] \in {"post", "notify", "release"}}
Senders(s) == {l \in Lanes : sconn[l] = s}
Receivers(s) == {l \in Lanes : rconn[l] = s /\ rpc[l] # "remove"}

(* Every reference is some thread's.                                       *)
Refs == \A s \in Socks : mRefCount[s] = Holders(s)

(* A connection exists until it is removed and has no references.          *)
ConnLives ==
    \A s \in Socks :
        /\ s \in sockConnMap \cup mCleaning <=> link[s] # "closed"
        /\ ~(s \in sockConnMap /\ s \in mCleaning)
        /\ s \in mCleaning => mRefCount[s] > 0
        /\ mRefCount[s] > 0 => link[s] # "closed"

(* A client has one connection at most, and none once it has gone.         *)
Peers ==
    /\ \A s \in Socks : /\ peer[s] = Nil <=> link[s] = "closed"
                        /\ peer[s] # Nil => stage[peer[s]] = "accepted"
                        /\ peer[s] = Nil => inbox[s] = {}
    /\ \A s, t \in Socks : peer[s] # Nil /\ peer[s] = peer[t] => s = t

(* What opens a request is sent and read once, by its owner's connection.  *)
Opening(r, s) == {p \in {"whole", "message"} : <<r, p>> \in inbox[s]}
Asked(r) ==
    /\ \A s \in Socks : Opening(r, s) # {} =>
         asked[r] # "nothing" /\ cevSock[r] = Nil /\ peer[s] = Owner[r]
    /\ \A s \in Socks : \A p, q \in Opening(r, s) : p = q
    /\ asked[r] = "nothing" => cevSock[r] = Nil
    /\ cevSock[r] # Nil => peer[cevSock[r]] = Owner[r] \/ stage[Owner[r]] = "gone"
    /\ got[r] \subseteq {Owner[r]} \/ stage[Owner[r]] = "gone"

(* An event is in the connection that receives it, with the thread that    *)
(* answers it, in one send queue, or completed.                            *)
InSendQ(r, s) == \E i \in DOMAIN mSendQ[s] : mSendQ[s][i] = r
Single(r, s) ==
    \A i, j \in DOMAIN mSendQ[s] : mSendQ[s][i] = r /\ mSendQ[s][j] = r => i = j
Where(r) ==
    /\ \A s \in Socks : recvCev[s] = r =>
         cevSock[r] = s /\ tpc[r] = "none" /\ dones[r] = 0
    /\ \A s \in Socks : InSendQ(r, s) =>
         cevSock[r] = s /\ tpc[r] \in {"notify", "release", "end"} /\ dones[r] = 0
    /\ \A s \in Socks : Single(r, s)
    /\ tpc[r] = "none" =>
         \/ cevSock[r] = Nil /\ dones[r] = 0
         \/ cevSock[r] # Nil /\ (dones[r] = 1 \/ recvCev[cevSock[r]] = r)
    /\ tpc[r] \in {"next", "post"} => dones[r] = 0
    /\ tpc[r] \in {"notify", "release", "end"} =>
         dones[r] = 1 \/ InSendQ(r, cevSock[r])

PeerInv == Peers /\ (\A r \in Requests : Asked(r))
WhereInv == \A r \in Requests : Where(r)

(* A socket that is not marked as ready will be: an edge is on its way.    *)
Marked ==
    \A s \in sockConnMap :
        s \in mReadyToSend \/ EdgeToCome(s) \/ link[s] # "up" \/ s \in overrun

NetInv == Typed /\ Refs /\ ConnLives /\ PeerInv /\ WhereInv /\ RecvWakeup
            /\ SendWakeup /\ Marked

-----------------------------------------------------------------------------
(* What the deletion of connections does.                                  *)
LostBy(r, F) == \E s \in F : InSendQ(r, s) \/ recvCev[s] = r

LEMMA DeleteEffect ==
    ASSUME NEW F \in SUBSET Socks, DeleteConns(F)
    PROVE  /\ dones' = [r \in Requests |->
                IF LostBy(r, F) /\ dones[r] < 2 THEN dones[r] + 1 ELSE dones[r]]
           /\ mSendQ' = [s \in Socks |-> IF s \in F THEN <<>> ELSE mSendQ[s]]
           /\ recvCev' = [s \in Socks |-> IF s \in F THEN Nil ELSE recvCev[s]]
           /\ mReadyToSend' = mReadyToSend \ F /\ overrun' = overrun \ F
           /\ link' = [s \in Socks |-> IF s \in F THEN "closed" ELSE link[s]]
           /\ peer' = [s \in Socks |-> IF s \in F THEN Nil ELSE peer[s]]
           /\ stage' = [c \in Clients |->
                IF \E s \in F : peer[s] = c THEN "gone" ELSE stage[c]]
           /\ inbox' = [s \in Socks |-> IF s \in F THEN {} ELSE inbox[s]]
           /\ full' = full \ F
           /\ recvReady' = recvReady \ F /\ sendReady' = sendReady \ F
  <1>1. \A r \in Requests : r \in LostByDelete(F) <=> LostBy(r, F)
    <2> SUFFICES ASSUME NEW r \in Requests
                 PROVE  r \in LostByDelete(F) <=> LostBy(r, F)
      OBVIOUS
    <2>1. r # Nil
      BY NetAssumption
    <2>2. \A s : r \in {mSendQ[s][i] : i \in DOMAIN mSendQ[s]} \cup ({recvCev[s]} \ {Nil})
                   <=> InSendQ(r, s) \/ recvCev[s] = r
      BY <2>1 DEF InSendQ
    <2> QED
      BY <2>2 DEF LostByDelete, LostBy
  <1>2. dones' = Completed(LostByDelete(F))
    BY DEF DeleteConns
  <1>3. dones' = [r \in Requests |->
                IF LostBy(r, F) /\ dones[r] < 2 THEN dones[r] + 1 ELSE dones[r]]
    <2> HIDE DEF LostBy, LostByDelete
    <2> QED
      BY <1>1, <1>2 DEF Completed
  <1> QED
    BY <1>3 DEF DeleteConns, Closed

LEMMA CompletedTypes ==
    ASSUME NEW S, dones \in [Requests -> 0..2]
    PROVE  Completed(S) \in [Requests -> 0..2]
  BY DEF Completed

LEMMA DeleteTypes ==
    ASSUME ClientTypes, DataTypes, NEW F \in SUBSET Socks, DeleteConns(F),
           UNCHANGED <<asked, got>>
    PROVE  ClientTypes' /\ DataTypes'
  <1>1. mSendQ' \in [Socks -> Seq(Requests)]
    <2>1. \A s \in Socks : (IF s \in F THEN <<>> ELSE mSendQ[s]) \in Seq(Requests)
      BY DEF DataTypes
    <2>2. mSendQ' = [s \in Socks |-> IF s \in F THEN <<>> ELSE mSendQ[s]]
      BY DeleteEffect
    <2> QED
      BY <2>1, <2>2
  <1>2. recvCev' \in [Socks -> Requests \cup {Nil}]
    BY DeleteEffect DEF DataTypes
  <1>3. inbox' \in [Socks -> SUBSET Parts]
    <2>1. inbox' = [s \in Socks |-> IF s \in F THEN {} ELSE inbox[s]]
      BY DeleteEffect
    <2> QED
      BY <2>1 DEF ClientTypes
  <1>4. stage' \in [Clients -> {"new", "backlog", "accepted", "gone"}]
    BY DeleteEffect DEF ClientTypes
  <1>5. peer' \in [Socks -> Clients \cup {Nil}] /\ link' \in [Socks -> Links]
    BY DeleteEffect DEF ClientTypes, Links
  <1>6. full' \subseteq Socks
    BY DeleteEffect DEF ClientTypes
  <1> QED
    BY <1>1, <1>2, <1>3, <1>4, <1>5, <1>6 DEF ClientTypes, DataTypes

(* The steps that may delete connections delete only what cannot be found  *)
(* any more.                                                               *)
Frees(F) ==
    /\ F \in SUBSET Socks /\ DeleteConns(F)
    /\ sockConnMap' \subseteq sockConnMap \ F
    /\ UNCHANGED <<asked, got, cevSock, accepting, shortOfFds>>

LEMMA ReleaseFrees ==
    ASSUME ConnTypes, ConnLives, NEW s \in Socks, Release(s),
           UNCHANGED <<sockConnMap, asked, got, cevSock, accepting, shortOfFds>>
    PROVE  LET F == IF mRefCount[s] = 1 /\ s \in mCleaning THEN {s} ELSE {} IN
           Frees(F) /\ mCleaning' = mCleaning \ F
  BY DEF Release, Frees, ConnTypes, ConnLives

LEMMA RemoveFrees ==
    ASSUME ConnTypes, NEW S, RemoveConns(S),
           UNCHANGED <<asked, got, cevSock, accepting, shortOfFds>>
    PROVE  LET F == {s \in S \cap sockConnMap : Idle(s)} IN
           /\ Frees(F) /\ sockConnMap' = sockConnMap \ S
           /\ mCleaning' = mCleaning \cup ((S \cap sockConnMap) \ F)
  BY DEF RemoveConns, Erased, Frees, ConnTypes

-----------------------------------------------------------------------------
(* Types, conjunct by conjunct.                                            *)
LEMMA TypedInit == Init => Typed
  <1> SUFFICES ASSUME Init PROVE Typed
    OBVIOUS
  <1>1. ClientTypes /\ PollTypes
    BY DEF Init, ClientTypes, PollTypes, Links
  <1>4. ConnTypes /\ QueueTypes
    BY DEF Init, ConnTypes, QueueTypes
  <1>5. EventTypes
    BY DEF Init, EventTypes
  <1>2. DataTypes
    <2>1. <<>> \in Seq(Requests)
      OBVIOUS
    <2> QED
      BY <2>1 DEF Init, DataTypes
  <1>3. SendTypes /\ RecvTypes
    BY DEF Init, SendTypes, RecvTypes
  <1> QED
    BY <1>1, <1>2, <1>3, <1>4, <1>5 DEF Typed

(* The connections that threads hold.                                      *)
LEMMA HeldSocks ==
    ASSUME Typed
    PROVE  /\ \A r \in Requests : tpc[r] # "none" => cevSock[r] \in Socks
           /\ \A l \in Lanes : spc[l] # "idle" => sconn[l] \in Socks
           /\ \A l \in Lanes : rpc[l] # "idle" => rconn[l] \in Socks
           /\ \A e \in recvEvents : e.hup => e.sock \in Socks
           /\ \A e \in recvEvents : e.sock # Listen => e.sock \in Socks
           /\ \A e \in sendEvents : e.sock \in Socks
  <1>1. /\ \A r \in Requests : tpc[r] # "none" => cevSock[r] \in Socks
        /\ \A l \in Lanes : spc[l] # "idle" => sconn[l] \in Socks
        /\ \A l \in Lanes : rpc[l] # "idle" => rconn[l] \in Socks
    BY DEF Typed, EventTypes, SendTypes, RecvTypes
  <1>2. /\ \A e \in recvEvents : e.hup => e.sock \in Socks
        /\ \A e \in recvEvents : e.sock # Listen => e.sock \in Socks
        /\ \A e \in sendEvents : e.sock \in Socks
    BY DEF Typed, PollTypes, PollEvents
  <1> QED
    BY <1>1, <1>2

(* Each step that deletes connections is a release or a removal.           *)
FreeingStep ==
    \/ \E e \in recvEvents : RecvHup(e)
    \/ \E e \in sendEvents : SendHup(e)
    \/ \E S \in SUBSET Socks : MakeRoom(S)
    \/ \E l \in Lanes : RecvRelease(l) \/ RecvRemove(l) \/ SendRelease(l)
    \/ \E r \in Requests : ReleaseConn(r)

LEMMA FreeingFrees ==
    ASSUME Typed, ConnLives, FreeingStep
    PROVE  \E F : Frees(F)
  <1>0. ConnTypes
    BY DEF Typed
  <1>1. ASSUME NEW s \in Socks, Release(s),
               UNCHANGED <<sockConnMap, asked, got, cevSock, accepting, shortOfFds>>
        PROVE  \E F : Frees(F)
    BY <1>0, <1>1, ReleaseFrees
  <1>2. ASSUME NEW S, RemoveConns(S),
               UNCHANGED <<asked, got, cevSock, accepting, shortOfFds>>
        PROVE  \E F : Frees(F)
    BY <1>0, <1>2, RemoveFrees
  <1>3. ASSUME NEW e \in recvEvents, RecvHup(e) PROVE \E F : Frees(F)
    BY <1>2, <1>3 DEF RecvHup
  <1>4. ASSUME NEW e \in sendEvents, SendHup(e) PROVE \E F : Frees(F)
    BY <1>2, <1>4 DEF SendHup
  <1>5. ASSUME NEW S \in SUBSET Socks, MakeRoom(S) PROVE \E F : Frees(F)
    BY <1>2, <1>5 DEF MakeRoom, pollVars
  <1>6. ASSUME NEW l \in Lanes, RecvRelease(l) PROVE \E F : Frees(F)
    <2>1. rconn[l] \in Socks
      BY <1>6, HeldSocks DEF RecvRelease
    <2> QED
      BY <1>1, <1>6, <2>1 DEF RecvRelease, pollVars
  <1>7. ASSUME NEW l \in Lanes, SendRelease(l) PROVE \E F : Frees(F)
    <2>1. sconn[l] \in Socks
      BY <1>7, HeldSocks DEF SendRelease
    <2> QED
      BY <1>1, <1>7, <2>1 DEF SendRelease, pollVars
  <1>8. ASSUME NEW l \in Lanes, RecvRemove(l) PROVE \E F : Frees(F)
    BY <1>2, <1>8 DEF RecvRemove, pollVars
  <1>9. ASSUME NEW r \in Requests, ReleaseConn(r) PROVE \E F : Frees(F)
    <2>1. cevSock[r] \in Socks
      BY <1>9, HeldSocks DEF ReleaseConn
    <2> QED
      BY <1>1, <1>9, <2>1 DEF ReleaseConn, pollVars
  <1> QED
    BY <1>3, <1>4, <1>5, <1>6, <1>7, <1>8, <1>9 DEF FreeingStep

LEMMA ClientTypesNext ==
    ASSUME Typed, ConnLives, Peers, [Next]_vars
    PROVE  ClientTypes'
  <1>0. ClientTypes /\ DataTypes
    BY DEF Typed
  <1>1. CASE FreeingStep
    <2>1. PICK F : Frees(F)
      BY <1>1, FreeingFrees
    <2> QED
      BY <1>0, <2>1, DeleteTypes DEF Frees
  <1>2. ASSUME NEW c \in Clients, Connect(c) PROVE ClientTypes'
    BY <1>0, <1>2 DEF Connect, ClientTypes, linkVars
  <1>3. ASSUME NEW r \in Requests, NEW part \in {"whole", "message", "attachment"},
               NEW s \in Socks, Send(r, part, s)
        PROVE  ClientTypes'
    <2>1. inbox[s] \cup {<<r, part>>} \in SUBSET Parts
      BY <1>0 DEF ClientTypes, Parts
    <2>2. inbox' \in [Socks -> SUBSET Parts]
      BY <1>0, <1>3, <2>1 DEF Send, ClientTypes
    <2>3. asked' \in [Requests -> {"nothing", "message", "all"}]
      BY <1>0, <1>3 DEF Send, ClientTypes
    <2> QED
      BY <1>0, <1>3, <2>2, <2>3 DEF Send, ClientTypes
  <1>4. ASSUME NEW s \in Socks, Drain(s) PROVE ClientTypes'
    BY <1>0, <1>4 DEF Drain, ClientTypes, clientVars
  <1>5. ASSUME NEW s \in Socks, NEW how \in {"fin", "reset"}, Leave(s, how) PROVE ClientTypes'
    <2>1. inbox' \in [Socks -> SUBSET Parts]
      BY <1>0, <1>5 DEF Leave, ClientTypes
    <2>2. link' \in [Socks -> Links]
      BY <1>0, <1>5 DEF Leave, ClientTypes, Links
    <2> QED
      BY <1>0, <1>5, <2>1, <2>2 DEF Leave, ClientTypes, clientVars
  <1>6. ASSUME NEW c \in Clients, NEW s \in Socks, Accept(c, s) PROVE ClientTypes'
    BY <1>0, <1>6 DEF Accept, ClientTypes, Links
  <1>7. ASSUME NEW c \in Clients, AcceptError(c) PROVE ClientTypes'
    BY <1>0, <1>7 DEF AcceptError, ClientTypes, linkVars
  <1>8. ASSUME NEW l \in Lanes, NEW r \in Requests, NEW part \in {"whole", "message"},
               RecvMessage(l, r, part) \/ RecvAttachment(l, r) \/ RecvDropped(l, r)
        PROVE  ClientTypes'
    <2>1. rconn[l] \in Socks
      BY <1>8, HeldSocks DEF RecvMessage, RecvAttachment, RecvDropped, Reading
    <2>2. inbox' \in [Socks -> SUBSET Parts]
      <3>1. \E d : inbox' = [inbox EXCEPT ![rconn[l]] = @ \ d]
        BY <1>8 DEF RecvMessage, RecvAttachment, RecvDropped
      <3> QED
        BY <1>0, <2>1, <3>1 DEF ClientTypes
    <2> QED
      BY <1>0, <1>8, <2>2 DEF RecvMessage, RecvAttachment, RecvDropped, ClientTypes,
                            clientVars
  <1>9. ASSUME NEW l \in Lanes, SendDone(l) PROVE ClientTypes'
    <2> DEFINE s == sconn[l]
               r == Head(mSendQ[s])
    <2>1. s \in Socks
      BY <1>9, HeldSocks DEF SendDone, Sending
    <2>2. r \in Requests
      BY <1>0, <1>9, <2>1 DEF SendDone, Sending, DataTypes
    <2>3. link[s] = "up" => peer[s] \in Clients
      BY <1>0, <2>1 DEF Peers, ClientTypes
    <2>4. got' \in [Requests -> SUBSET Clients]
      <3>1. \/ got' = got
            \/ link[s] = "up" /\ got' = [got EXCEPT ![r] = @ \cup {peer[s]}]
        BY <1>9 DEF SendDone
      <3> HIDE DEF r, s
      <3> QED
        BY <1>0, <2>2, <2>3, <3>1 DEF ClientTypes
    <2> QED
      BY <1>0, <1>9, <2>4 DEF SendDone, ClientTypes, linkVars
  <1>10. ASSUME NEW l \in Lanes, SendFull(l) PROVE ClientTypes'
    <2>1. sconn[l] \in Socks
      BY <1>10, HeldSocks DEF SendFull, Sending
    <2> QED
      BY <1>0, <1>10, <2>1 DEF SendFull, ClientTypes, clientVars
  <1>11. CASE UNCHANGED <<clientVars, linkVars>>
    BY <1>0, <1>11 DEF ClientTypes, clientVars, linkVars
  <1> QED
    BY <1>1, <1>2, <1>3, <1>4, <1>5, <1>6, <1>7, <1>8, <1>9, <1>10, <1>11
       DEF Next, ClientStep, RecvPollStep, SendPollStep, RecvStep, SendStep, AnswerStep,
           FreeingStep, vars, FetchRecv, PrepareRecv, StartAccept, NoRoom, EndAccept,
           FetchSend, PollSend, RecvFind, BadMessageAnswered, RecvUnavail, RecvBroken,
           FindConn, NoConn, PostSend, PrepareSend, SendFind, SendStop, SendBroken,
           ClearReady, AtRest

LEMMA FetchedTypes ==
    ASSUME NEW edges \in SUBSET (Socks \cup {Listen})
    PROVE  /\ Fetched(edges) \subseteq PollEvents
           /\ \A e \in Fetched(edges) : e.sock \in edges \ {Listen}
           /\ \A s \in edges \ {Listen} : \E e \in Fetched(edges) : e.sock = s
  <1>1. \A s \in edges \ {Listen} :
          [sock |-> s, hup |-> (link[s] = "reset")] \in Fetched(edges)
    BY DEF Fetched, PollEvents
  <1>2. \A e \in Fetched(edges) : e.sock \in edges \ {Listen} /\ e \in PollEvents
    BY DEF Fetched
  <1> QED
    BY <1>1, <1>2

LEMMA PollTypesNext ==
    ASSUME Typed, ConnLives, [Next]_vars
    PROVE  PollTypes'
  <1>0. PollTypes /\ Listen \notin Socks
    BY NetAssumption DEF Typed
  <1>1. ASSUME NEW F, Frees(F), recvEvents' \subseteq recvEvents,
               sendEvents' \subseteq sendEvents
        PROVE  PollTypes'
    <2>1. recvReady' = recvReady \ F /\ sendReady' = sendReady \ F
      BY <1>1, DeleteEffect DEF Frees
    <2> QED
      BY <1>0, <1>1, <2>1 DEF Frees, PollTypes
  <1>2. CASE FreeingStep
    <2>1. recvEvents' \subseteq recvEvents /\ sendEvents' \subseteq sendEvents
      BY <1>2 DEF FreeingStep, RecvHup, SendHup, MakeRoom, RecvRelease, RecvRemove,
                  SendRelease, ReleaseConn, pollVars
    <2> QED
      BY <1>1, <1>2, <2>1, FreeingFrees
  <1>3. CASE \E c \in Clients : Connect(c)
    BY <1>0, <1>3 DEF Connect, PollTypes, pollVars
  <1>4. ASSUME NEW r \in Requests, NEW part, NEW s \in Socks, Send(r, part, s)
        PROVE  PollTypes'
    BY <1>0, <1>4 DEF Send, PollTypes, pollVars
  <1>5. ASSUME NEW s \in Socks, NEW how, Drain(s) \/ Leave(s, how) PROVE PollTypes'
    BY <1>0, <1>5 DEF Drain, Leave, PollTypes, pollVars
  <1>6. CASE FetchRecv
    <2> DEFINE news == Fetched(recvReady) \cup [sock : recvReady \cap {Listen}, hup : {FALSE}]
    <2>1. news \subseteq PollEvents /\ \A e \in news : e.hup => e.sock # Listen
      <3>1. /\ Fetched(recvReady) \subseteq PollEvents
            /\ \A e \in Fetched(recvReady) : e.sock # Listen
        BY <1>0, FetchedTypes DEF PollTypes
      <3>2. \A e \in [sock : recvReady \cap {Listen}, hup : {FALSE}] :
              e \in PollEvents /\ ~e.hup
        BY DEF PollEvents
      <3> QED
        BY <3>1, <3>2
    <2>2. recvEvents' = news
      BY <1>6 DEF FetchRecv
    <2> HIDE DEF news
    <2> QED
      BY <1>0, <1>6, <2>1, <2>2 DEF FetchRecv, PollTypes
  <1>7. CASE FetchSend
    <2>1. /\ Fetched(sendReady) \subseteq PollEvents
          /\ \A e \in Fetched(sendReady) : e.sock # Listen
      BY <1>0, FetchedTypes DEF PollTypes
    <2>2. sendEvents' = Fetched(sendReady)
      BY <1>7 DEF FetchSend
    <2> QED
      BY <1>0, <1>7, <2>1, <2>2 DEF FetchSend, PollTypes
  <1>8. ASSUME NEW e \in recvEvents, PrepareRecv(e) \/ StartAccept(e) PROVE PollTypes'
    BY <1>0, <1>8 DEF PrepareRecv, StartAccept, PollTypes, edgeVars
  <1>9. ASSUME NEW e \in sendEvents, PollSend(e) PROVE PollTypes'
    BY <1>0, <1>9 DEF PollSend, PollTypes, edgeVars
  <1>10. ASSUME NEW c \in Clients, NEW s \in Socks, Accept(c, s) PROVE PollTypes'
    BY <1>0, <1>10 DEF Accept, PollTypes, pollVars
  <1>11. CASE \E c \in Clients : AcceptError(c)
    BY <1>0, <1>11 DEF AcceptError, NextAccept, PollTypes, edgeVars
  <1>12. CASE NoRoom \/ EndAccept
    BY <1>0, <1>12 DEF NoRoom, EndAccept, PollTypes, edgeVars
  <1>13. CASE UNCHANGED <<edgeVars, pollVars>>
    BY <1>0, <1>13 DEF PollTypes, edgeVars, pollVars
  <1>14. CASE ClientStep
    BY <1>3, <1>4, <1>5, <1>14 DEF ClientStep
  <1>15. CASE RecvPollStep
    BY <1>2, <1>6, <1>8, <1>10, <1>11, <1>12, <1>15 DEF RecvPollStep, FreeingStep
  <1>16. CASE SendPollStep
    BY <1>2, <1>7, <1>9, <1>16 DEF SendPollStep, FreeingStep
  <1>17. ASSUME NEW l \in Lanes, RecvStep(l) PROVE PollTypes'
    BY <1>2, <1>13, <1>17
       DEF RecvStep, RecvFind, RecvMessage, RecvAttachment, BadMessageAnswered,
           RecvUnavail, RecvBroken, RecvDropped, FreeingStep
  <1>18. ASSUME NEW l \in Lanes, SendStep(l) PROVE PollTypes'
    BY <1>2, <1>13, <1>18
       DEF SendStep, SendFind, SendStop, SendDone, SendBroken, SendFull, ClearReady,
           FreeingStep
  <1>19. ASSUME NEW r \in Requests, AnswerStep(r) PROVE PollTypes'
    BY <1>2, <1>13, <1>19
       DEF AnswerStep, FindConn, NoConn, PostSend, PrepareSend, FreeingStep
  <1>20. CASE AtRest \/ UNCHANGED vars
    BY <1>13, <1>20 DEF AtRest, vars
  <1> QED
    BY <1>14, <1>15, <1>16, <1>17, <1>18, <1>19, <1>20 DEF Next

LEMMA ConnTypesNext ==
    ASSUME Typed, ConnLives, [Next]_vars
    PROVE  ConnTypes'
  <1>0. ConnTypes
    BY DEF Typed
  <1>1. ASSUME NEW F \in SUBSET Socks, DeleteConns(F)
        PROVE  mReadyToSend' \subseteq Socks /\ overrun' \subseteq Socks
    BY <1>0, <1>1, DeleteEffect DEF ConnTypes
  <1>2. ASSUME NEW s \in Socks, Release(s), UNCHANGED sockConnMap PROVE ConnTypes'
    <2>1. PICK F \in SUBSET Socks : DeleteConns(F) /\ mCleaning' = mCleaning \ F
      BY <1>2 DEF Release
    <2>2. mRefCount' = [mRefCount EXCEPT ![s] = @ - 1]
      BY <1>2 DEF Release
    <2> QED
      BY <1>0, <1>1, <1>2, <2>1, <2>2 DEF ConnTypes
  <1>3. ASSUME NEW S, RemoveConns(S), UNCHANGED mRefCount PROVE ConnTypes'
    <2> DEFINE F == {s \in S \cap sockConnMap : Idle(s)}
    <2>1. /\ F \in SUBSET Socks /\ DeleteConns(F) /\ sockConnMap' \subseteq sockConnMap
          /\ mCleaning' \subseteq mCleaning \cup sockConnMap
      BY <1>0, <1>3 DEF RemoveConns, Erased, ConnTypes
    <2> HIDE DEF F
    <2> QED
      BY <1>0, <1>1, <1>3, <2>1 DEF ConnTypes
  <1>4. CASE FreeingStep
    <2>1. ASSUME NEW e \in recvEvents, RecvHup(e) PROVE ConnTypes'
      BY <1>3, <2>1 DEF RecvHup
    <2>2. ASSUME NEW e \in sendEvents, SendHup(e) PROVE ConnTypes'
      BY <1>3, <2>2 DEF SendHup
    <2>3. ASSUME NEW S \in SUBSET Socks, MakeRoom(S) PROVE ConnTypes'
      BY <1>3, <2>3 DEF MakeRoom
    <2>4. ASSUME NEW l \in Lanes, RecvRelease(l) PROVE ConnTypes'
      BY <1>2, <2>4, HeldSocks DEF RecvRelease
    <2>5. ASSUME NEW l \in Lanes, RecvRemove(l) PROVE ConnTypes'
      BY <1>3, <2>5 DEF RecvRemove
    <2>6. ASSUME NEW l \in Lanes, SendRelease(l) PROVE ConnTypes'
      BY <1>2, <2>6, HeldSocks DEF SendRelease
    <2>7. ASSUME NEW r \in Requests, ReleaseConn(r) PROVE ConnTypes'
      BY <1>2, <2>7, HeldSocks DEF ReleaseConn
    <2> QED
      BY <1>4, <2>1, <2>2, <2>3, <2>4, <2>5, <2>6, <2>7 DEF FreeingStep
  <1>5. ASSUME NEW c \in Clients, NEW s \in Socks, Accept(c, s) PROVE ConnTypes'
    BY <1>0, <1>5 DEF Accept, ConnTypes
  <1>6. ASSUME NEW e \in sendEvents, PollSend(e) PROVE ConnTypes'
    BY <1>0, <1>6, HeldSocks DEF PollSend, ConnTypes
  <1>7. ASSUME NEW l \in Lanes, NEW s \in Socks, RecvFind(l, s) \/ SendFind(l, s)
        PROVE  ConnTypes'
    BY <1>0, <1>7 DEF RecvFind, SendFind, Acquire, ConnTypes, connVars
  <1>8. ASSUME NEW r \in Requests, FindConn(r) PROVE ConnTypes'
    <2>1. PICK s \in sockConnMap : Acquire(s)
      BY <1>8 DEF FindConn, ConnOf
    <2> QED
      BY <1>0, <1>8, <2>1 DEF FindConn, Acquire, ConnTypes, connVars
  <1>9. ASSUME NEW l \in Lanes, ClearReady(l) PROVE ConnTypes'
    <2>1. sconn[l] \in Socks
      BY <1>9, HeldSocks DEF ClearReady
    <2> QED
      BY <1>0, <1>9, <2>1 DEF ClearReady, ConnTypes
  <1>10. CASE UNCHANGED <<sockConnMap, mCleaning, overrun, mReadyToSend, mRefCount>>
    BY <1>0, <1>10 DEF ConnTypes
  <1>11. CASE ClientStep
    BY <1>10, <1>11 DEF ClientStep, Connect, Send, Drain, Leave, connVars
  <1>12. CASE RecvPollStep
    BY <1>4, <1>5, <1>10, <1>12
       DEF RecvPollStep, FetchRecv, PrepareRecv, StartAccept, AcceptError, NoRoom,
           EndAccept, FreeingStep, connVars
  <1>13. CASE SendPollStep
    BY <1>4, <1>6, <1>10, <1>13 DEF SendPollStep, FetchSend, FreeingStep, connVars
  <1>14. ASSUME NEW l \in Lanes, RecvStep(l) PROVE ConnTypes'
    BY <1>4, <1>7, <1>10, <1>14
       DEF RecvStep, RecvMessage, RecvAttachment, BadMessageAnswered, RecvUnavail,
           RecvBroken, RecvDropped, FreeingStep, connVars
  <1>15. ASSUME NEW l \in Lanes, SendStep(l) PROVE ConnTypes'
    BY <1>4, <1>7, <1>9, <1>10, <1>15
       DEF SendStep, SendStop, SendDone, SendBroken, SendFull, FreeingStep, connVars
  <1>16. ASSUME NEW r \in Requests, AnswerStep(r) PROVE ConnTypes'
    BY <1>4, <1>8, <1>10, <1>16
       DEF AnswerStep, NoConn, PostSend, PrepareSend, FreeingStep, connVars
  <1>17. CASE AtRest \/ UNCHANGED vars
    BY <1>10, <1>17 DEF AtRest, vars, connVars
  <1> QED
    BY <1>11, <1>12, <1>13, <1>14, <1>15, <1>16, <1>17 DEF Next

LEMMA DataTypesNext ==
    ASSUME Typed, ConnLives, [Next]_vars
    PROVE  DataTypes'
  <1>0. DataTypes /\ ClientTypes
    BY DEF Typed
  <1>1. CASE FreeingStep
    <2>1. PICK F : Frees(F)
      BY <1>1, FreeingFrees
    <2> QED
      BY <1>0, <2>1, DeleteTypes DEF Frees
  <1>2. ASSUME NEW l \in Lanes,
               \/ \E r \in Requests, part \in {"whole", "message"} : RecvMessage(l, r, part)
               \/ \E r \in Requests : RecvAttachment(l, r)
               \/ RecvBroken(l)
        PROVE  DataTypes'
    <2>1. rconn[l] \in Socks
      BY <1>2, HeldSocks DEF RecvMessage, RecvAttachment, RecvBroken, Reading
    <2>2. \E v \in Requests \cup {Nil} :
            recvCev' = [recvCev EXCEPT ![rconn[l]] = v] \/ recvCev' = recvCev
      BY <1>2 DEF RecvMessage, RecvAttachment, RecvBroken
    <2>3. recvCev' \in [Socks -> Requests \cup {Nil}]
      BY <1>0, <2>1, <2>2 DEF DataTypes
    <2> QED
      BY <1>0, <1>2, <2>3 DEF RecvMessage, RecvAttachment, RecvBroken, DataTypes
  <1>3. ASSUME NEW r \in Requests, PostSend(r) PROVE DataTypes'
    <2>1. cevSock[r] \in Socks
      BY <1>3, HeldSocks DEF PostSend
    <2>2. Append(mSendQ[cevSock[r]], r) \in Seq(Requests)
      BY <1>0, <2>1 DEF DataTypes
    <2> QED
      BY <1>0, <1>3, <2>1, <2>2 DEF PostSend, DataTypes
  <1>4. ASSUME NEW l \in Lanes, SendDone(l) \/ SendBroken(l) PROVE DataTypes'
    <2>1. sconn[l] \in Socks
      BY <1>4, HeldSocks DEF SendDone, SendBroken, Sending
    <2>2. Tail(mSendQ[sconn[l]]) \in Seq(Requests)
      BY <1>0, <1>4, <2>1 DEF DataTypes, SendDone, SendBroken, Sending
    <2>3. mSendQ' = [mSendQ EXCEPT ![sconn[l]] = Tail(@)]
      BY <1>4 DEF SendDone, SendBroken, LeftAfterError
    <2> QED
      BY <1>0, <1>4, <2>1, <2>2, <2>3 DEF SendDone, SendBroken, DataTypes
  <1>5. CASE UNCHANGED <<mSendQ, recvCev>>
    BY <1>0, <1>5 DEF DataTypes
  <1> QED
    BY <1>1, <1>2, <1>3, <1>4, <1>5
       DEF Next, ClientStep, RecvPollStep, SendPollStep, RecvStep, SendStep, AnswerStep,
           FreeingStep, vars, connVars, Connect, Send, Drain, Leave, FetchRecv,
           PrepareRecv, StartAccept, Accept, AcceptError, NoRoom, EndAccept, FetchSend,
           PollSend, RecvFind, RecvDropped, BadMessageAnswered, RecvUnavail, FindConn, NoConn,
           PrepareSend, SendFind, SendStop, SendFull, ClearReady, AtRest

LEMMA EventTypesNext ==
    ASSUME Typed, ConnLives, WhereInv, [Next]_vars
    PROVE  EventTypes'
  <1>0. EventTypes /\ Nil \notin Socks
    BY NetAssumption DEF Typed
  <1>1. ASSUME NEW F, Frees(F), tpc' = tpc \/ \E r \in Requests :
                 tpc[r] # "none" /\ tpc' = [tpc EXCEPT ![r] = "end"]
        PROVE  EventTypes'
    <2>1. dones' \in [Requests -> 0..2]
      BY <1>0, <1>1, CompletedTypes DEF Frees, DeleteConns, EventTypes
    <2> QED
      BY <1>0, <1>1, <2>1 DEF Frees, EventTypes
  <1>2. CASE FreeingStep
    <2>1. tpc' = tpc \/ \E r \in Requests :
            tpc[r] # "none" /\ tpc' = [tpc EXCEPT ![r] = "end"]
      BY <1>2 DEF FreeingStep, RecvHup, SendHup, MakeRoom, RecvRelease, RecvRemove,
                  SendRelease, ReleaseConn
    <2> QED
      BY <1>1, <1>2, <2>1, FreeingFrees
  <1>3. ASSUME NEW l \in Lanes, NEW r \in Requests, NEW part, RecvMessage(l, r, part)
        PROVE  EventTypes'
    <2>1. rconn[l] \in Socks /\ cevSock' = [cevSock EXCEPT ![r] = rconn[l]]
      BY <1>3, HeldSocks DEF RecvMessage, Reading
    <2>2. tpc' = tpc \/ tpc' = [tpc EXCEPT ![r] = "next"]
      BY <1>3 DEF RecvMessage
    <2> QED
      BY <1>0, <1>3, <2>1, <2>2 DEF RecvMessage, EventTypes
  <1>4. ASSUME NEW l \in Lanes, NEW r \in Requests, RecvAttachment(l, r)
        PROVE  EventTypes'
    <2>1. rconn[l] \in Socks /\ recvCev[rconn[l]] = r
      BY <1>4, HeldSocks DEF RecvAttachment, Reading
    <2>2. cevSock[r] # Nil
      BY <1>0, <2>1 DEF WhereInv, Where
    <2> QED
      BY <1>0, <1>4, <2>2 DEF RecvAttachment, EventTypes
  <1>5. ASSUME NEW l \in Lanes, RecvBroken(l) \/ SendDone(l) \/ SendBroken(l)
        PROVE  EventTypes'
    <2>1. dones' \in [Requests -> 0..2]
      BY <1>0, <1>5, CompletedTypes DEF RecvBroken, SendDone, SendBroken, EventTypes
    <2> QED
      BY <1>0, <1>5, <2>1 DEF RecvBroken, SendDone, SendBroken, EventTypes
  <1>6. ASSUME NEW r \in Requests, FindConn(r) PROVE EventTypes'
    <2>1. PICK s \in ConnOf(r) : cevSock' = [cevSock EXCEPT ![r] = s]
      BY <1>6 DEF FindConn
    <2>2. s \in Socks
      BY <2>1 DEF ConnOf, Typed, ConnTypes
    <2> QED
      BY <1>0, <1>6, <2>1, <2>2 DEF FindConn, EventTypes
  <1>7. ASSUME NEW r \in Requests, NoConn(r) PROVE EventTypes'
    <2>1. dones' \in [Requests -> 0..2]
      BY <1>0, <1>7, CompletedTypes DEF NoConn, EventTypes
    <2> QED
      BY <1>0, <1>7, <2>1 DEF NoConn, EventTypes
  <1>8. ASSUME NEW r \in Requests, PostSend(r) \/ PrepareSend(r) PROVE EventTypes'
    BY <1>0, <1>8 DEF PostSend, PrepareSend, EventTypes
  <1>9. CASE UNCHANGED eventVars
    BY <1>0, <1>9 DEF eventVars, EventTypes
  <1> QED
    BY <1>2, <1>3, <1>4, <1>5, <1>6, <1>7, <1>8, <1>9
       DEF Next, ClientStep, RecvPollStep, SendPollStep, RecvStep, SendStep, AnswerStep,
           FreeingStep, vars, Connect, Send, Drain, Leave, FetchRecv, PrepareRecv,
           StartAccept, Accept, AcceptError, NoRoom, EndAccept, FetchSend, PollSend,
           RecvFind, RecvDropped, BadMessageAnswered, RecvUnavail, SendFind, SendStop, SendFull,
           ClearReady, AtRest

LEMMA QueueTypesNext ==
    ASSUME Typed, [Next]_vars
    PROVE  QueueTypes'
  <1>0. QueueTypes
    BY DEF Typed
  <1>1. ASSUME NEW e \in recvEvents, PrepareRecv(e) PROVE QueueTypes'
    BY <1>0, <1>1, HeldSocks DEF PrepareRecv, QueueTypes
  <1>2. ASSUME NEW e \in sendEvents, PollSend(e) PROVE QueueTypes'
    BY <1>0, <1>2, HeldSocks DEF PollSend, QueueTypes
  <1>3. ASSUME NEW r \in Requests, PrepareSend(r) PROVE QueueTypes'
    BY <1>0, <1>3, HeldSocks DEF PrepareSend, ToSend, QueueTypes
  <1>4. ASSUME NEW l \in Lanes, NEW s \in Socks, RecvFind(l, s) \/ SendFind(l, s)
        PROVE  QueueTypes'
    BY <1>0, <1>4 DEF RecvFind, SendFind, QueueTypes
  <1>5. CASE UNCHANGED queueVars
    BY <1>0, <1>5 DEF queueVars, QueueTypes
  <1>6. CASE ClientStep
    BY <1>5, <1>6 DEF ClientStep, Connect, Send, Drain, Leave
  <1>7. CASE RecvPollStep
    BY <1>1, <1>5, <1>7
       DEF RecvPollStep, FetchRecv, RecvHup, StartAccept, Accept, AcceptError, MakeRoom,
           NoRoom, EndAccept
  <1>8. CASE SendPollStep
    BY <1>2, <1>5, <1>8 DEF SendPollStep, FetchSend, SendHup
  <1>9. ASSUME NEW l \in Lanes, RecvStep(l) PROVE QueueTypes'
    BY <1>4, <1>5, <1>9
       DEF RecvStep, RecvMessage, RecvAttachment, BadMessageAnswered, RecvUnavail,
           RecvBroken, RecvDropped, RecvRelease, RecvRemove
  <1>10. ASSUME NEW l \in Lanes, SendStep(l) PROVE QueueTypes'
    BY <1>4, <1>5, <1>10
       DEF SendStep, SendStop, SendDone, SendBroken, SendFull, ClearReady, SendRelease
  <1>11. ASSUME NEW r \in Requests, AnswerStep(r) PROVE QueueTypes'
    BY <1>3, <1>5, <1>11 DEF AnswerStep, FindConn, NoConn, PostSend, ReleaseConn
  <1>12. CASE AtRest \/ UNCHANGED vars
    BY <1>5, <1>12 DEF AtRest, vars
  <1> QED
    BY <1>6, <1>7, <1>8, <1>9, <1>10, <1>11, <1>12 DEF Next

LEMMA SendTypesNext ==
    ASSUME Typed, [Next]_vars
    PROVE  SendTypes'
  <1>0. SendTypes /\ Nil \notin Socks
    BY NetAssumption DEF Typed
  <1>1. ASSUME NEW l \in Lanes, NEW s \in Socks, SendFind(l, s) PROVE SendTypes'
    BY <1>0, <1>1 DEF SendFind, SendTypes
  <1>2. ASSUME NEW l \in Lanes, SendStop(l) \/ SendBroken(l) \/ SendFull(l) \/ ClearReady(l)
        PROVE  SendTypes'
    <2>1. /\ spc[l] # "idle" /\ sconn' = sconn
          /\ \E v \in {"eagain", "release"} : spc' = [spc EXCEPT ![l] = v]
      BY <1>2 DEF SendStop, SendBroken, SendFull, ClearReady, Sending
    <2> QED
      BY <1>0, <2>1 DEF SendTypes
  <1>3. ASSUME NEW l \in Lanes, SendRelease(l) PROVE SendTypes'
    BY <1>0, <1>3 DEF SendRelease, SendTypes
  <1>4. CASE UNCHANGED sendVars
    BY <1>0, <1>4 DEF sendVars, SendTypes
  <1>5. CASE ClientStep
    BY <1>4, <1>5 DEF ClientStep, Connect, Send, Drain, Leave, sendVars
  <1>6. CASE RecvPollStep
    BY <1>4, <1>6
       DEF RecvPollStep, FetchRecv, RecvHup, PrepareRecv, StartAccept, Accept,
           AcceptError, MakeRoom, NoRoom, EndAccept, sendVars
  <1>7. CASE SendPollStep
    BY <1>4, <1>7 DEF SendPollStep, FetchSend, SendHup, PollSend, sendVars
  <1>8. ASSUME NEW l \in Lanes, RecvStep(l) PROVE SendTypes'
    BY <1>4, <1>8
       DEF RecvStep, RecvFind, RecvMessage, RecvAttachment, BadMessageAnswered,
           RecvUnavail, RecvBroken, RecvDropped, RecvRelease, RecvRemove, sendVars
  <1>9. ASSUME NEW l \in Lanes, SendStep(l) PROVE SendTypes'
    BY <1>1, <1>2, <1>3, <1>4, <1>9 DEF SendStep, SendDone, sendVars
  <1>10. ASSUME NEW r \in Requests, AnswerStep(r) PROVE SendTypes'
    BY <1>4, <1>10
       DEF AnswerStep, FindConn, NoConn, PostSend, PrepareSend, ReleaseConn, sendVars
  <1>11. CASE AtRest \/ UNCHANGED vars
    BY <1>4, <1>11 DEF AtRest, vars, sendVars
  <1> QED
    BY <1>5, <1>6, <1>7, <1>8, <1>9, <1>10, <1>11 DEF Next

LEMMA RecvTypesNext ==
    ASSUME Typed, [Next]_vars
    PROVE  RecvTypes'
  <1>0. RecvTypes /\ Nil \notin Socks /\ Nil \notin Requests
    BY NetAssumption DEF Typed
  <1>1. ASSUME NEW l \in Lanes, NEW s \in Socks, RecvFind(l, s) PROVE RecvTypes'
    BY <1>0, <1>1 DEF RecvFind, RecvTypes
  <1>2. ASSUME NEW l \in Lanes, NEW r \in Requests, NEW part, RecvMessage(l, r, part)
        PROVE  RecvTypes'
    <2>1. /\ rpc[l] = "progress" /\ rconn' = rconn
          /\ \/ UNCHANGED <<rpc, rreq>>
             \/ rpc' = [rpc EXCEPT ![l] = "answer"] /\ rreq' = [rreq EXCEPT ![l] = r]
      BY <1>2 DEF RecvMessage, Reading
    <2> QED
      BY <1>0, <2>1 DEF RecvTypes
  <1>3. ASSUME NEW l \in Lanes, BadMessageAnswered(l) PROVE RecvTypes'
    BY <1>0, <1>3 DEF BadMessageAnswered, RecvTypes
  <1>4. ASSUME NEW l \in Lanes, RecvUnavail(l) \/ RecvBroken(l) PROVE RecvTypes'
    <2>1. /\ rpc[l] = "progress" /\ rconn' = rconn /\ rreq' = rreq
          /\ \E v \in {"broken", "release"} : rpc' = [rpc EXCEPT ![l] = v]
      BY <1>4 DEF RecvUnavail, RecvBroken, Reading
    <2> QED
      BY <1>0, <2>1 DEF RecvTypes
  <1>5. ASSUME NEW l \in Lanes, RecvRelease(l) \/ RecvRemove(l) PROVE RecvTypes'
    <2>1. /\ rpc[l] \in {"release", "broken", "remove"} /\ rreq' = rreq
          /\ \/ rpc' = [rpc EXCEPT ![l] = "idle"] /\ rconn' = [rconn EXCEPT ![l] = Nil]
             \/ rpc' = [rpc EXCEPT ![l] = "remove"] /\ rconn' = rconn
      BY <1>5 DEF RecvRelease, RecvRemove
    <2> QED
      BY <1>0, <2>1 DEF RecvTypes
  <1>6. CASE UNCHANGED recvVars
    BY <1>0, <1>6 DEF recvVars, RecvTypes
  <1> QED
    BY <1>1, <1>2, <1>3, <1>4, <1>5, <1>6
       DEF Next, ClientStep, RecvPollStep, SendPollStep, RecvStep, SendStep, AnswerStep,
           vars, Connect, Send, Drain, Leave, FetchRecv, RecvHup, PrepareRecv,
           StartAccept, Accept, AcceptError, MakeRoom, NoRoom, EndAccept, FetchSend,
           SendHup, PollSend, RecvAttachment, FindConn, NoConn, PostSend, PrepareSend,
           ReleaseConn, SendFind, SendStop, SendDone, SendBroken, SendFull, ClearReady,
           SendRelease, RecvDropped, AtRest

LEMMA TypedNext ==
    ASSUME Typed, ConnLives, Peers, WhereInv, [Next]_vars
    PROVE  Typed'
  BY ClientTypesNext, PollTypesNext, ConnTypesNext, DataTypesNext, EventTypesNext,
     QueueTypesNext, SendTypesNext, RecvTypesNext DEF Typed

-----------------------------------------------------------------------------
(* References.  A thread gets or gives up a connection in the step that    *)
(* counts it.                                                              *)
Users(s) == <<Answering(s), Senders(s), Receivers(s)>>

FinitelyUsed ==
    \A s \in Socks :
      /\ IsFiniteSet(Answering(s)) /\ IsFiniteSet(Senders(s)) /\ IsFiniteSet(Receivers(s))
      /\ Senders(s) \subseteq {Lane[s]} /\ Receivers(s) \subseteq {Lane[s]}

LEMMA FiniteUsers == Typed => FinitelyUsed
  <1> SUFFICES ASSUME Typed, NEW s \in Socks
               PROVE  /\ IsFiniteSet(Answering(s)) /\ IsFiniteSet(Senders(s))
                      /\ IsFiniteSet(Receivers(s))
                      /\ Senders(s) \subseteq {Lane[s]} /\ Receivers(s) \subseteq {Lane[s]}
    BY DEF FinitelyUsed
  <1>1. /\ Answering(s) \subseteq Requests
        /\ Senders(s) \subseteq {Lane[s]} /\ Receivers(s) \subseteq {Lane[s]}
    BY NetAssumption DEF Typed, SendTypes, RecvTypes, Answering, Senders, Receivers
  <1>2. IsFiniteSet(Requests) /\ IsFiniteSet({Lane[s]})
    BY NetAssumption, FS_Singleton
  <1> QED
    BY <1>1, <1>2, FS_Subset

LEMMA SumOfCardinalities ==
    ASSUME NEW A, NEW B, NEW C,
           IsFiniteSet(A), IsFiniteSet(B), IsFiniteSet(C)
    PROVE  LET n == Cardinality(A) + Cardinality(B) + Cardinality(C) IN
           /\ n \in Nat
           /\ n = 0 => A = {} /\ B = {} /\ C = {}
           /\ \A x : x \in A \/ x \in B \/ x \in C => n > 0
           /\ \A x : x \notin A =>
                Cardinality(A \cup {x}) + Cardinality(B) + Cardinality(C) = n + 1
           /\ \A x : x \notin B =>
                Cardinality(A) + Cardinality(B \cup {x}) + Cardinality(C) = n + 1
           /\ \A x : x \notin C =>
                Cardinality(A) + Cardinality(B) + Cardinality(C \cup {x}) = n + 1
           /\ \A x : x \in A =>
                Cardinality(A \ {x}) + Cardinality(B) + Cardinality(C) = n - 1
           /\ \A x : x \in B =>
                Cardinality(A) + Cardinality(B \ {x}) + Cardinality(C) = n - 1
           /\ \A x : x \in C =>
                Cardinality(A) + Cardinality(B) + Cardinality(C \ {x}) = n - 1
  <1>1. /\ Cardinality(A) \in Nat /\ Cardinality(B) \in Nat /\ Cardinality(C) \in Nat
        /\ Cardinality(A) = 0 <=> A = {}
        /\ Cardinality(B) = 0 <=> B = {}
        /\ Cardinality(C) = 0 <=> C = {}
    BY FS_CardinalityType, FS_EmptySet
  <1>2. /\ \A x : x \notin A => Cardinality(A \cup {x}) = Cardinality(A) + 1
        /\ \A x : x \notin B => Cardinality(B \cup {x}) = Cardinality(B) + 1
        /\ \A x : x \notin C => Cardinality(C \cup {x}) = Cardinality(C) + 1
    BY FS_AddElement
  <1>3. /\ \A x : x \in A => Cardinality(A \ {x}) = Cardinality(A) - 1
        /\ \A x : x \in B => Cardinality(B \ {x}) = Cardinality(B) - 1
        /\ \A x : x \in C => Cardinality(C \ {x}) = Cardinality(C) - 1
    BY FS_RemoveElement
  <1> QED
    BY <1>1, <1>2, <1>3

(* One more, or one less, user of s.                                       *)
Gains(s) ==
    \/ \E r : /\ r \notin Answering(s) /\ Answering(s)' = Answering(s) \cup {r}
              /\ Senders(s)' = Senders(s) /\ Receivers(s)' = Receivers(s)
    \/ \E l : /\ l \notin Senders(s) /\ Senders(s)' = Senders(s) \cup {l}
              /\ Answering(s)' = Answering(s) /\ Receivers(s)' = Receivers(s)
    \/ \E l : /\ l \notin Receivers(s) /\ Receivers(s)' = Receivers(s) \cup {l}
              /\ Answering(s)' = Answering(s) /\ Senders(s)' = Senders(s)
Loses(s) ==
    \/ \E r : /\ r \in Answering(s) /\ Answering(s)' = Answering(s) \ {r}
              /\ Senders(s)' = Senders(s) /\ Receivers(s)' = Receivers(s)
    \/ \E l : /\ l \in Senders(s) /\ Senders(s)' = Senders(s) \ {l}
              /\ Answering(s)' = Answering(s) /\ Receivers(s)' = Receivers(s)
    \/ \E l : /\ l \in Receivers(s) /\ Receivers(s)' = Receivers(s) \ {l}
              /\ Answering(s)' = Answering(s) /\ Senders(s)' = Senders(s)

LEMMA HoldersCount ==
    ASSUME Typed, Typed', NEW s \in Socks
    PROVE  /\ Holders(s) \in Nat
           /\ Gains(s) => Holders(s)' = Holders(s) + 1
           /\ Loses(s) => Holders(s)' = Holders(s) - 1 /\ Holders(s) > 0
           /\ Users(s)' = Users(s) => Holders(s)' = Holders(s)
           /\ Holders(s)' = 0 =>
                Answering(s)' = {} /\ Senders(s)' = {} /\ Receivers(s)' = {}
           /\ Holders(s) = 0 =>
                Answering(s) = {} /\ Senders(s) = {} /\ Receivers(s) = {}
  <1>0. /\ IsFiniteSet(Answering(s)) /\ IsFiniteSet(Answering(s)')
        /\ IsFiniteSet(Senders(s)) /\ IsFiniteSet(Senders(s)')
        /\ IsFiniteSet(Receivers(s)) /\ IsFiniteSet(Receivers(s)')
    <2>1. (Typed => FinitelyUsed)'
      BY FiniteUsers, PTL
    <2> QED
      BY <2>1, FiniteUsers DEF FinitelyUsed
  <1>1. /\ Holders(s) = Cardinality(Answering(s)) + Cardinality(Senders(s))
                          + Cardinality(Receivers(s))
        /\ Holders(s)' = Cardinality(Answering(s)') + Cardinality(Senders(s)')
                          + Cardinality(Receivers(s)')
    BY DEF Holders, Answering, Senders, Receivers
  <1>2. Gains(s) => Holders(s)' = Holders(s) + 1
    BY <1>0, <1>1, SumOfCardinalities DEF Gains
  <1>3. Loses(s) => Holders(s)' = Holders(s) - 1 /\ Holders(s) > 0
    BY <1>0, <1>1, SumOfCardinalities DEF Loses
  <1>4. /\ Holders(s) \in Nat
        /\ Holders(s)' = 0 => Answering(s)' = {} /\ Senders(s)' = {} /\ Receivers(s)' = {}
        /\ Holders(s) = 0 => Answering(s) = {} /\ Senders(s) = {} /\ Receivers(s) = {}
    BY <1>0, <1>1, SumOfCardinalities
  <1>5. Users(s)' = Users(s) => Holders(s)' = Holders(s)
    BY <1>1 DEF Users
  <1> QED
    BY <1>2, <1>3, <1>4, <1>5

-----------------------------------------------------------------------------
(* The kinds of steps that the connections see.                            *)
SameUsers(S) == \A s \in S : Users(s)' = Users(s)
KeepsConns ==
    /\ UNCHANGED <<sockConnMap, mCleaning, mRefCount>> /\ SameUsers(Socks)
    /\ \A s \in Socks : link'[s] = "closed" <=> link[s] = "closed"
Finds(s) ==
    /\ s \in sockConnMap /\ Acquire(s) /\ UNCHANGED <<sockConnMap, mCleaning, link>>
    /\ Gains(s) /\ SameUsers(Socks \ {s})
Opens(s) ==
    /\ link[s] = "closed" /\ link' = [link EXCEPT ![s] = "up"]
    /\ sockConnMap' = sockConnMap \cup {s}
    /\ UNCHANGED <<mCleaning, mRefCount>> /\ SameUsers(Socks)
Releases(s) ==
    /\ Release(s) /\ UNCHANGED sockConnMap
    /\ Loses(s) /\ SameUsers(Socks \ {s})
Removes(S) == RemoveConns(S) /\ UNCHANGED mRefCount /\ SameUsers(Socks)

Kinds ==
    \/ KeepsConns
    \/ \E s \in Socks : Finds(s) \/ Releases(s) \/ Opens(s)
    \/ \E S : Removes(S)

LEMMA AnsweringUsers ==
    ASSUME Typed, NEW r \in Requests, UNCHANGED <<sendVars, recvVars>>,
           cevSock[r] \in Socks, cevSock' = cevSock
    PROVE  /\ tpc[r] = "next" /\ tpc' = [tpc EXCEPT ![r] = "post"]
                => Gains(cevSock[r]) /\ SameUsers(Socks \ {cevSock[r]})
           /\ tpc[r] = "release" /\ tpc' = [tpc EXCEPT ![r] = "end"]
                => Loses(cevSock[r]) /\ SameUsers(Socks \ {cevSock[r]})
  <1> DEFINE Same(t) == Senders(t)' = Senders(t) /\ Receivers(t)' = Receivers(t)
  <1>1. EventTypes /\ \A t : Same(t)
    BY DEF Typed, sendVars, recvVars, Senders, Receivers
  <1>2. ASSUME tpc[r] = "next", tpc' = [tpc EXCEPT ![r] = "post"]
        PROVE  Gains(cevSock[r]) /\ SameUsers(Socks \ {cevSock[r]})
    <2>1. r \notin Answering(cevSock[r])
          /\ Answering(cevSock[r])' = Answering(cevSock[r]) \cup {r}
      BY <1>1, <1>2 DEF Answering, EventTypes
    <2>2. \A t \in Socks \ {cevSock[r]} : Answering(t)' = Answering(t)
      BY <1>1, <1>2 DEF Answering, EventTypes
    <2> QED
      BY <1>1, <2>1, <2>2 DEF Gains, SameUsers, Users
  <1>3. ASSUME tpc[r] = "release", tpc' = [tpc EXCEPT ![r] = "end"]
        PROVE  Loses(cevSock[r]) /\ SameUsers(Socks \ {cevSock[r]})
    <2>1. r \in Answering(cevSock[r])
          /\ Answering(cevSock[r])' = Answering(cevSock[r]) \ {r}
      BY <1>1, <1>3 DEF Answering, EventTypes
    <2>2. \A t \in Socks \ {cevSock[r]} : Answering(t)' = Answering(t)
      BY <1>1, <1>3 DEF Answering, EventTypes
    <2> QED
      BY <1>1, <2>1, <2>2 DEF Loses, SameUsers, Users
  <1> QED
    BY <1>2, <1>3

LEMMA SenderUsers ==
    ASSUME Typed, NEW l \in Lanes, UNCHANGED <<cevSock, tpc, recvVars>>
    PROVE  /\ \A s \in Socks : sconn[l] = Nil /\ sconn' = [sconn EXCEPT ![l] = s]
                => Gains(s) /\ SameUsers(Socks \ {s})
           /\ \A s \in Socks : sconn[l] = s /\ sconn' = [sconn EXCEPT ![l] = Nil]
                => Loses(s) /\ SameUsers(Socks \ {s})
  <1>1. /\ Nil \notin Socks /\ sconn \in [Lanes -> Socks \cup {Nil}]
        /\ \A s : Answering(s)' = Answering(s) /\ Receivers(s)' = Receivers(s)
    BY NetAssumption DEF Typed, SendTypes, recvVars, Answering, Receivers
  <1>2. ASSUME NEW s \in Socks, sconn[l] = Nil, sconn' = [sconn EXCEPT ![l] = s]
        PROVE  Gains(s) /\ SameUsers(Socks \ {s})
    <2>1. l \notin Senders(s) /\ Senders(s)' = Senders(s) \cup {l}
      BY <1>1, <1>2 DEF Senders
    <2>2. \A t \in Socks \ {s} : Senders(t)' = Senders(t)
      BY <1>1, <1>2 DEF Senders
    <2> QED
      BY <1>1, <2>1, <2>2 DEF Gains, SameUsers, Users
  <1>3. ASSUME NEW s \in Socks, sconn[l] = s, sconn' = [sconn EXCEPT ![l] = Nil]
        PROVE  Loses(s) /\ SameUsers(Socks \ {s})
    <2>1. l \in Senders(s) /\ Senders(s)' = Senders(s) \ {l}
      BY <1>1, <1>3 DEF Senders
    <2>2. \A t \in Socks \ {s} : Senders(t)' = Senders(t)
      BY <1>1, <1>3 DEF Senders
    <2> QED
      BY <1>1, <2>1, <2>2 DEF Loses, SameUsers, Users
  <1> QED
    BY <1>2, <1>3

LEMMA ReceiverUsers ==
    ASSUME Typed, NEW l \in Lanes, UNCHANGED <<cevSock, tpc, sendVars>>
    PROVE  /\ \A s \in Socks :
                /\ rconn[l] = Nil /\ rconn' = [rconn EXCEPT ![l] = s]
                /\ rpc' = [rpc EXCEPT ![l] = "progress"]
                => Gains(s) /\ SameUsers(Socks \ {s})
           /\ \A s \in Socks :
                /\ rconn[l] = s /\ rpc[l] # "remove"
                /\ \/ rconn' = [rconn EXCEPT ![l] = Nil] /\ rpc' = [rpc EXCEPT ![l] = "idle"]
                   \/ rconn' = rconn /\ rpc' = [rpc EXCEPT ![l] = "remove"]
                => Loses(s) /\ SameUsers(Socks \ {s})
  <1>1. /\ Nil \notin Socks /\ rconn \in [Lanes -> Socks \cup {Nil}]
        /\ rpc \in [Lanes -> {"idle", "progress", "answer", "release", "broken", "remove"}]
        /\ \A s : Answering(s)' = Answering(s) /\ Senders(s)' = Senders(s)
    BY NetAssumption DEF Typed, RecvTypes, sendVars, Answering, Senders
  <1>2. ASSUME NEW s \in Socks, rconn[l] = Nil, rconn' = [rconn EXCEPT ![l] = s],
               rpc' = [rpc EXCEPT ![l] = "progress"]
        PROVE  Gains(s) /\ SameUsers(Socks \ {s})
    <2>1. l \notin Receivers(s) /\ Receivers(s)' = Receivers(s) \cup {l}
      BY <1>1, <1>2 DEF Receivers
    <2>2. \A t \in Socks \ {s} : Receivers(t)' = Receivers(t)
      BY <1>1, <1>2 DEF Receivers
    <2> QED
      BY <1>1, <2>1, <2>2 DEF Gains, SameUsers, Users
  <1>3. ASSUME NEW s \in Socks, rconn[l] = s, rpc[l] # "remove",
               \/ rconn' = [rconn EXCEPT ![l] = Nil] /\ rpc' = [rpc EXCEPT ![l] = "idle"]
               \/ rconn' = rconn /\ rpc' = [rpc EXCEPT ![l] = "remove"]
        PROVE  Loses(s) /\ SameUsers(Socks \ {s})
    <2>1. l \in Receivers(s) /\ Receivers(s)' = Receivers(s) \ {l}
      BY <1>1, <1>3 DEF Receivers
    <2>2. \A t \in Socks \ {s} : Receivers(t)' = Receivers(t)
      BY <1>1, <1>3 DEF Receivers
    <2> QED
      BY <1>1, <2>1, <2>2 DEF Loses, SameUsers, Users
  <1> QED
    BY <1>2, <1>3

(* A step that moves no event or thread in or out of a connection's use.   *)
LEMMA NotAnswering ==
    ASSUME Typed, PeerInv, WhereInv, NEW l \in Lanes, NEW r \in Requests,
           \/ \E part \in {"whole", "message"} : RecvMessage(l, r, part)
           \/ RecvAttachment(l, r)
    PROVE  /\ rconn[l] \in Socks /\ tpc[r] = "none"
           /\ \A s \in Socks : Answering(s)' = Answering(s)
  <1>0. rconn[l] \in Socks
    BY HeldSocks DEF RecvMessage, RecvAttachment, Reading
  <1>1. tpc[r] = "none"
    <2>1. ASSUME NEW part \in {"whole", "message"}, RecvMessage(l, r, part)
          PROVE  tpc[r] = "none"
      <3>1. Opening(r, rconn[l]) # {}
        BY <2>1 DEF RecvMessage, Opening
      <3>2. cevSock[r] = Nil
        BY <1>0, <3>1 DEF PeerInv, Asked
      <3> QED
        BY <3>2 DEF Typed, EventTypes
    <2>2. ASSUME RecvAttachment(l, r) PROVE tpc[r] = "none"
      BY <1>0, <2>2 DEF RecvAttachment, WhereInv, Where
    <2> QED
      BY <2>1, <2>2
  <1>2. /\ \A q \in Requests \ {r} : tpc'[q] = tpc[q] /\ cevSock'[q] = cevSock[q]
        /\ tpc'[r] \in {"none", "next"}
    BY <1>1 DEF RecvMessage, RecvAttachment, Typed, EventTypes
  <1>3. \A s \in Socks : Answering(s)' = Answering(s)
    BY <1>1, <1>2 DEF Answering
  <1> QED
    BY <1>0, <1>1, <1>3

LEMMA StepKinds ==
    ASSUME Typed, PeerInv, WhereInv, [Next]_vars
    PROVE  Kinds
  <1>0. /\ \A l \in Lanes : spc[l] = "idle" => sconn[l] = Nil
        /\ \A l \in Lanes : rpc[l] = "idle" => rconn[l] = Nil
        /\ ClientTypes /\ EventTypes /\ SendTypes /\ RecvTypes
    BY DEF Typed, SendTypes, RecvTypes
  <1>1. ASSUME NEW r \in Requests, FindConn(r) PROVE Kinds
    <2> DEFINE s == cevSock[r]
    <2>1. /\ s \in sockConnMap /\ Acquire(s) /\ cevSock' = [cevSock EXCEPT ![r] = s]
      BY <1>1 DEF FindConn, ConnOf
    <2>2. s \in Socks /\ cevSock' = cevSock
      BY <1>0, <2>1 DEF Typed, ConnTypes, EventTypes
    <2>3. Gains(s) /\ SameUsers(Socks \ {s})
      BY <1>1, <2>2, AnsweringUsers DEF FindConn
    <2>4. Finds(s)
      BY <1>1, <2>1, <2>3 DEF Finds, FindConn, connVars, linkVars
    <2> QED
      BY <2>2, <2>4 DEF Kinds
  <1>2. ASSUME NEW c \in Clients, NEW s \in Socks, Accept(c, s) PROVE Kinds
    <2>1. Opens(s)
      BY <1>2 DEF Opens, Accept, FreeSocks, eventVars, sendVars, recvVars, SameUsers,
                  Users, Answering, Senders, Receivers
    <2> QED
      BY <2>1 DEF Kinds
  <1>3. ASSUME NEW r \in Requests, ReleaseConn(r) PROVE Kinds
    <2>1. cevSock[r] \in Socks
      BY <1>3, HeldSocks DEF ReleaseConn
    <2>2. Loses(cevSock[r]) /\ SameUsers(Socks \ {cevSock[r]})
      BY <1>3, <2>1, AnsweringUsers DEF ReleaseConn
    <2>3. Releases(cevSock[r])
      BY <1>3, <2>2 DEF Releases, ReleaseConn
    <2> QED
      BY <2>1, <2>3 DEF Kinds
  <1>4. ASSUME NEW l \in Lanes, NEW s \in Socks, SendFind(l, s) PROVE Kinds
    <2>1. CASE s \in sockConnMap
      <3>1. Gains(s) /\ SameUsers(Socks \ {s})
        BY <1>0, <1>4, <2>1, SenderUsers DEF SendFind, eventVars
      <3>2. Finds(s)
        BY <1>4, <2>1, <3>1 DEF Finds, SendFind, connVars, linkVars
      <3> QED
        BY <3>2 DEF Kinds
    <2>2. CASE s \notin sockConnMap
      <3>1. UNCHANGED <<sockConnMap, link, mCleaning, mRefCount, cevSock, tpc, sconn,
                        rconn, rpc>>
        BY <1>4, <2>2 DEF SendFind, connVars, linkVars, eventVars, recvVars
      <3> QED
        BY <3>1 DEF Kinds, KeepsConns, SameUsers, Users, Answering, Senders, Receivers
    <2> QED
      BY <2>1, <2>2
  <1>5. ASSUME NEW l \in Lanes, NEW s \in Socks, RecvFind(l, s) PROVE Kinds
    <2>1. CASE s \in sockConnMap
      <3>1. Gains(s) /\ SameUsers(Socks \ {s})
        BY <1>0, <1>5, <2>1, ReceiverUsers DEF RecvFind, eventVars
      <3>2. Finds(s)
        BY <1>5, <2>1, <3>1 DEF Finds, RecvFind, connVars, linkVars
      <3> QED
        BY <3>2 DEF Kinds
    <2>2. CASE s \notin sockConnMap
      <3>1. UNCHANGED <<sockConnMap, link, mCleaning, mRefCount, cevSock, tpc, sconn,
                        rconn, rpc>>
        BY <1>5, <2>2 DEF RecvFind, connVars, linkVars, eventVars, sendVars
      <3> QED
        BY <3>1 DEF Kinds, KeepsConns, SameUsers, Users, Answering, Senders, Receivers
    <2> QED
      BY <2>1, <2>2
  <1>6. ASSUME NEW l \in Lanes, SendRelease(l) PROVE Kinds
    <2>1. sconn[l] \in Socks
      BY <1>6, HeldSocks DEF SendRelease
    <2>2. Loses(sconn[l]) /\ SameUsers(Socks \ {sconn[l]})
      BY <1>6, <2>1, SenderUsers DEF SendRelease
    <2>3. Releases(sconn[l])
      BY <1>6, <2>2 DEF Releases, SendRelease
    <2> QED
      BY <2>1, <2>3 DEF Kinds
  <1>7. ASSUME NEW l \in Lanes, RecvRelease(l) PROVE Kinds
    <2>1. rconn[l] \in Socks
      BY <1>7, HeldSocks DEF RecvRelease
    <2>2. Loses(rconn[l]) /\ SameUsers(Socks \ {rconn[l]})
      BY <1>7, <2>1, ReceiverUsers DEF RecvRelease
    <2>3. Releases(rconn[l])
      BY <1>7, <2>2 DEF Releases, RecvRelease
    <2> QED
      BY <2>1, <2>3 DEF Kinds
  <1>8. ASSUME NEW l \in Lanes, RecvRemove(l) PROVE Kinds
    <2>1. SameUsers(Socks)
      <3>1. \A s \in Socks : Receivers(s)' = Receivers(s)
        BY <1>0, <1>8, NetAssumption DEF RecvRemove, Receivers, RecvTypes
      <3> QED
        BY <1>8, <3>1 DEF RecvRemove, sendVars, SameUsers, Users, Answering, Senders
    <2>2. Removes({rconn[l]})
      BY <1>8, <2>1 DEF Removes, RecvRemove
    <2> QED
      BY <2>2 DEF Kinds
  <1>9. ASSUME \/ \E e \in recvEvents : RecvHup(e)
               \/ \E e \in sendEvents : SendHup(e)
               \/ \E S \in SUBSET Socks : MakeRoom(S)
        PROVE  Kinds
    <2>1. SameUsers(Socks)
      BY <1>9 DEF RecvHup, SendHup, MakeRoom, sendVars, recvVars, SameUsers, Users,
                  Answering, Senders, Receivers
    <2> QED
      BY <1>9, <2>1 DEF RecvHup, SendHup, MakeRoom, Removes, Kinds
  <1> DEFINE Quiet == UNCHANGED <<sockConnMap, mCleaning, mRefCount>>
             Links0 == \A s \in Socks : link'[s] = "closed" <=> link[s] = "closed"
  <1>10. ASSUME NEW l \in Lanes, RecvUnavail(l) \/ RecvBroken(l) \/ BadMessageAnswered(l)
         PROVE  Kinds
    <2>1. \A s \in Socks : Receivers(s)' = Receivers(s)
      BY <1>0, <1>10 DEF RecvUnavail, RecvBroken, BadMessageAnswered, Receivers,
                         RecvTypes, Reading
    <2>2. Quiet /\ UNCHANGED <<link, cevSock, tpc, sconn>>
      BY <1>10 DEF RecvUnavail, RecvBroken, BadMessageAnswered, connVars, linkVars,
                   eventVars, sendVars
    <2> QED
      BY <2>1, <2>2 DEF Kinds, KeepsConns, SameUsers, Users, Answering, Senders
  <1>11. ASSUME NEW l \in Lanes, NEW r \in Requests,
                \/ \E part \in {"whole", "message"} : RecvMessage(l, r, part)
                \/ RecvAttachment(l, r)
         PROVE  Kinds
    <2>1. \A s \in Socks : Answering(s)' = Answering(s)
      BY <1>11, NotAnswering
    <2>2. \A s \in Socks : Receivers(s)' = Receivers(s)
      BY <1>0, <1>11 DEF RecvMessage, RecvAttachment, recvVars, Reading, Receivers,
                         RecvTypes
    <2>3. Quiet /\ UNCHANGED <<link, sconn>>
      BY <1>11 DEF RecvMessage, RecvAttachment, sendVars
    <2> QED
      BY <2>1, <2>2, <2>3 DEF Kinds, KeepsConns, SameUsers, Users, Senders
  <1>12. ASSUME NEW r \in Requests, NoConn(r) \/ PostSend(r) \/ PrepareSend(r)
         PROVE  Kinds
    <2>1. \A s \in Socks : Answering(s)' = Answering(s)
      BY <1>0, <1>12 DEF NoConn, PostSend, PrepareSend, Answering, EventTypes
    <2>2. Quiet /\ UNCHANGED <<link, sconn, rconn, rpc>>
      BY <1>12 DEF NoConn, PostSend, PrepareSend, connVars, linkVars, sendVars, recvVars
    <2> QED
      BY <2>1, <2>2 DEF Kinds, KeepsConns, SameUsers, Users, Senders, Receivers
  <1>13. ASSUME NEW s \in Socks, NEW how \in {"fin", "reset"}, Leave(s, how) PROVE Kinds
    <2>1. Links0
      BY <1>0, <1>13 DEF Leave, ClientTypes
    <2>2. Quiet /\ UNCHANGED <<cevSock, tpc, sconn, rconn, rpc>>
      BY <1>13 DEF Leave, connVars, eventVars, sendVars, recvVars
    <2> QED
      BY <2>1, <2>2 DEF Kinds, KeepsConns, SameUsers, Users, Answering, Senders, Receivers
  <1>14. CASE UNCHANGED <<sockConnMap, mCleaning, mRefCount, link, cevSock, tpc, sconn,
                          recvVars>>
    BY <1>14 DEF Kinds, KeepsConns, SameUsers, Users, Answering, Senders, Receivers,
                 recvVars
  <1> QED
    BY <1>1, <1>2, <1>3, <1>4, <1>5, <1>6, <1>7, <1>8, <1>9, <1>10, <1>11, <1>12, <1>13,
       <1>14
       DEF Next, ClientStep, RecvPollStep, SendPollStep, RecvStep, SendStep, AnswerStep,
           vars, connVars, linkVars, eventVars, sendVars, Connect, Send, Drain,
           FetchRecv, PrepareRecv, StartAccept, AcceptError, NoRoom, EndAccept, FetchSend,
           PollSend, SendStop, SendDone, SendBroken, SendFull, ClearReady, RecvDropped, AtRest

LEMMA RefsNext ==
    ASSUME Typed, Typed', Refs, Kinds
    PROVE  Refs'
  <1>0. mRefCount \in [Socks -> Int]
    BY DEF Typed, ConnTypes
  <1>1. ASSUME NEW s \in Socks, Finds(s) PROVE Refs'
    BY <1>0, <1>1, HoldersCount DEF Refs, Finds, Acquire, SameUsers
  <1>2. ASSUME NEW s \in Socks, Releases(s) PROVE Refs'
    <2>1. mRefCount' = [mRefCount EXCEPT ![s] = @ - 1]
      BY <1>2 DEF Releases, Release
    <2> QED
      BY <1>0, <1>2, <2>1, HoldersCount DEF Refs, Releases, SameUsers
  <1>3. CASE UNCHANGED mRefCount /\ SameUsers(Socks)
    BY <1>3, HoldersCount DEF Refs, SameUsers
  <1> QED
    BY <1>1, <1>2, <1>3 DEF Kinds, KeepsConns, Opens, Removes

LEMMA ConnLivesNext ==
    ASSUME Typed, Typed', Refs, ConnLives, Kinds
    PROVE  ConnLives'
  <1>0. /\ ConnTypes /\ link \in [Socks -> Links]
        /\ \A s \in Socks : mRefCount[s] \in Nat
    BY HoldersCount DEF Typed, ClientTypes, Refs
  <1>1. CASE KeepsConns
    BY <1>1 DEF KeepsConns, ConnLives
  <1>2. ASSUME NEW s \in Socks, Finds(s) PROVE ConnLives'
    BY <1>0, <1>2 DEF Finds, Acquire, ConnLives, ConnTypes
  <1>3. ASSUME NEW s \in Socks, Opens(s) PROVE ConnLives'
    BY <1>0, <1>3 DEF Opens, ConnLives, ConnTypes
  <1>4. ASSUME NEW s \in Socks, Releases(s) PROVE ConnLives'
    <2> DEFINE F == IF mRefCount[s] = 1 /\ s \in mCleaning THEN {s} ELSE {}
    <2>1. /\ mRefCount' = [mRefCount EXCEPT ![s] = @ - 1]
          /\ mCleaning' = mCleaning \ F /\ sockConnMap' = sockConnMap
          /\ F \in SUBSET Socks /\ DeleteConns(F)
      BY <1>4 DEF Releases, Release
    <2>2. link' = [t \in Socks |-> IF t \in F THEN "closed" ELSE link[t]]
      BY <2>1, DeleteEffect
    <2>3. mRefCount[s] > 0
      BY <1>4, HoldersCount DEF Releases, Refs
    <2>4. \A t \in Socks \ {s} : mRefCount'[t] = mRefCount[t] /\ link'[t] = link[t]
                                   /\ (t \in mCleaning' <=> t \in mCleaning)
      BY <1>0, <2>1, <2>2 DEF ConnTypes
    <2>5. mRefCount'[s] = mRefCount[s] - 1 /\ mRefCount[s] \in Nat
      BY <1>0, <2>1 DEF ConnTypes
    <2>6. CASE mRefCount[s] = 1 /\ s \in mCleaning
      <3>1. link'[s] = "closed" /\ s \notin mCleaning' /\ s \notin sockConnMap
        BY <2>1, <2>2, <2>6 DEF ConnLives
      <3> QED
        BY <2>1, <2>4, <2>5, <2>6, <3>1 DEF ConnLives
    <2>7. CASE ~(mRefCount[s] = 1 /\ s \in mCleaning)
      <3>1. link'[s] = link[s] /\ (s \in mCleaning' <=> s \in mCleaning)
        BY <1>0, <2>1, <2>2, <2>7
      <3>2. s \in mCleaning => mRefCount'[s] > 0
        BY <2>3, <2>5, <2>7
      <3> QED
        BY <2>1, <2>3, <2>4, <2>5, <3>1, <3>2 DEF ConnLives
    <2> QED
      BY <2>6, <2>7
  <1>5. ASSUME NEW S, Removes(S) PROVE ConnLives'
    <2> DEFINE F == {s \in S \cap sockConnMap : Idle(s)}
    <2>1. /\ mRefCount' = mRefCount /\ sockConnMap' = sockConnMap \ S
          /\ mCleaning' = mCleaning \cup ((S \cap sockConnMap) \ F)
          /\ F \in SUBSET Socks /\ DeleteConns(F)
      BY <1>0, <1>5 DEF Removes, RemoveConns, Erased, ConnTypes
    <2>2. link' = [t \in Socks |-> IF t \in F THEN "closed" ELSE link[t]]
      BY <2>1, DeleteEffect
    <2>3. \A t \in Socks : link'[t] = (IF t \in S /\ t \in sockConnMap /\ mRefCount[t] = 0
                                       THEN "closed" ELSE link[t])
      BY <2>2 DEF Idle
    <2>4. \A t \in Socks : t \in mCleaning' <=>
            t \in mCleaning \/ (t \in S /\ t \in sockConnMap /\ mRefCount[t] # 0)
      BY <2>1 DEF Idle
    <2> HIDE DEF F
    <2> QED
      BY <1>0, <2>1, <2>3, <2>4 DEF ConnLives
  <1> QED
    BY <1>1, <1>2, <1>3, <1>4, <1>5 DEF Kinds

-----------------------------------------------------------------------------
(* Clients, their connections and their requests.                          *)
LEMMA FreesPeers ==
    ASSUME Typed, PeerInv, NEW F, Frees(F)
    PROVE  PeerInv'
  <1>0. /\ Peers /\ \A r \in Requests : Asked(r)
        /\ F \in SUBSET Socks /\ UNCHANGED <<asked, got, cevSock>>
        /\ peer \in [Socks -> Clients \cup {Nil}] /\ Nil \notin Clients
        /\ stage \in [Clients -> {"new", "backlog", "accepted", "gone"}]
        /\ Owner \in [Requests -> Clients]
        /\ cevSock \in [Requests -> Socks \cup {Nil}]
    BY NetAssumption DEF PeerInv, Typed, ClientTypes, EventTypes, Frees
  <1>1. /\ \A s \in F : link'[s] = "closed" /\ peer'[s] = Nil /\ inbox'[s] = {}
        /\ \A s \in Socks \ F : link'[s] = link[s] /\ peer'[s] = peer[s]
                                  /\ inbox'[s] = inbox[s]
        /\ \A c \in Clients : stage'[c] = IF \E s \in F : peer[s] = c THEN "gone"
                                          ELSE stage[c]
    BY <1>0, DeleteEffect DEF Frees
  <1>2. Peers'
    <2>1. ASSUME NEW s \in Socks, peer'[s] # Nil
          PROVE  s \notin F /\ peer'[s] = peer[s] /\ stage'[peer[s]] = "accepted"
      BY <1>0, <1>1, <2>1 DEF Peers
    <2>2. \A s \in Socks : /\ peer'[s] = Nil <=> link'[s] = "closed"
                           /\ peer'[s] = Nil => inbox'[s] = {}
      BY <1>0, <1>1 DEF Peers
    <2>3. \A s, t \in Socks : peer'[s] # Nil /\ peer'[s] = peer'[t] => s = t
      BY <1>0, <2>1 DEF Peers
    <2> QED
      BY <2>1, <2>2, <2>3 DEF Peers
  <1>3. ASSUME NEW r \in Requests PROVE Asked(r)'
    <2>1. \A s \in Socks : Opening(r, s)' \subseteq Opening(r, s)
      BY <1>1 DEF Opening
    <2>2. \A s \in Socks : Opening(r, s)' # {} => s \notin F
      BY <1>1 DEF Opening
    <2>3. stage[Owner[r]] = "gone" => stage'[Owner[r]] = "gone"
      BY <1>0, <1>1
    <2>4. cevSock[r] # Nil => peer'[cevSock[r]] = Owner[r] \/ stage'[Owner[r]] = "gone"
      BY <1>0, <1>1, <2>3 DEF Asked
    <2> QED
      BY <1>0, <1>1, <2>1, <2>2, <2>3, <2>4 DEF Asked
  <1> QED
    BY <1>2, <1>3 DEF PeerInv

(* A step that changes no connection's peer and creates no event.          *)
LEMMA SameAsked ==
    ASSUME PeerInv, NEW r \in Requests, UNCHANGED <<peer, cevSock>>,
           \A s \in Socks : Opening(r, s)' \subseteq Opening(r, s),
           asked'[r] = asked[r], got'[r] = got[r],
           stage[Owner[r]] = "gone" => stage'[Owner[r]] = "gone"
    PROVE  Asked(r)'
  <1>1. Asked(r)
    BY DEF PeerInv
  <1> QED
    BY <1>1 DEF Asked

LEMMA SamePeers ==
    ASSUME PeerInv, UNCHANGED <<stage, peer, link>>,
           \A s \in Socks : inbox'[s] \subseteq inbox[s]
    PROVE  Peers'
  BY DEF PeerInv, Peers

LEMMA SendPeers ==
    ASSUME Typed, PeerInv, NEW r \in Requests,
           NEW part \in {"whole", "message", "attachment"}, NEW s \in Socks, Send(r, part, s)
    PROVE  PeerInv'
  <1>0. /\ Peers /\ \A q \in Requests : Asked(q)
        /\ peer[s] = Owner[r] /\ link[s] = "up"
        /\ UNCHANGED <<stage, peer, link, got, cevSock>>
        /\ asked[r] = IF part = "attachment" THEN "message" ELSE "nothing"
        /\ asked' = [asked EXCEPT ![r] = IF part = "message" THEN "message" ELSE "all"]
        /\ inbox' = [inbox EXCEPT ![s] = @ \cup {<<r, part>>}]
        /\ ClientTypes
    BY DEF PeerInv, Send, eventVars, Typed
  <1>1. /\ inbox'[s] = inbox[s] \cup {<<r, part>>}
        /\ \A t \in Socks \ {s} : inbox'[t] = inbox[t]
        /\ \A q \in Requests \ {r} : asked'[q] = asked[q]
        /\ asked'[r] # "nothing"
    BY <1>0 DEF ClientTypes
  <1>2. peer[s] # Nil
    BY <1>0 DEF Peers
  <1>3. Peers'
    BY <1>0, <1>1, <1>2 DEF Peers
  <1>4. ASSUME NEW q \in Requests PROVE Asked(q)'
    <2>1. CASE q # r \/ part = "attachment"
      <3>1. \A t \in Socks : Opening(q, t)' = Opening(q, t)
        BY <1>1, <2>1 DEF Opening
      <3>2. asked'[q] = "nothing" <=> asked[q] = "nothing"
        BY <1>0, <1>1, <2>1
      <3> QED
        BY <1>0, <3>1, <3>2 DEF Asked
    <2>2. CASE q = r /\ part # "attachment"
      <3>1. asked[r] = "nothing"
        BY <1>0, <2>2
      <3>2. cevSock[r] = Nil /\ \A t \in Socks : Opening(r, t) = {}
        BY <1>0, <3>1 DEF Asked
      <3>3. \A t \in Socks : Opening(r, t)' = IF t = s THEN {part} ELSE {}
        BY <1>1, <2>2, <3>2 DEF Opening
      <3> QED
        BY <1>0, <1>1, <2>2, <3>2, <3>3 DEF Asked
    <2> QED
      BY <2>1, <2>2
  <1> QED
    BY <1>3, <1>4 DEF PeerInv

LEMMA AcceptPeers ==
    ASSUME Typed, PeerInv, NEW c \in Clients, NEW s \in Socks, Accept(c, s)
    PROVE  PeerInv'
  <1>0. /\ Peers /\ \A r \in Requests : Asked(r)
        /\ stage[c] = "backlog" /\ link[s] = "closed"
        /\ stage' = [stage EXCEPT ![c] = "accepted"]
        /\ peer' = [peer EXCEPT ![s] = c] /\ link' = [link EXCEPT ![s] = "up"]
        /\ UNCHANGED <<asked, got, inbox, cevSock>>
        /\ ClientTypes /\ EventTypes /\ Nil \notin Clients
        /\ Owner \in [Requests -> Clients]
    BY NetAssumption DEF PeerInv, Accept, Waiting, FreeSocks, eventVars, Typed
  <1>1. /\ peer[s] = Nil /\ inbox[s] = {} /\ \A t \in Socks : peer[t] # c
    BY <1>0 DEF Peers
  <1>2. /\ peer'[s] = c /\ \A t \in Socks \ {s} : peer'[t] = peer[t]
        /\ link'[s] = "up" /\ \A t \in Socks \ {s} : link'[t] = link[t]
        /\ stage'[c] = "accepted" /\ \A d \in Clients \ {c} : stage'[d] = stage[d]
    BY <1>0 DEF ClientTypes
  <1>3. Peers'
    <2>1. \A t \in Socks : /\ peer'[t] = Nil <=> link'[t] = "closed"
                           /\ peer'[t] # Nil => stage'[peer'[t]] = "accepted"
                           /\ peer'[t] = Nil => inbox'[t] = {}
      <3>1. \A t \in Socks \ {s} : peer[t] # Nil => peer[t] \in Clients \ {c}
        BY <1>0, <1>1 DEF ClientTypes
      <3> QED
        BY <1>0, <1>1, <1>2, <3>1 DEF Peers
    <2>2. \A t, u \in Socks : peer'[t] # Nil /\ peer'[t] = peer'[u] => t = u
      BY <1>0, <1>1, <1>2 DEF Peers
    <2> QED
      BY <2>1, <2>2 DEF Peers
  <1>4. ASSUME NEW r \in Requests PROVE Asked(r)'
    <2>1. Owner[r] \in Clients /\ cevSock[r] \in Socks \cup {Nil}
      BY <1>0 DEF EventTypes
    <2>2. \A t \in Socks : Opening(r, t)' = Opening(r, t)
      BY <1>0 DEF Opening
    <2>3. \A t \in Socks : Opening(r, t) # {} => t # s
      BY <1>1 DEF Opening
    <2>4. stage[Owner[r]] = "gone" => stage'[Owner[r]] = "gone"
      BY <1>0, <1>2, <2>1
    <2>5. cevSock[r] # Nil => peer'[cevSock[r]] = Owner[r] \/ stage'[Owner[r]] = "gone"
      BY <1>0, <1>1, <1>2, <2>1, <2>4 DEF Asked
    <2> QED
      BY <1>0, <1>2, <2>2, <2>3, <2>4, <2>5 DEF Asked
  <1> QED
    BY <1>3, <1>4 DEF PeerInv

LEMMA ReadPeers ==
    ASSUME Typed, PeerInv, NEW l \in Lanes, NEW r \in Requests,
           NEW part \in {"whole", "message"}, RecvMessage(l, r, part)
    PROVE  PeerInv'
  <1> DEFINE s == rconn[l]
  <1>0. /\ Peers /\ \A q \in Requests : Asked(q)
        /\ UNCHANGED <<stage, peer, link, asked, got>>
        /\ inbox' = [inbox EXCEPT ![s] = @ \ {<<r, part>>}]
        /\ cevSock' = [cevSock EXCEPT ![r] = s]
        /\ <<r, part>> \in inbox[s]
        /\ ClientTypes /\ EventTypes /\ Owner \in [Requests -> Clients]
        /\ Nil \notin Clients /\ Nil \notin Socks
    BY NetAssumption DEF PeerInv, RecvMessage, clientVars, Typed
  <1>1. s \in Socks
    BY HeldSocks DEF RecvMessage, Reading
  <1> HIDE DEF s
  <1>2. /\ inbox'[s] = inbox[s] \ {<<r, part>>} /\ cevSock'[r] = s
        /\ \A t \in Socks \ {s} : inbox'[t] = inbox[t]
        /\ \A q \in Requests \ {r} : cevSock'[q] = cevSock[q]
    BY <1>0, <1>1 DEF ClientTypes, EventTypes
  <1>3. Peers'
    BY <1>0, <1>2, SamePeers
  <1>4. ASSUME NEW q \in Requests \ {r} PROVE Asked(q)'
    <2>1. \A t \in Socks : Opening(q, t)' = Opening(q, t)
      BY <1>2 DEF Opening
    <2> QED
      BY <1>0, <1>2, <2>1 DEF Asked
  <1>5. Asked(r)'
    <2>1. part \in Opening(r, s)
      BY <1>0 DEF Opening
    <2>2. asked[r] # "nothing" /\ peer[s] = Owner[r] /\ cevSock[r] = Nil
      BY <1>0, <1>1, <2>1 DEF Asked
    <2>3. \A t \in Socks \ {s} : Opening(r, t) = {}
      BY <1>0, <1>1, <2>2 DEF Asked, Peers
    <2>4. Opening(r, s) = {part}
      BY <1>0, <1>1, <2>1 DEF Asked
    <2>5. \A t \in Socks : Opening(r, t)' = {}
      BY <1>2, <2>3, <2>4 DEF Opening
    <2> QED
      BY <1>0, <1>2, <2>2, <2>5 DEF Asked
  <1> QED
    BY <1>3, <1>4, <1>5 DEF PeerInv

LEMMA SendDonePeers ==
    ASSUME Typed, PeerInv, WhereInv, NEW l \in Lanes, SendDone(l)
    PROVE  PeerInv'
  <1> DEFINE s == sconn[l]
             r == Head(mSendQ[s])
  <1>0. /\ \A q \in Requests : Asked(q)
        /\ UNCHANGED <<stage, peer, link, inbox, asked, cevSock>>
        /\ got' = got \/ got' = [got EXCEPT ![r] = @ \cup {peer[s]}]
        /\ mSendQ[s] # <<>>
        /\ ClientTypes /\ DataTypes /\ Nil \notin Socks
    BY NetAssumption DEF PeerInv, SendDone, Sending, linkVars, Typed
  <1>1. s \in Socks
    BY HeldSocks DEF SendDone, Sending
  <1>2. r \in Requests /\ InSendQ(r, s)
    <2>1. mSendQ[s] \in Seq(Requests) /\ mSendQ[s] # <<>>
      BY <1>0, <1>1 DEF DataTypes
    <2> QED
      BY <2>1 DEF InSendQ
  <1>3. cevSock[r] = s
    BY <1>1, <1>2 DEF WhereInv, Where
  <1>4. Peers'
    BY <1>0, SamePeers
  <1> HIDE DEF r, s
  <1>5. ASSUME NEW q \in Requests PROVE Asked(q)'
    <2>1. \A t \in Socks : Opening(q, t)' = Opening(q, t)
      BY <1>0 DEF Opening
    <2>2. q # r => got'[q] = got[q]
      BY <1>0, <1>2 DEF ClientTypes
    <2>3. q = r => got'[q] \subseteq got[q] \cup {peer[s]}
      BY <1>0, <1>2 DEF ClientTypes
    <2>4. got'[q] \subseteq {Owner[q]} \/ stage[Owner[q]] = "gone"
      <3>1. /\ got[q] \subseteq {Owner[q]} \/ stage[Owner[q]] = "gone"
            /\ q = r => peer[s] = Owner[q] \/ stage[Owner[q]] = "gone"
        BY <1>0, <1>1, <1>3 DEF Asked
      <3> QED
        BY <2>2, <2>3, <3>1
    <2> QED
      BY <1>0, <2>1, <2>4 DEF Asked
  <1> QED
    BY <1>4, <1>5 DEF PeerInv

LEMMA PeerNext ==
    ASSUME Typed, ConnLives, PeerInv, WhereInv, [Next]_vars
    PROVE  PeerInv'
  <1>0. /\ ClientTypes /\ Owner \in [Requests -> Clients] /\ EventTypes
    BY NetAssumption DEF Typed
  <1>1. CASE FreeingStep
    BY <1>1, FreeingFrees, FreesPeers
  <1>2. ASSUME NEW c \in Clients, Connect(c) \/ AcceptError(c) PROVE PeerInv'
    <2>1. /\ stage[c] \in {"new", "backlog"} /\ \A d \in Clients \ {c} : stage'[d] = stage[d]
          /\ UNCHANGED <<peer, link, inbox, asked, got, cevSock>>
      BY <1>0, <1>2 DEF Connect, AcceptError, Waiting, linkVars, eventVars, ClientTypes
    <2>2. Peers'
      <3>1. \A s \in Socks : peer[s] # Nil => peer[s] \in Clients \ {c}
        BY <1>0, <2>1 DEF ClientTypes, PeerInv, Peers
      <3> QED
        BY <2>1, <3>1 DEF PeerInv, Peers
    <2>3. ASSUME NEW r \in Requests PROVE Asked(r)'
      <3>1. \A s \in Socks : Opening(r, s)' = Opening(r, s)
        BY <2>1 DEF Opening
      <3>2. stage[Owner[r]] = "gone" => stage'[Owner[r]] = "gone"
        BY <1>0, <2>1
      <3> QED
        BY <2>1, <3>1, <3>2, SameAsked
    <2> QED
      BY <2>2, <2>3 DEF PeerInv
  <1>3. ASSUME NEW s \in Socks, NEW how \in {"fin", "reset"}, Leave(s, how) PROVE PeerInv'
    <2>1. /\ UNCHANGED <<stage, peer, asked, got, cevSock>>
          /\ \A t \in Socks : link'[t] = "closed" <=> link[t] = "closed"
          /\ \A t \in Socks : inbox'[t] \subseteq inbox[t]
      BY <1>0, <1>3 DEF Leave, clientVars, eventVars, ClientTypes
    <2>2. Peers'
      BY <2>1 DEF PeerInv, Peers
    <2>3. \A r \in Requests, t \in Socks : Opening(r, t)' \subseteq Opening(r, t)
      BY <2>1 DEF Opening
    <2> QED
      BY <2>1, <2>2, <2>3, SameAsked DEF PeerInv
  <1>4. ASSUME NEW l \in Lanes, NEW r \in Requests,
               RecvAttachment(l, r) \/ RecvDropped(l, r)
        PROVE  PeerInv'
    <2>1. rconn[l] \in Socks
      BY <1>4, HeldSocks DEF RecvAttachment, RecvDropped, Reading
    <2>2. /\ UNCHANGED <<stage, peer, link, asked, got, cevSock>>
          /\ \A t \in Socks : inbox'[t] \subseteq inbox[t]
      BY <1>0, <1>4, <2>1 DEF RecvAttachment, RecvDropped, clientVars, eventVars,
                              ClientTypes
    <2>3. \A q \in Requests, t \in Socks : Opening(q, t)' \subseteq Opening(q, t)
      BY <2>2 DEF Opening
    <2> QED
      BY <2>2, <2>3, SamePeers, SameAsked DEF PeerInv
  <1>5. CASE UNCHANGED <<stage, peer, link, inbox, asked, got, cevSock>>
    <2>1. \A q \in Requests, t \in Socks : Opening(q, t)' \subseteq Opening(q, t)
      BY <1>5 DEF Opening
    <2> QED
      BY <1>5, <2>1, SamePeers, SameAsked DEF PeerInv
  <1>6. ASSUME NEW r \in Requests, FindConn(r) PROVE PeerInv'
    <2>1. cevSock' = cevSock
      BY <1>0, <1>6 DEF FindConn, ConnOf, EventTypes
    <2> QED
      BY <1>5, <1>6, <2>1 DEF FindConn, clientVars, linkVars
  <1> QED
    BY <1>1, <1>2, <1>3, <1>4, <1>5, <1>6, SendPeers, AcceptPeers, ReadPeers,
       SendDonePeers
       DEF Next, ClientStep, RecvPollStep, SendPollStep, RecvStep, SendStep, AnswerStep,
           FreeingStep, vars, clientVars, linkVars, eventVars, Drain, FetchRecv,
           PrepareRecv, StartAccept, NoRoom, EndAccept, FetchSend, PollSend, RecvFind,
           BadMessageAnswered, RecvUnavail, RecvBroken, NoConn, PostSend, PrepareSend,
           SendFind, SendStop, SendBroken, SendFull, ClearReady, AtRest

-----------------------------------------------------------------------------
(* Where the event of a request is.                                        *)
LEMMA TailSendQ ==
    ASSUME DataTypes, NEW s \in Socks, mSendQ[s] # <<>>,
           mSendQ' = [mSendQ EXCEPT ![s] = Tail(@)],
           \A r \in Requests, t \in Socks : Single(r, t)
    PROVE  /\ Head(mSendQ[s]) \in Requests /\ InSendQ(Head(mSendQ[s]), s)
           /\ \A r \in Requests, t \in Socks :
                /\ InSendQ(r, t)' <=> InSendQ(r, t) /\ ~(t = s /\ r = Head(mSendQ[s]))
                /\ Single(r, t)'
  <1> DEFINE q == mSendQ[s]
             n == Len(q)
  <1>1. q \in Seq(Requests) /\ q # <<>> /\ mSendQ'[s] = Tail(q)
    BY DEF DataTypes
  <1>2. \A t \in Socks \ {s} : mSendQ'[t] = mSendQ[t]
    BY DEF DataTypes
  <1>3. \A r \in Requests : \A i, j \in DOMAIN q : q[i] = r /\ q[j] = r => i = j
    BY DEF Single
  <1> HIDE DEF q
  <1>4. /\ n \in Nat /\ n > 0 /\ DOMAIN q = 1..n /\ DOMAIN Tail(q) = 1..n - 1
        /\ Head(q) = q[1] /\ q[1] \in Requests
        /\ \A i \in 1..n - 1 : Tail(q)[i] = q[i + 1]
    BY <1>1
  <1>5. \A r \in Requests :
          (\E i \in 1..n - 1 : q[i + 1] = r) <=> (\E i \in 1..n : q[i] = r) /\ r # q[1]
    <2> SUFFICES ASSUME NEW r \in Requests
                 PROVE  (\E i \in 1..n - 1 : q[i + 1] = r)
                          <=> (\E i \in 1..n : q[i] = r) /\ r # q[1]
      OBVIOUS
    <2>1. ASSUME NEW i \in 1..n - 1, q[i + 1] = r
          PROVE  (\E k \in 1..n : q[k] = r) /\ r # q[1]
      <3>1. i + 1 \in 1..n /\ 1 \in 1..n /\ i + 1 # 1
        BY <1>4
      <3> QED
        BY <1>3, <1>4, <2>1, <3>1
    <2>2. ASSUME NEW i \in 1..n, q[i] = r, r # q[1] PROVE \E k \in 1..n - 1 : q[k + 1] = r
      <3>1. i - 1 \in 1..n - 1 /\ (i - 1) + 1 = i
        BY <1>4, <2>2
      <3> QED
        BY <2>2, <3>1
    <2> QED
      BY <2>1, <2>2
  <1>6. ASSUME NEW r \in Requests
        PROVE  /\ InSendQ(r, s)' <=> InSendQ(r, s) /\ r # Head(mSendQ[s])
               /\ Single(r, s)'
    <2>1. InSendQ(r, s)' <=> \E i \in 1..n - 1 : q[i + 1] = r
      BY <1>1, <1>4 DEF InSendQ
    <2>2. InSendQ(r, s) <=> \E i \in 1..n : q[i] = r
      BY <1>4 DEF InSendQ, q
    <2>3. Head(mSendQ[s]) = q[1]
      BY <1>4 DEF q
    <2>4. \A i, j \in 1..n - 1 : q[i + 1] = r /\ q[j + 1] = r => i = j
      <3> SUFFICES ASSUME NEW i \in 1..n - 1, NEW j \in 1..n - 1, q[i + 1] = r, q[j + 1] = r
                   PROVE  i = j
        OBVIOUS
      <3>1. i + 1 \in 1..n /\ j + 1 \in 1..n
        BY <1>4
      <3>2. i + 1 = j + 1
        BY <1>3, <1>4, <3>1
      <3> QED
        BY <3>2
    <2>5. Single(r, s)'
      BY <1>1, <1>4, <2>4 DEF Single
    <2> QED
      BY <1>5, <2>1, <2>2, <2>3, <2>5
  <1>7. ASSUME NEW r \in Requests, NEW t \in Socks \ {s}
        PROVE  (InSendQ(r, t)' <=> InSendQ(r, t)) /\ Single(r, t)'
    BY <1>2 DEF InSendQ, Single
  <1>8. Head(mSendQ[s]) \in Requests /\ InSendQ(Head(mSendQ[s]), s)
    BY <1>4 DEF q, InSendQ
  <1> QED
    BY <1>6, <1>7, <1>8

LEMMA AppendSendQ ==
    ASSUME DataTypes, NEW s \in Socks, NEW d \in Requests, ~InSendQ(d, s),
           mSendQ' = [mSendQ EXCEPT ![s] = Append(@, d)],
           \A r \in Requests, t \in Socks : Single(r, t)
    PROVE  \A r \in Requests, t \in Socks :
             /\ InSendQ(r, t)' <=> InSendQ(r, t) \/ (t = s /\ r = d)
             /\ Single(r, t)'
  <1> DEFINE q == mSendQ[s]
             n == Len(q)
             a == Append(q, d)
  <1>1. q \in Seq(Requests) /\ mSendQ'[s] = a
    BY DEF DataTypes
  <1>2. \A t \in Socks \ {s} : mSendQ'[t] = mSendQ[t]
    BY DEF DataTypes
  <1>3. \A r \in Requests : \A i, j \in DOMAIN q : q[i] = r /\ q[j] = r => i = j
    BY DEF Single
  <1>4. \A i \in DOMAIN q : q[i] # d
    BY DEF InSendQ
  <1> HIDE DEF q
  <1>5. /\ n \in Nat /\ DOMAIN q = 1..n /\ DOMAIN a = 1..n + 1
        /\ \A i \in 1..n : a[i] = q[i]
        /\ a[n + 1] = d
    BY <1>1
  <1> HIDE DEF a
  <1>6. 1..n + 1 = 1..n \cup {n + 1} /\ n + 1 \notin 1..n
    BY <1>5
  <1>7. ASSUME NEW r \in Requests
        PROVE  (InSendQ(r, s)' <=> InSendQ(r, s) \/ r = d) /\ Single(r, s)'
    <2>1. InSendQ(r, s)' <=> \E i \in 1..n + 1 : a[i] = r
      BY <1>1, <1>5 DEF InSendQ
    <2>2. InSendQ(r, s) <=> \E i \in 1..n : q[i] = r
      BY <1>5 DEF InSendQ, q
    <2>3. \A i, j \in 1..n + 1 : a[i] = r /\ a[j] = r => i = j
      BY <1>3, <1>4, <1>5, <1>6
    <2>4. Single(r, s)'
      BY <1>1, <1>5, <2>3 DEF Single
    <2> QED
      BY <1>5, <1>6, <2>1, <2>2, <2>4
  <1>8. ASSUME NEW r \in Requests, NEW t \in Socks \ {s}
        PROVE  (InSendQ(r, t)' <=> InSendQ(r, t)) /\ Single(r, t)'
    BY <1>2 DEF InSendQ, Single
  <1> QED
    BY <1>7, <1>8

(* An event that a step does not touch.                                    *)
LEMMA SameWhere ==
    ASSUME WhereInv, EventTypes, NEW r \in Requests, tpc'[r] = tpc[r], dones'[r] = dones[r],
           cevSock'[r] = cevSock[r],
           \A s \in Socks : /\ recvCev'[s] = r <=> recvCev[s] = r
                            /\ InSendQ(r, s)' <=> InSendQ(r, s)
                            /\ Single(r, s)'
    PROVE  Where(r)'
  <1>1. Where(r) /\ cevSock[r] \in Socks \cup {Nil}
    BY DEF WhereInv, EventTypes
  <1>2. tpc[r] = "none" /\ cevSock[r] # Nil =>
          (recvCev'[cevSock[r]] = r <=> recvCev[cevSock[r]] = r)
    BY <1>1
  <1>3. tpc[r] # "none" => cevSock[r] \in Socks
    BY <1>1 DEF EventTypes
  <1>4. /\ \A s \in Socks : recvCev'[s] = r =>
             cevSock'[r] = s /\ tpc'[r] = "none" /\ dones'[r] = 0
        /\ \A s \in Socks : InSendQ(r, s)' =>
             cevSock'[r] = s /\ tpc'[r] \in {"notify", "release", "end"} /\ dones'[r] = 0
        /\ \A s \in Socks : Single(r, s)'
    BY <1>1 DEF Where
  <1>5. tpc'[r] = "none" =>
          \/ cevSock'[r] = Nil /\ dones'[r] = 0
          \/ cevSock'[r] # Nil /\ (dones'[r] = 1 \/ recvCev'[cevSock'[r]] = r)
    BY <1>1, <1>2 DEF Where
  <1>6. tpc'[r] \in {"next", "post"} => dones'[r] = 0
    BY <1>1 DEF Where
  <1>7. tpc'[r] \in {"notify", "release", "end"} =>
          dones'[r] = 1 \/ InSendQ(r, cevSock[r])'
    BY <1>1, <1>3 DEF Where
  <1> QED
    BY <1>4, <1>5, <1>6, <1>7 DEF Where, InSendQ

LEMMA FreesWhere ==
    ASSUME Typed, WhereInv, NEW F, Frees(F),
           tpc' = tpc \/ \E q \in Requests :
                           tpc[q] = "release" /\ tpc' = [tpc EXCEPT ![q] = "end"]
    PROVE  WhereInv'
  <1>0. /\ EventTypes /\ DataTypes /\ Nil \notin Requests /\ Nil \notin Socks
        /\ F \in SUBSET Socks /\ cevSock' = cevSock
    BY NetAssumption DEF Typed, Frees
  <1> SUFFICES ASSUME NEW r \in Requests PROVE Where(r)'
    BY DEF WhereInv
  <1>1. /\ Where(r) /\ dones[r] \in 0..2
    BY <1>0 DEF WhereInv, EventTypes
  <1>2. /\ \A s \in Socks : recvCev'[s] = r <=> recvCev[s] = r /\ s \notin F
        /\ dones'[r] = IF LostBy(r, F) /\ dones[r] < 2 THEN dones[r] + 1 ELSE dones[r]
    BY <1>0, DeleteEffect DEF Frees
  <1>3. \A s \in Socks : /\ InSendQ(r, s)' <=> InSendQ(r, s) /\ s \notin F
                         /\ Single(r, s)'
    <2>1. mSendQ' = [s \in Socks |-> IF s \in F THEN <<>> ELSE mSendQ[s]]
      BY <1>0, DeleteEffect DEF Frees
    <2>2. \A s \in F : mSendQ'[s] = <<>>
      BY <1>0, <2>1
    <2>3. \A s \in Socks \ F : mSendQ'[s] = mSendQ[s]
      BY <2>1
    <2>4. ASSUME NEW s \in F PROVE ~InSendQ(r, s)' /\ Single(r, s)'
      BY <2>2 DEF InSendQ, Single
    <2>5. ASSUME NEW s \in Socks \ F PROVE (InSendQ(r, s)' <=> InSendQ(r, s)) /\ Single(r, s)'
      BY <1>1, <2>3 DEF InSendQ, Single, Where
    <2> QED
      BY <2>4, <2>5
  <1>4. tpc'[r] = tpc[r] \/ (tpc[r] = "release" /\ tpc'[r] = "end")
    BY <1>0 DEF EventTypes
  <1>5. CASE LostBy(r, F)
    <2>1. PICK s \in F : InSendQ(r, s) \/ recvCev[s] = r
      BY <1>5 DEF LostBy
    <2>2. /\ s \in Socks /\ cevSock[r] = s /\ dones[r] = 0
          /\ tpc[r] \in {"none", "notify", "release", "end"}
      BY <1>0, <1>1, <2>1 DEF Where
    <2>3. \A t \in Socks : (InSendQ(r, t) \/ recvCev[t] = r) => t = s
      BY <1>1, <2>2 DEF Where
    <2>4. dones'[r] = 1
      BY <1>2, <1>5, <2>2
    <2>5. \A t \in Socks : ~InSendQ(r, t)' /\ recvCev'[t] # r
      BY <1>2, <1>3, <2>1, <2>3
    <2> QED
      BY <1>0, <1>3, <1>4, <2>2, <2>4, <2>5 DEF Where
  <1>6. CASE ~LostBy(r, F)
    <2>1. \A s \in F : ~InSendQ(r, s) /\ recvCev[s] # r
      BY <1>6 DEF LostBy
    <2>2. \A s \in Socks : /\ recvCev'[s] = r <=> recvCev[s] = r
                           /\ InSendQ(r, s)' <=> InSendQ(r, s)
                           /\ Single(r, s)'
      BY <1>2, <1>3, <2>1
    <2>3. dones'[r] = dones[r]
      BY <1>2, <1>6
    <2>4. CASE tpc'[r] = tpc[r]
      BY <1>0, <2>2, <2>3, <2>4, SameWhere
    <2>5. CASE tpc[r] = "release" /\ tpc'[r] = "end"
      <3>1. cevSock[r] \in Socks
        BY <1>0, <2>5 DEF EventTypes
      <3>2. dones'[r] = 1 \/ InSendQ(r, cevSock[r])'
        <4>1. dones[r] = 1 \/ InSendQ(r, cevSock[r])
          BY <1>1, <2>5 DEF Where
        <4>2. InSendQ(r, cevSock[r]) => InSendQ(r, cevSock[r])'
          BY <1>0, <2>2, <3>1
        <4> QED
          BY <2>3, <4>1, <4>2
      <3>3. /\ \A s \in Socks : recvCev'[s] # r
            /\ \A s \in Socks : InSendQ(r, s)' => cevSock[r] = s /\ dones'[r] = 0
        BY <1>1, <2>2, <2>3, <2>5 DEF Where
      <3> QED
        BY <1>0, <2>2, <2>5, <3>2, <3>3 DEF Where, InSendQ
    <2> QED
      BY <1>4, <2>4, <2>5
  <1> QED
    BY <1>5, <1>6

LEMMA CompletedOne ==
    ASSUME NEW r \in Requests, NEW q \in Requests, dones' = Completed({r})
    PROVE  /\ dones[r] = 0 => dones'[r] = 1
           /\ q # r => dones'[q] = dones[q]
  BY DEF Completed

LEMMA RecvMessageWhere ==
    ASSUME Typed, PeerInv, WhereInv, NEW l \in Lanes, NEW r \in Requests,
           NEW part \in {"whole", "message"}, RecvMessage(l, r, part)
    PROVE  WhereInv'
  <1> DEFINE s == rconn[l]
  <1>0. /\ EventTypes /\ DataTypes /\ Nil \notin Requests /\ Nil \notin Socks
    BY NetAssumption DEF Typed
  <1>1. s \in Socks /\ tpc[r] = "none"
    BY NotAnswering
  <1>2. cevSock[r] = Nil
    <2>1. Opening(r, s) # {}
      BY DEF RecvMessage, Opening
    <2> QED
      BY <1>1, <2>1 DEF PeerInv, Asked
  <1>3. /\ recvCev[s] = Nil /\ UNCHANGED <<mSendQ, dones>>
        /\ cevSock' = [cevSock EXCEPT ![r] = s]
        /\ \/ recvCev' = [recvCev EXCEPT ![s] = r] /\ tpc' = tpc
           \/ recvCev' = recvCev /\ tpc' = [tpc EXCEPT ![r] = "next"]
    BY DEF RecvMessage
  <1> HIDE DEF s
  <1>4. \A q \in Requests, t \in Socks : (InSendQ(q, t)' <=> InSendQ(q, t)) /\ Single(q, t)'
    BY <1>3 DEF InSendQ, Single, WhereInv, Where
  <1>5. ASSUME NEW q \in Requests \ {r} PROVE Where(q)'
    <2>1. tpc'[q] = tpc[q] /\ cevSock'[q] = cevSock[q]
      BY <1>0, <1>3 DEF EventTypes
    <2>2. \A t \in Socks : recvCev'[t] = q <=> recvCev[t] = q
      BY <1>0, <1>1, <1>3 DEF DataTypes
    <2> QED
      BY <1>0, <1>3, <1>4, <2>1, <2>2, SameWhere
  <1>6. Where(r)'
    <2>1. /\ dones[r] = 0
          /\ \A t \in Socks : recvCev[t] # r /\ ~InSendQ(r, t)
      BY <1>0, <1>1, <1>2 DEF WhereInv, Where
    <2>2. cevSock'[r] = s
      BY <1>0, <1>3 DEF EventTypes
    <2>3. CASE recvCev' = [recvCev EXCEPT ![s] = r] /\ tpc' = tpc
      <3>1. recvCev'[s] = r /\ \A t \in Socks \ {s} : recvCev'[t] # r
        BY <1>0, <1>1, <2>1, <2>3 DEF DataTypes
      <3> QED
        BY <1>0, <1>1, <1>3, <1>4, <2>1, <2>2, <2>3, <3>1 DEF Where
    <2>4. CASE recvCev' = recvCev /\ tpc' = [tpc EXCEPT ![r] = "next"]
      <3>1. tpc'[r] = "next"
        BY <1>0, <2>4 DEF EventTypes
      <3> QED
        BY <1>0, <1>1, <1>3, <1>4, <2>1, <2>2, <2>4, <3>1 DEF Where
    <2> QED
      BY <1>3, <2>3, <2>4
  <1> QED
    BY <1>5, <1>6 DEF WhereInv

LEMMA RecvAttachmentWhere ==
    ASSUME Typed, WhereInv, NEW l \in Lanes, NEW r \in Requests, RecvAttachment(l, r)
    PROVE  WhereInv'
  <1> DEFINE s == rconn[l]
  <1>0. /\ EventTypes /\ DataTypes /\ Nil \notin Requests /\ Nil \notin Socks
    BY NetAssumption DEF Typed
  <1>1. s \in Socks
    BY HeldSocks DEF RecvAttachment, Reading
  <1>2. /\ recvCev[s] = r /\ UNCHANGED <<mSendQ, dones, cevSock>>
        /\ recvCev' = [recvCev EXCEPT ![s] = Nil]
        /\ tpc' = [tpc EXCEPT ![r] = "next"]
    BY DEF RecvAttachment
  <1> HIDE DEF s
  <1>3. /\ recvCev'[s] = Nil /\ \A t \in Socks \ {s} : recvCev'[t] = recvCev[t]
        /\ tpc'[r] = "next" /\ \A q \in Requests \ {r} : tpc'[q] = tpc[q]
    BY <1>0, <1>1, <1>2 DEF DataTypes, EventTypes
  <1>4. \A q \in Requests, t \in Socks : (InSendQ(q, t)' <=> InSendQ(q, t)) /\ Single(q, t)'
    BY <1>2 DEF InSendQ, Single, WhereInv, Where
  <1>5. ASSUME NEW q \in Requests \ {r} PROVE Where(q)'
    BY <1>0, <1>2, <1>3, <1>4, SameWhere
  <1>6. Where(r)'
    <2>1. /\ dones[r] = 0 /\ cevSock[r] = s /\ tpc[r] = "none"
          /\ \A t \in Socks : ~InSendQ(r, t)
          /\ \A t \in Socks \ {s} : recvCev[t] # r
      BY <1>0, <1>1, <1>2 DEF WhereInv, Where
    <2> QED
      BY <1>0, <1>1, <1>2, <1>3, <1>4, <2>1 DEF Where
  <1> QED
    BY <1>5, <1>6 DEF WhereInv

LEMMA RecvBrokenWhere ==
    ASSUME Typed, WhereInv, NEW l \in Lanes, RecvBroken(l)
    PROVE  WhereInv'
  <1> DEFINE s == rconn[l]
  <1>0. /\ EventTypes /\ DataTypes /\ Nil \notin Requests /\ Nil \notin Socks
    BY NetAssumption DEF Typed
  <1>1. s \in Socks
    BY HeldSocks DEF RecvBroken
  <1>2. /\ UNCHANGED <<mSendQ, tpc, cevSock>>
        /\ recvCev' = [recvCev EXCEPT ![s] = Nil]
        /\ dones' = Completed({recvCev[s]} \ {Nil})
    BY DEF RecvBroken
  <1>3. recvCev[s] \in Requests \cup {Nil}
    BY <1>0, <1>1 DEF DataTypes
  <1> HIDE DEF s
  <1>4. recvCev'[s] = Nil /\ \A t \in Socks \ {s} : recvCev'[t] = recvCev[t]
    BY <1>0, <1>1, <1>2 DEF DataTypes
  <1>5. \A q \in Requests, t \in Socks : (InSendQ(q, t)' <=> InSendQ(q, t)) /\ Single(q, t)'
    BY <1>2 DEF InSendQ, Single, WhereInv, Where
  <1>6. \A q \in Requests : q # recvCev[s] => dones'[q] = dones[q]
    BY <1>2 DEF Completed
  <1>7. ASSUME NEW q \in Requests, q # recvCev[s] PROVE Where(q)'
    <2>1. \A t \in Socks : recvCev'[t] = q <=> recvCev[t] = q
      BY <1>0, <1>4, <1>7
    <2> QED
      BY <1>0, <1>2, <1>5, <1>6, <1>7, <2>1, SameWhere
  <1>8. ASSUME NEW r \in Requests, r = recvCev[s] PROVE Where(r)'
    <2>1. /\ dones[r] = 0 /\ cevSock[r] = s /\ tpc[r] = "none"
          /\ \A t \in Socks : ~InSendQ(r, t)
          /\ \A t \in Socks \ {s} : recvCev[t] # r
      BY <1>0, <1>1, <1>8 DEF WhereInv, Where
    <2>2. dones'[r] = 1
      BY <1>0, <1>2, <1>8, <2>1 DEF Completed
    <2> QED
      BY <1>0, <1>1, <1>2, <1>4, <1>5, <2>1, <2>2 DEF Where
  <1> QED
    BY <1>7, <1>8 DEF WhereInv

LEMMA AnswerWhere ==
    ASSUME Typed, WhereInv, NEW r \in Requests,
           FindConn(r) \/ NoConn(r) \/ PostSend(r) \/ PrepareSend(r)
    PROVE  WhereInv'
  <1>0. /\ EventTypes /\ DataTypes /\ Nil \notin Requests /\ Nil \notin Socks
    BY NetAssumption DEF Typed
  <1>1. recvCev' = recvCev /\ cevSock' = cevSock
    <2>1. FindConn(r) => cevSock' = cevSock
      BY <1>0 DEF FindConn, ConnOf, EventTypes
    <2> QED
      BY <2>1 DEF FindConn, NoConn, PostSend, PrepareSend, connVars
  <1>2. cevSock[r] \in Socks /\ tpc[r] # "none"
    BY HeldSocks DEF FindConn, NoConn, PostSend, PrepareSend
  <1>3. \A q \in Requests, t \in Socks : Single(q, t)
    BY DEF WhereInv, Where
  <1>4. Where(r)
    BY DEF WhereInv
  <1>5. \/ /\ tpc[r] = "next" /\ tpc' = [tpc EXCEPT ![r] = "post"]
           /\ UNCHANGED <<dones, mSendQ>>
        \/ /\ tpc[r] = "next" /\ tpc' = [tpc EXCEPT ![r] = "end"]
           /\ dones' = Completed({r}) /\ mSendQ' = mSendQ
        \/ /\ tpc[r] = "post" /\ tpc' = [tpc EXCEPT ![r] = "notify"]
           /\ dones' = dones /\ mSendQ' = [mSendQ EXCEPT ![cevSock[r]] = Append(@, r)]
        \/ /\ tpc[r] = "notify" /\ tpc' = [tpc EXCEPT ![r] = "release"]
           /\ UNCHANGED <<dones, mSendQ>>
    BY DEF FindConn, NoConn, PostSend, PrepareSend, connVars
  <1>6. \A q \in Requests \ {r} : tpc'[q] = tpc[q] /\ dones'[q] = dones[q]
    BY <1>0, <1>5 DEF EventTypes, Completed
  <1>7. CASE mSendQ' = mSendQ
    <2>1. \A q \in Requests, t \in Socks : (InSendQ(q, t)' <=> InSendQ(q, t)) /\ Single(q, t)'
      BY <1>3, <1>7 DEF InSendQ, Single
    <2>2. ASSUME NEW q \in Requests \ {r} PROVE Where(q)'
      BY <1>0, <1>1, <1>6, <2>1, SameWhere
    <2>3. \/ tpc[r] = "next" /\ tpc'[r] = "post" /\ dones'[r] = dones[r]
          \/ tpc[r] = "next" /\ tpc'[r] = "end" /\ dones' = Completed({r})
          \/ tpc[r] = "notify" /\ tpc'[r] = "release" /\ dones'[r] = dones[r]
          \/ tpc[r] = "post" /\ tpc'[r] = "notify" /\ InSendQ(r, cevSock[r])
               /\ dones'[r] = dones[r]
      <3>1. mSendQ' = [mSendQ EXCEPT ![cevSock[r]] = Append(@, r)] => InSendQ(r, cevSock[r])
        <4> SUFFICES ASSUME mSendQ' = [mSendQ EXCEPT ![cevSock[r]] = Append(@, r)]
                     PROVE  InSendQ(r, cevSock[r])
          OBVIOUS
        <4>1. mSendQ[cevSock[r]] = Append(mSendQ[cevSock[r]], r)
          BY <1>0, <1>2, <1>7 DEF DataTypes
        <4>2. mSendQ[cevSock[r]] \in Seq(Requests)
          BY <1>0, <1>2 DEF DataTypes
        <4>3. Len(mSendQ[cevSock[r]]) = Len(mSendQ[cevSock[r]]) + 1
          BY <4>1, <4>2
        <4> QED
          BY <4>2, <4>3
      <3> QED
        BY <1>0, <1>5, <3>1 DEF EventTypes
    <2>4. /\ \A t \in Socks : recvCev'[t] # r
          /\ \A t \in Socks : InSendQ(r, t)' => tpc[r] = "notify" /\ cevSock[r] = t
      BY <1>1, <1>2, <1>4, <2>1, <2>3 DEF Where
    <2>5. tpc[r] = "next" /\ tpc'[r] = "end" => dones'[r] = 1 \/ dones' # Completed({r})
      BY <1>4, CompletedOne DEF Where
    <2>6. Where(r)'
      <3>1. CASE tpc[r] = "next" /\ tpc'[r] = "post" /\ dones'[r] = dones[r]
        BY <1>1, <1>2, <1>4, <2>1, <2>4, <3>1 DEF Where
      <3>2. CASE tpc[r] = "next" /\ tpc'[r] = "end" /\ dones' = Completed({r})
        BY <1>1, <1>2, <1>4, <2>1, <2>4, <2>5, <3>2 DEF Where
      <3>3. CASE tpc[r] = "notify" /\ tpc'[r] = "release" /\ dones'[r] = dones[r]
        <4>1. dones'[r] = 1 \/ InSendQ(r, cevSock[r])'
          <5>1. dones[r] = 1 \/ InSendQ(r, cevSock[r])
            BY <1>4, <3>3 DEF Where
          <5>2. InSendQ(r, cevSock[r]) => InSendQ(r, cevSock[r])'
            BY <1>1, <1>2, <2>1
          <5> QED
            BY <3>3, <5>1, <5>2
        <4>2. \A t \in Socks : InSendQ(r, t)' => cevSock[r] = t /\ dones'[r] = 0
          BY <1>4, <2>1, <3>3 DEF Where
        <4> QED
          BY <1>0, <1>1, <1>2, <2>1, <2>4, <3>3, <4>1, <4>2 DEF Where, InSendQ
      <3>4. CASE tpc[r] = "post" /\ InSendQ(r, cevSock[r])
        BY <1>2, <1>4, <3>4 DEF Where
      <3> QED
        BY <2>3, <3>1, <3>2, <3>3, <3>4
    <2> QED
      BY <2>2, <2>6 DEF WhereInv
  <1>8. CASE /\ tpc[r] = "post" /\ tpc' = [tpc EXCEPT ![r] = "notify"]
             /\ dones' = dones /\ mSendQ' = [mSendQ EXCEPT ![cevSock[r]] = Append(@, r)]
    <2>1. /\ dones[r] = 0 /\ \A t \in Socks : ~InSendQ(r, t) /\ recvCev[t] # r
      BY <1>4, <1>8 DEF Where
    <2>2. PICK s \in Socks : s = cevSock[r]
      BY <1>2
    <2>3. \A q \in Requests, t \in Socks :
             /\ InSendQ(q, t)' <=> InSendQ(q, t) \/ (t = s /\ q = r)
             /\ Single(q, t)'
      BY <1>0, <1>3, <1>8, <2>1, <2>2, AppendSendQ
    <2>4. ASSUME NEW q \in Requests \ {r} PROVE Where(q)'
      BY <1>0, <1>1, <1>6, <2>3, SameWhere
    <2>5. tpc'[r] = "notify"
      BY <1>0, <1>8 DEF EventTypes
    <2>6. InSendQ(r, s)' /\ \A t \in Socks : InSendQ(r, t)' => t = s
      BY <2>1, <2>3
    <2>7. Where(r)'
      BY <1>0, <1>1, <1>8, <2>1, <2>2, <2>3, <2>5, <2>6 DEF Where, InSendQ
    <2> QED
      BY <2>4, <2>7 DEF WhereInv
  <1> QED
    BY <1>5, <1>7, <1>8

LEMMA SendWhere ==
    ASSUME Typed, WhereInv, NEW l \in Lanes, SendDone(l) \/ SendBroken(l)
    PROVE  WhereInv'
  <1>0. /\ EventTypes /\ DataTypes /\ Nil \notin Requests /\ Nil \notin Socks
    BY NetAssumption DEF Typed
  <1>1. PICK s \in Socks : s = sconn[l]
    BY HeldSocks DEF SendDone, SendBroken, Sending
  <1>2. /\ mSendQ[s] # <<>> /\ mSendQ' = [mSendQ EXCEPT ![s] = Tail(@)]
        /\ dones' = Completed({Head(mSendQ[s])})
        /\ UNCHANGED <<tpc, cevSock, recvCev>>
    BY <1>1 DEF SendDone, SendBroken, Sending, LeftAfterError
  <1>3. \A q \in Requests, t \in Socks : Single(q, t)
    BY DEF WhereInv, Where
  <1>4. PICK r \in Requests : r = Head(mSendQ[s])
    BY <1>0, <1>2, <1>3, TailSendQ
  <1>5. /\ InSendQ(r, s)
        /\ \A q \in Requests, t \in Socks :
             /\ InSendQ(q, t)' <=> InSendQ(q, t) /\ ~(t = s /\ q = r)
             /\ Single(q, t)'
    BY <1>0, <1>2, <1>3, <1>4, TailSendQ
  <1>6. /\ dones[r] = 0 => dones'[r] = 1
        /\ \A q \in Requests \ {r} : dones'[q] = dones[q]
    BY <1>2, <1>4, CompletedOne
  <1>7. ASSUME NEW q \in Requests \ {r} PROVE Where(q)'
    BY <1>0, <1>2, <1>5, <1>6, SameWhere
  <1>8. Where(r)'
    <2>1. /\ cevSock[r] = s /\ tpc[r] \in {"notify", "release", "end"} /\ dones[r] = 0
          /\ \A t \in Socks \ {s} : ~InSendQ(r, t)
          /\ \A t \in Socks : recvCev[t] # r
      BY <1>0, <1>5 DEF WhereInv, Where
    <2>2. \A t \in Socks : ~InSendQ(r, t)'
      BY <1>5, <2>1
    <2> QED
      BY <1>0, <1>2, <1>5, <1>6, <2>1, <2>2 DEF Where
  <1> QED
    BY <1>7, <1>8 DEF WhereInv

LEMMA WhereNext ==
    ASSUME Typed, ConnLives, PeerInv, WhereInv, [Next]_vars
    PROVE  WhereInv'
  <1>1. CASE FreeingStep
    <2>1. tpc' = tpc \/ \E q \in Requests :
                          tpc[q] = "release" /\ tpc' = [tpc EXCEPT ![q] = "end"]
      BY <1>1 DEF FreeingStep, RecvHup, SendHup, MakeRoom, RecvRelease, RecvRemove,
                  SendRelease, ReleaseConn
    <2> QED
      BY <1>1, <2>1, FreeingFrees, FreesWhere
  <1>2. CASE UNCHANGED <<mSendQ, recvCev, eventVars>>
    BY <1>2 DEF eventVars, WhereInv, Where, InSendQ, Single
  <1> QED
    BY <1>1, <1>2, RecvMessageWhere, RecvAttachmentWhere, RecvBrokenWhere, AnswerWhere,
       SendWhere
       DEF Next, ClientStep, RecvPollStep, SendPollStep, RecvStep, SendStep, AnswerStep,
           FreeingStep, vars, connVars, eventVars, Connect, Send, Drain, Leave, FetchRecv,
           PrepareRecv, StartAccept, Accept, AcceptError, NoRoom, EndAccept, FetchSend,
           PollSend, RecvFind, RecvDropped, BadMessageAnswered, RecvUnavail, SendFind, SendStop,
           SendFull, ClearReady, AtRest

-----------------------------------------------------------------------------
(* Nobody waits unnoticed.  The parts of the two invariants.               *)
RecvEdges == recvReady \cup {e.sock : e \in recvEvents}

AcceptComes ==
    (\E c \in Clients : stage[c] = "backlog") =>
        Listen \in RecvEdges \/ accepting \/ shortOfFds

RecvComes(s) ==
    \/ s \in RecvEdges \cup recvSockQ
    \/ \E l \in Lanes : rconn[l] = s /\ rpc[l] # "release"
RecvServed(s) == link[s] # "up" \/ Readable(s) => RecvComes(s)

SendComes(s) ==
    \/ EdgeToCome(s)
    \/ s \in sendSockQ
    \/ \E l \in Lanes : sconn[l] = s /\ spc[l] \in {"progress", "eagain"}
    \/ \E r \in Requests : tpc[r] = "notify" /\ cevSock[r] = s
    \/ link[s] # "up"
    \/ s \in overrun
SendServed(s) == mSendQ[s] # <<>> => SendComes(s)
MarkServed(s) == s \in mReadyToSend \/ EdgeToCome(s) \/ link[s] # "up" \/ s \in overrun

InParts ==
    /\ RecvWakeup <=> AcceptComes /\ (\A s \in sockConnMap : RecvServed(s))
    /\ SendWakeup <=> \A s \in sockConnMap : SendServed(s)
    /\ Marked <=> \A s \in sockConnMap : MarkServed(s)

LEMMA WakeupParts == InParts
  <1>1. RecvWakeup <=> AcceptComes /\ (\A s \in sockConnMap : RecvServed(s))
    <2>1. AcceptComes <=>
            ((\E c \in Clients : stage[c] = "backlog") =>
               \/ Listen \in recvReady \cup {e.sock : e \in recvEvents}
               \/ accepting \/ shortOfFds)
      BY Zenon DEF AcceptComes, RecvEdges
    <2>2. \A s : RecvComes(s) <=>
            \/ s \in recvReady \cup recvSockQ \cup {e.sock : e \in recvEvents}
            \/ \E l \in Lanes : rconn[l] = s /\ rpc[l] # "release"
      BY DEF RecvComes, RecvEdges
    <2> QED
      BY <2>1, <2>2, Zenon DEF RecvWakeup, RecvServed
  <1>2. SendWakeup <=> \A s \in sockConnMap : SendServed(s)
    BY Zenon DEF SendWakeup, SendServed, SendComes
  <1>3. Marked <=> \A s \in sockConnMap : MarkServed(s)
    BY Zenon DEF Marked, MarkServed
  <1> QED
    BY <1>1, <1>2, <1>3 DEF InParts

(* What a step that deletes connections leaves of the others.              *)
LEMMA FreesKept ==
    ASSUME Typed, NEW F, Frees(F), NEW s \in sockConnMap'
    PROVE  /\ s \in sockConnMap /\ s \in Socks
           /\ link'[s] = link[s] /\ inbox'[s] = inbox[s]
           /\ recvCev'[s] = recvCev[s] /\ mSendQ'[s] = mSendQ[s]
           /\ s \in recvReady' <=> s \in recvReady
           /\ s \in sendReady' <=> s \in sendReady
           /\ s \in full' <=> s \in full
           /\ s \in mReadyToSend' <=> s \in mReadyToSend
           /\ s \in overrun' <=> s \in overrun
  <1>1. s \in sockConnMap /\ s \in Socks /\ s \notin F
    BY DEF Frees, Typed, ConnTypes
  <1> QED
    BY <1>1, DeleteEffect DEF Frees

LEMMA FetchRecvKeeps ==
    ASSUME Typed, FetchRecv
    PROVE  RecvEdges \subseteq RecvEdges'
  <1>1. recvReady \subseteq Socks \cup {Listen}
    BY DEF Typed, PollTypes
  <1>2. recvEvents = {} /\ recvEvents' = Fetched(recvReady)
                             \cup [sock : recvReady \cap {Listen}, hup : {FALSE}]
    BY DEF FetchRecv
  <1>3. \A s \in recvReady \ {Listen} : \E e \in recvEvents' : e.sock = s
    <2>1. \A s \in recvReady \ {Listen} : \E e \in Fetched(recvReady) : e.sock = s
      BY <1>1, FetchedTypes
    <2> QED
      BY <1>2, <2>1
  <1>4. Listen \in recvReady => \E e \in recvEvents' : e.sock = Listen
    <2>1. Listen \in recvReady =>
            [sock |-> Listen, hup |-> FALSE] \in [sock : recvReady \cap {Listen}, hup : {FALSE}]
      OBVIOUS
    <2> QED
      BY <1>2, <2>1
  <1> QED
    BY <1>2, <1>3, <1>4 DEF RecvEdges

LEMMA FetchSendKeeps ==
    ASSUME Typed, FetchSend, NEW s \in Socks, EdgeToCome(s)
    PROVE  EdgeToCome(s)'
  <1>1. sendReady \subseteq Socks /\ Listen \notin Socks
    BY NetAssumption DEF Typed, PollTypes
  <1>2. sendEvents = {} /\ sendEvents' = Fetched(sendReady) /\ full' = full
    BY DEF FetchSend, linkVars
  <1>3. s \in sendReady => \E e \in sendEvents' : e.sock = s
    BY <1>1, <1>2, FetchedTypes
  <1> QED
    BY <1>2, <1>3 DEF EdgeToCome

LEMMA AcceptComesNext ==
    ASSUME Typed, ConnLives, AcceptComes, [Next]_vars
    PROVE  AcceptComes'
  <1>0. Listen \notin Socks /\ stage \in [Clients -> {"new", "backlog", "accepted", "gone"}]
    BY NetAssumption DEF Typed, ClientTypes
  <1>1. CASE FreeingStep
    <2>1. PICK F : Frees(F)
      BY <1>1, FreeingFrees
    <2>2. /\ \A c \in Clients : stage'[c] = "backlog" => stage[c] = "backlog"
          /\ Listen \in recvReady' <=> Listen \in recvReady
      BY <1>0, <2>1, DeleteEffect DEF Frees
    <2>3. \A e \in recvEvents : e.sock = Listen => e \in recvEvents'
      BY <1>0, <1>1, HeldSocks
         DEF FreeingStep, RecvHup, SendHup, MakeRoom, RecvRelease, RecvRemove,
             SendRelease, ReleaseConn, pollVars
    <2> QED
      BY <2>1, <2>2, <2>3 DEF Frees, AcceptComes, RecvEdges
  <1>2. ASSUME NEW c \in Clients, Connect(c) PROVE AcceptComes'
    BY <1>2 DEF Connect, AcceptComes, RecvEdges
  <1>3. CASE FetchRecv
    BY <1>3, FetchRecvKeeps DEF FetchRecv, AcceptComes, clientVars
  <1>4. ASSUME NEW e \in recvEvents, PrepareRecv(e) \/ StartAccept(e) PROVE AcceptComes'
    BY <1>4 DEF PrepareRecv, StartAccept, AcceptComes, RecvEdges, clientVars, edgeVars
  <1>5. ASSUME NEW c \in Clients, NEW s \in Socks, Accept(c, s) PROVE AcceptComes'
    BY <1>5 DEF Accept, AcceptComes, pollVars
  <1>6. ASSUME NEW c \in Clients, AcceptError(c) PROVE AcceptComes'
    BY <1>6 DEF AcceptError, NextAccept, AcceptComes
  <1>7. CASE NoRoom \/ EndAccept
    BY <1>7 DEF NoRoom, EndAccept, Waiting, AcceptComes, clientVars
  <1>8. CASE UNCHANGED <<stage, recvEvents, accepting, shortOfFds>>
             /\ recvReady \subseteq recvReady'
    BY <1>8 DEF AcceptComes, RecvEdges
  <1>9. CASE ClientStep
    BY <1>2, <1>8, <1>9 DEF ClientStep, Send, Drain, Leave, clientVars, pollVars
  <1>10. CASE RecvPollStep
    BY <1>1, <1>3, <1>4, <1>5, <1>6, <1>7, <1>10 DEF RecvPollStep, FreeingStep
  <1>11. CASE SendPollStep
    BY <1>1, <1>8, <1>11 DEF SendPollStep, FreeingStep, FetchSend, PollSend, clientVars,
                             edgeVars
  <1>12. ASSUME NEW l \in Lanes, RecvStep(l) PROVE AcceptComes'
    BY <1>1, <1>8, <1>12
       DEF RecvStep, FreeingStep, clientVars, edgeVars, pollVars, RecvFind, RecvMessage,
           RecvAttachment, BadMessageAnswered, RecvUnavail, RecvBroken, RecvDropped
  <1>13. ASSUME NEW l \in Lanes, SendStep(l) PROVE AcceptComes'
    BY <1>1, <1>8, <1>13
       DEF SendStep, FreeingStep, clientVars, edgeVars, pollVars, SendFind, SendStop,
           SendDone, SendBroken, SendFull, ClearReady
  <1>14. ASSUME NEW r \in Requests, AnswerStep(r) PROVE AcceptComes'
    BY <1>1, <1>8, <1>14
       DEF AnswerStep, FreeingStep, clientVars, edgeVars, pollVars, FindConn, NoConn,
           PostSend, PrepareSend
  <1>15. CASE AtRest \/ UNCHANGED vars
    BY <1>8, <1>15 DEF AtRest, vars, clientVars, edgeVars, pollVars
  <1> QED
    BY <1>9, <1>10, <1>11, <1>12, <1>13, <1>14, <1>15 DEF Next

(* A socket with something to read.                                        *)
LEMMA RecvKept ==
    ASSUME NEW s \in Socks, RecvServed(s),
           link'[s] = link[s], inbox'[s] = inbox[s], recvCev'[s] = recvCev[s],
           RecvComes(s) => RecvComes(s)'
    PROVE  RecvServed(s)'
  <1>1. Readable(s)' <=> Readable(s)
    BY DEF Readable
  <1> QED
    BY <1>1, Zenon DEF RecvServed

LEMMA FreesRecv ==
    ASSUME Typed, ConnLives, FreeingStep, NEW s \in sockConnMap', RecvServed(s)
    PROVE  RecvServed(s)'
  <1>1. PICK F : Frees(F)
    BY FreeingFrees
  <1>2. /\ s \in sockConnMap /\ s \in Socks
        /\ link'[s] = link[s] /\ inbox'[s] = inbox[s] /\ recvCev'[s] = recvCev[s]
        /\ s \in recvReady' <=> s \in recvReady
    BY <1>1, FreesKept
  <1>3. recvSockQ' = recvSockQ
    BY DEF FreeingStep, RecvHup, SendHup, MakeRoom, RecvRelease, RecvRemove, SendRelease,
           ReleaseConn, queueVars
  <1>4. \A e \in recvEvents : e.sock = s => e \in recvEvents'
    BY DEF FreeingStep, RecvHup, SendHup, MakeRoom, RecvRelease, RecvRemove, SendRelease,
           ReleaseConn, pollVars, RemoveConns, Erased
  <1>5. ASSUME NEW k \in Lanes, rconn[k] = s, rpc[k] # "release"
        PROVE  rconn'[k] = s /\ rpc'[k] # "release"
    <2>1. CASE UNCHANGED recvVars
      BY <1>5, <2>1 DEF recvVars
    <2>2. ASSUME NEW l \in Lanes, RecvRelease(l) PROVE rconn'[k] = s /\ rpc'[k] # "release"
      BY <1>5, <2>2 DEF RecvRelease, Typed, RecvTypes
    <2>3. ASSUME NEW l \in Lanes, RecvRemove(l) PROVE rconn'[k] = s /\ rpc'[k] # "release"
      <3>1. rconn[l] # s
        BY <2>3 DEF RecvRemove, RemoveConns, Erased
      <3> QED
        BY <1>5, <2>3, <3>1 DEF RecvRemove, Typed, RecvTypes
    <2> QED
      BY <2>1, <2>2, <2>3 DEF FreeingStep, RecvHup, SendHup, MakeRoom, SendRelease,
                              ReleaseConn
  <1>6. RecvComes(s) => RecvComes(s)'
    <2>1. s \in RecvEdges \cup recvSockQ => s \in RecvEdges' \cup recvSockQ'
      BY <1>2, <1>3, <1>4 DEF RecvEdges
    <2> QED
      BY <1>5, <2>1 DEF RecvComes
  <1> QED
    BY <1>2, <1>6, RecvKept

LEMMA PollRecv ==
    ASSUME Typed, ConnLives, Peers, NEW s \in sockConnMap',
           s \in sockConnMap => RecvServed(s),
           \/ FetchRecv \/ NoRoom \/ EndAccept
           \/ \E e \in recvEvents : PrepareRecv(e) \/ StartAccept(e)
           \/ \E c \in Clients : AcceptError(c) \/ (\E t \in Socks : Accept(c, t))
    PROVE  RecvServed(s)'
  <1>0. /\ ClientTypes /\ DataTypes /\ Listen \notin Socks
        /\ sockConnMap \subseteq Socks
    BY NetAssumption DEF Typed, ConnTypes
  <1>1. CASE FetchRecv
    <2>1. s \in sockConnMap /\ s \in Socks /\ RecvServed(s)
      BY <1>0, <1>1 DEF FetchRecv, connVars
    <2>2. RecvComes(s) => RecvComes(s)'
      BY <1>1, FetchRecvKeeps DEF FetchRecv, RecvComes, queueVars, recvVars
    <2> QED
      BY <1>1, <2>1, <2>2, RecvKept DEF FetchRecv, linkVars, connVars
  <1>2. ASSUME NEW e \in recvEvents, PrepareRecv(e) PROVE RecvServed(s)'
    <2>1. s \in sockConnMap /\ s \in Socks /\ RecvServed(s)
      BY <1>0, <1>2 DEF PrepareRecv, connVars
    <2>2. RecvComes(s) => RecvComes(s)'
      BY <1>2 DEF PrepareRecv, RecvComes, RecvEdges, recvVars, edgeVars
    <2> QED
      BY <1>2, <2>1, <2>2, RecvKept DEF PrepareRecv, linkVars, connVars
  <1>3. ASSUME NEW e \in recvEvents, StartAccept(e) PROVE RecvServed(s)'
    <2>1. s \in sockConnMap /\ s \in Socks /\ RecvServed(s)
      BY <1>0, <1>3 DEF StartAccept, connVars
    <2>2. RecvComes(s) => RecvComes(s)'
      BY <1>0, <1>3, <2>1 DEF StartAccept, RecvComes, RecvEdges, recvVars, edgeVars, queueVars
    <2> QED
      BY <1>3, <2>1, <2>2, RecvKept DEF StartAccept, linkVars, connVars
  <1>4. ASSUME NEW c \in Clients, NEW t \in Socks, Accept(c, t) PROVE RecvServed(s)'
    <2>1. s \in Socks
      BY <1>0, <1>4 DEF Accept
    <2>2. CASE s = t
      <3>1. link[t] = "closed" /\ inbox'[s] = inbox[s] /\ link'[s] = "up"
        BY <1>0, <1>4, <2>2 DEF Accept, FreeSocks, ClientTypes
      <3>2. inbox'[s] = {}
        BY <2>1, <2>2, <3>1 DEF Peers
      <3> QED
        BY <3>1, <3>2 DEF RecvServed, Readable
    <2>3. CASE s # t
      <3>1. s \in sockConnMap /\ RecvServed(s)
        BY <1>4, <2>3 DEF Accept
      <3>2. RecvComes(s) => RecvComes(s)'
        BY <1>4 DEF Accept, RecvComes, RecvEdges, pollVars, queueVars, recvVars
      <3>3. link'[s] = link[s] /\ inbox'[s] = inbox[s] /\ recvCev'[s] = recvCev[s]
        BY <1>0, <1>4, <2>1, <2>3 DEF Accept, ClientTypes
      <3> QED
        BY <2>1, <3>1, <3>2, <3>3, RecvKept
    <2> QED
      BY <2>2, <2>3
  <1>5. CASE NoRoom \/ EndAccept \/ \E c \in Clients : AcceptError(c)
    <2>1. s \in sockConnMap /\ s \in Socks /\ RecvServed(s)
      BY <1>0, <1>5 DEF NoRoom, EndAccept, AcceptError, connVars
    <2>2. RecvComes(s) => RecvComes(s)'
      BY <1>5 DEF NoRoom, EndAccept, AcceptError, RecvComes, RecvEdges, edgeVars, queueVars,
                  recvVars
    <2> QED
      BY <1>5, <2>1, <2>2, RecvKept DEF NoRoom, EndAccept, AcceptError, linkVars, connVars
  <1> QED
    BY <1>1, <1>2, <1>3, <1>4, <1>5

LEMMA RecvStepServed ==
    ASSUME Typed, NEW s \in sockConnMap, RecvServed(s), NEW l \in Lanes,
           \/ \E t \in Socks : RecvFind(l, t)
           \/ \E r \in Requests, part \in {"whole", "message"} : RecvMessage(l, r, part)
           \/ \E r \in Requests : RecvAttachment(l, r) \/ RecvDropped(l, r)
           \/ BadMessageAnswered(l) \/ RecvUnavail(l) \/ RecvBroken(l)
    PROVE  RecvServed(s)'
  <1>0. /\ ClientTypes /\ DataTypes /\ RecvTypes /\ s \in Socks
    BY DEF Typed, ConnTypes
  <1>1. ASSUME NEW t \in Socks, RecvFind(l, t) PROVE RecvServed(s)'
    <2>1. s = t => rconn'[l] = s /\ rpc'[l] # "release"
      BY <1>0, <1>1 DEF RecvFind, RecvTypes
    <2>2. ASSUME NEW k \in Lanes, rconn[k] = s, rpc[k] # "release"
          PROVE  rconn'[k] = s /\ rpc'[k] # "release"
      <3>1. k # l
        BY <1>0, <1>1, <2>2, NetAssumption DEF RecvFind, RecvTypes
      <3> QED
        BY <1>0, <1>1, <2>2, <3>1 DEF RecvFind, RecvTypes
    <2>3. s \in RecvEdges \cup recvSockQ => s = t \/ s \in RecvEdges' \cup recvSockQ'
      BY <1>1 DEF RecvFind, RecvEdges, edgeVars, pollVars
    <2>4. RecvComes(s) => RecvComes(s)'
      BY <2>1, <2>2, <2>3 DEF RecvComes
    <2> QED
      BY <1>0, <1>1, <2>4, RecvKept DEF RecvFind, linkVars, connVars
  <1>2. CASE rconn[l] = s /\ (\/ \E r \in Requests, part \in {"whole", "message"} :
                                   RecvMessage(l, r, part)
                              \/ \E r \in Requests : RecvAttachment(l, r) \/ RecvDropped(l, r)
                              \/ BadMessageAnswered(l) \/ RecvBroken(l))
    <2>1. rconn' = rconn /\ (rpc' = rpc \/ \E p : rpc' = [rpc EXCEPT ![l] = p] /\ p # "release")
      BY <1>2 DEF RecvMessage, RecvAttachment, RecvDropped, BadMessageAnswered,
                  RecvBroken, recvVars
    <2>2. rpc[l] # "release"
      BY <1>2 DEF RecvMessage, RecvAttachment, RecvDropped, BadMessageAnswered,
                  RecvBroken, Reading
    <2>3. rconn'[l] = s /\ rpc'[l] # "release"
      BY <1>0, <1>2, <2>1, <2>2 DEF RecvTypes
    <2> QED
      BY <2>3 DEF RecvServed, RecvComes
  <1>3. CASE rconn[l] = s /\ RecvUnavail(l)
    BY <1>3 DEF RecvUnavail, RecvServed, Readable, linkVars, connVars
  <1>4. CASE rconn[l] # s /\ (\/ \E r \in Requests, part \in {"whole", "message"} :
                                   RecvMessage(l, r, part)
                              \/ \E r \in Requests : RecvAttachment(l, r) \/ RecvDropped(l, r)
                              \/ BadMessageAnswered(l) \/ RecvUnavail(l) \/ RecvBroken(l))
    <2>1. UNCHANGED <<rconn, link, recvReady, recvEvents, recvSockQ>>
      BY <1>4 DEF RecvMessage, RecvAttachment, RecvDropped, BadMessageAnswered, RecvUnavail,
                  RecvBroken,
                  recvVars, linkVars, edgeVars, pollVars, queueVars
    <2>2. inbox'[s] = inbox[s] /\ recvCev'[s] = recvCev[s]
      BY <1>0, <1>4
         DEF RecvMessage, RecvAttachment, RecvDropped, BadMessageAnswered, RecvUnavail, RecvBroken,
             ClientTypes, DataTypes, linkVars, connVars
    <2>3. \A k \in Lanes \ {l} : rpc'[k] = rpc[k]
      BY <1>0, <1>4
         DEF RecvMessage, RecvAttachment, RecvDropped, BadMessageAnswered, RecvUnavail, RecvBroken,
             recvVars, RecvTypes
    <2>4. RecvComes(s) => RecvComes(s)'
      BY <1>4, <2>1, <2>3 DEF RecvComes, RecvEdges
    <2> QED
      BY <1>0, <2>1, <2>2, <2>4, RecvKept
  <1> QED
    BY <1>1, <1>2, <1>3, <1>4

LEMMA ClientRecv ==
    ASSUME Typed, NEW s \in sockConnMap, RecvServed(s), ClientStep
    PROVE  RecvServed(s)'
  <1>0. ClientTypes /\ s \in Socks
    BY DEF Typed, ConnTypes
  <1>1. \A k \in Lanes : rconn'[k] = rconn[k] /\ rpc'[k] = rpc[k]
    BY DEF ClientStep, Connect, Send, Drain, Leave, recvVars
  <1>2. RecvEdges \cup recvSockQ \subseteq RecvEdges' \cup recvSockQ'
    BY DEF ClientStep, Connect, Send, Drain, Leave, RecvEdges, pollVars, queueVars
  <1>3. RecvComes(s) => RecvComes(s)'
    BY <1>1, <1>2 DEF RecvComes
  <1>4. recvCev'[s] = recvCev[s]
    BY DEF ClientStep, Connect, Send, Drain, Leave, connVars
  <1>5. s \in recvReady' \/ (link'[s] = link[s] /\ inbox'[s] = inbox[s])
    BY <1>0 DEF ClientStep, Connect, Send, Drain, Leave, linkVars, ClientTypes
  <1>6. CASE s \in recvReady'
    BY <1>6 DEF RecvServed, RecvComes, RecvEdges
  <1> QED
    BY <1>0, <1>3, <1>4, <1>5, <1>6, RecvKept

LEMMA RecvServedNext ==
    ASSUME Typed, ConnLives, Peers, [Next]_vars, \A s \in sockConnMap : RecvServed(s)
    PROVE  \A s \in sockConnMap' : RecvServed(s)'
  <1> SUFFICES ASSUME NEW s \in sockConnMap' PROVE RecvServed(s)'
    OBVIOUS
  <1>1. CASE FreeingStep
    <2>1. s \in sockConnMap
      BY <1>1, FreeingFrees, FreesKept
    <2> QED
      BY <1>1, <2>1, FreesRecv
  <1>2. CASE ClientStep
    <2>1. s \in sockConnMap
      BY <1>2 DEF ClientStep, Connect, Send, Drain, Leave, connVars
    <2> QED
      BY <1>2, <2>1, ClientRecv
  <1>3. CASE RecvPollStep
    BY <1>1, <1>3, PollRecv DEF RecvPollStep, FreeingStep
  <1>4. ASSUME NEW l \in Lanes, RecvStep(l) PROVE RecvServed(s)'
    <2>1. CASE RecvRelease(l) \/ RecvRemove(l)
      BY <1>1, <2>1 DEF FreeingStep
    <2>2. CASE ~(RecvRelease(l) \/ RecvRemove(l))
      <3>1. s \in sockConnMap
        BY <1>4, <2>2 DEF RecvStep, RecvFind, RecvMessage, RecvAttachment,
                          RecvDropped, BadMessageAnswered, RecvUnavail, RecvBroken,
                          connVars
      <3> QED
        BY <1>4, <2>2, <3>1, RecvStepServed DEF RecvStep
    <2> QED
      BY <2>1, <2>2
  <1>5. CASE UNCHANGED <<linkVars, recvReady, recvEvents, sockConnMap, recvCev, recvSockQ,
                         recvVars>>
    <2>1. s \in sockConnMap /\ s \in Socks
      BY <1>5 DEF Typed, ConnTypes
    <2>2. RecvComes(s) => RecvComes(s)'
      BY <1>5 DEF RecvComes, RecvEdges, recvVars
    <2> QED
      BY <1>5, <2>1, <2>2, RecvKept DEF linkVars
  <1>6. CASE UNCHANGED <<link, inbox, recvReady, recvEvents, sockConnMap, recvCev, recvSockQ,
                         recvVars>>
    <2>1. s \in sockConnMap /\ s \in Socks
      BY <1>6 DEF Typed, ConnTypes
    <2>2. RecvComes(s) => RecvComes(s)'
      BY <1>6 DEF RecvComes, RecvEdges, recvVars
    <2> QED
      BY <1>6, <2>1, <2>2, RecvKept
  <1>7. CASE SendPollStep
    BY <1>1, <1>5, <1>7 DEF SendPollStep, FreeingStep, FetchSend, PollSend, edgeVars,
                            pollVars, connVars, queueVars
  <1>8. ASSUME NEW l \in Lanes, SendStep(l) PROVE RecvServed(s)'
    BY <1>1, <1>6, <1>8
       DEF SendStep, FreeingStep, linkVars, edgeVars, pollVars, connVars, queueVars,
           SendFind, SendStop, SendDone, SendBroken, SendFull, ClearReady
  <1>9. ASSUME NEW r \in Requests, AnswerStep(r) PROVE RecvServed(s)'
    BY <1>1, <1>5, <1>9
       DEF AnswerStep, FreeingStep, edgeVars, pollVars, connVars, queueVars, FindConn,
           NoConn, PostSend, PrepareSend
  <1>10. CASE AtRest \/ UNCHANGED vars
    BY <1>5, <1>10 DEF AtRest, vars, edgeVars, pollVars, connVars, queueVars
  <1> QED
    BY <1>2, <1>3, <1>4, <1>7, <1>8, <1>9, <1>10 DEF Next

(* An answer that waits, and a socket without the mark.                    *)
LEMMA SendKept ==
    ASSUME NEW s \in Socks, SendServed(s), MarkServed(s),
           link'[s] = link[s] \/ link'[s] # "up",
           mSendQ[s] = <<>> => mSendQ'[s] = <<>>,
           s \in mReadyToSend => s \in mReadyToSend', s \in overrun => s \in overrun',
           EdgeToCome(s) => EdgeToCome(s)',
           s \in sendSockQ => s \in sendSockQ',
           \A l \in Lanes : sconn[l] = s /\ spc[l] \in {"progress", "eagain"} =>
                              sconn'[l] = s /\ spc'[l] \in {"progress", "eagain"},
           \A r \in Requests : tpc[r] = "notify" /\ cevSock[r] = s =>
                                 tpc'[r] = "notify" /\ cevSock'[r] = s
    PROVE  SendServed(s)' /\ MarkServed(s)'
  <1>1. SendComes(s) => SendComes(s)'
    BY DEF SendComes
  <1>2. SendServed(s)'
    BY <1>1 DEF SendServed
  <1>3. MarkServed(s)'
    BY DEF MarkServed
  <1> QED
    BY <1>2, <1>3

LEMMA FreesSend ==
    ASSUME Typed, ConnLives, FreeingStep, NEW s \in sockConnMap', SendServed(s), MarkServed(s)
    PROVE  SendServed(s)' /\ MarkServed(s)'
  <1>1. PICK F : Frees(F)
    BY FreeingFrees
  <1>2. /\ s \in sockConnMap /\ s \in Socks
        /\ link'[s] = link[s] /\ mSendQ'[s] = mSendQ[s]
        /\ s \in sendReady' <=> s \in sendReady
        /\ s \in full' <=> s \in full
        /\ s \in mReadyToSend' <=> s \in mReadyToSend
        /\ s \in overrun' <=> s \in overrun
    BY <1>1, FreesKept
  <1>3. sendSockQ' = sendSockQ /\ cevSock' = cevSock
    BY DEF FreeingStep, RecvHup, SendHup, MakeRoom, RecvRelease, RecvRemove, SendRelease,
           ReleaseConn, queueVars
  <1>4. \A e \in sendEvents : e.sock = s => e \in sendEvents'
    BY DEF FreeingStep, RecvHup, SendHup, MakeRoom, RecvRelease, RecvRemove, SendRelease,
           ReleaseConn, pollVars, RemoveConns, Erased
  <1>5. EdgeToCome(s) => EdgeToCome(s)'
    BY <1>2, <1>4 DEF EdgeToCome
  <1>6. \A l \in Lanes : spc[l] \in {"progress", "eagain"} => sconn'[l] = sconn[l] /\ spc'[l] = spc[l]
    <2>1. CASE UNCHANGED sendVars
      BY <2>1 DEF sendVars
    <2>2. ASSUME NEW l \in Lanes, SendRelease(l)
          PROVE  \A k \in Lanes : spc[k] \in {"progress", "eagain"} =>
                                    sconn'[k] = sconn[k] /\ spc'[k] = spc[k]
      BY <2>2 DEF SendRelease, Typed, SendTypes
    <2> QED
      BY <2>1, <2>2 DEF FreeingStep, RecvHup, SendHup, MakeRoom, RecvRelease, RecvRemove,
                        ReleaseConn
  <1>7. \A r \in Requests : tpc[r] = "notify" => tpc'[r] = "notify"
    <2>1. CASE UNCHANGED tpc
      BY <2>1
    <2>2. ASSUME NEW r \in Requests, ReleaseConn(r)
          PROVE  \A q \in Requests : tpc[q] = "notify" => tpc'[q] = "notify"
      BY <2>2 DEF ReleaseConn, Typed, EventTypes
    <2> QED
      BY <2>1, <2>2 DEF FreeingStep, RecvHup, SendHup, MakeRoom, RecvRelease, RecvRemove,
                        SendRelease
  <1> QED
    BY <1>2, <1>3, <1>5, <1>6, <1>7, SendKept

LEMMA ClientSend ==
    ASSUME Typed, NEW s \in sockConnMap, SendServed(s), MarkServed(s), ClientStep
    PROVE  SendServed(s)' /\ MarkServed(s)'
  <1>0. ClientTypes /\ s \in Socks
    BY DEF Typed, ConnTypes
  <1>1. UNCHANGED <<mSendQ, mReadyToSend, overrun, sendSockQ, sconn, spc, tpc, cevSock>>
    BY DEF ClientStep, Connect, Send, Drain, Leave, connVars, queueVars, sendVars, eventVars
  <1>2. link'[s] = link[s] \/ link'[s] # "up"
    BY <1>0 DEF ClientStep, Connect, Send, Drain, Leave, linkVars, ClientTypes
  <1>3. EdgeToCome(s) => EdgeToCome(s)' \/ link'[s] # "up"
    BY <1>0 DEF ClientStep, Connect, Send, Drain, Leave, EdgeToCome, linkVars, edgeVars,
                pollVars, ClientTypes
  <1>4. CASE link'[s] # "up"
    BY <1>4 DEF SendServed, SendComes, MarkServed
  <1> QED
    BY <1>0, <1>1, <1>2, <1>3, <1>4, SendKept

LEMMA PollSendServed ==
    ASSUME Typed, NEW s \in sockConnMap', s \in sockConnMap => SendServed(s) /\ MarkServed(s),
           \/ FetchSend \/ (\E e \in sendEvents : PollSend(e))
           \/ \E c \in Clients, t \in Socks : Accept(c, t)
    PROVE  SendServed(s)' /\ MarkServed(s)'
  <1>0. ClientTypes /\ sockConnMap \subseteq Socks
    BY DEF Typed, ConnTypes
  <1>1. CASE FetchSend
    <2>1. s \in sockConnMap /\ s \in Socks /\ SendServed(s) /\ MarkServed(s)
      BY <1>0, <1>1 DEF FetchSend, connVars
    <2>2. EdgeToCome(s) => EdgeToCome(s)'
      BY <1>1, <2>1, FetchSendKeeps
    <2> QED
      BY <1>1, <2>1, <2>2, SendKept
         DEF FetchSend, linkVars, connVars, queueVars, sendVars, eventVars
  <1>2. ASSUME NEW e \in sendEvents, PollSend(e) PROVE SendServed(s)' /\ MarkServed(s)'
    <2>1. s \in sockConnMap /\ s \in Socks /\ SendServed(s) /\ MarkServed(s)
      BY <1>0, <1>2 DEF PollSend
    <2>2. CASE e.sock = s
      BY <1>2, <2>2 DEF PollSend, SendServed, SendComes, MarkServed
    <2>3. CASE e.sock # s
      <3>1. EdgeToCome(s) => EdgeToCome(s)'
        BY <1>2, <2>3 DEF PollSend, EdgeToCome, linkVars, edgeVars
      <3> QED
        BY <1>2, <2>1, <2>3, <3>1, SendKept DEF PollSend, linkVars, sendVars, eventVars
    <2> QED
      BY <2>2, <2>3
  <1>3. ASSUME NEW c \in Clients, NEW t \in Socks, Accept(c, t)
        PROVE  SendServed(s)' /\ MarkServed(s)'
    <2>1. CASE s = t
      BY <1>3, <2>1 DEF Accept, SendServed, SendComes, MarkServed, EdgeToCome
    <2>2. CASE s # t
      <3>1. s \in sockConnMap /\ s \in Socks /\ SendServed(s) /\ MarkServed(s)
        BY <1>0, <1>3, <2>2 DEF Accept
      <3>2. EdgeToCome(s) => EdgeToCome(s)'
        BY <1>3 DEF Accept, EdgeToCome, pollVars
      <3>3. link'[s] = link[s]
        BY <1>0, <1>3, <2>2, <3>1 DEF Accept, ClientTypes
      <3> QED
        BY <1>3, <3>1, <3>2, <3>3, SendKept DEF Accept, queueVars, sendVars, eventVars
    <2> QED
      BY <2>1, <2>2
  <1> QED
    BY <1>1, <1>2, <1>3

LEMMA AnswerServed ==
    ASSUME Typed, NEW s \in sockConnMap, SendServed(s), MarkServed(s), NEW r \in Requests,
           FindConn(r) \/ NoConn(r) \/ PostSend(r) \/ PrepareSend(r)
    PROVE  SendServed(s)' /\ MarkServed(s)'
  <1>0. /\ EventTypes /\ DataTypes /\ s \in Socks
        /\ cevSock[r] \in Socks
    BY HeldSocks DEF Typed, ConnTypes, FindConn, NoConn, PostSend, PrepareSend
  <1>1. UNCHANGED <<link, full, sendReady, sendEvents, mReadyToSend, overrun, sconn, spc>>
    BY DEF FindConn, NoConn, PostSend, PrepareSend, linkVars, edgeVars, pollVars, connVars,
           sendVars
  <1>2. cevSock' = cevSock
    BY <1>0 DEF FindConn, NoConn, PostSend, PrepareSend, ConnOf, EventTypes
  <1>3. EdgeToCome(s)' <=> EdgeToCome(s)
    BY <1>1 DEF EdgeToCome
  <1>4. MarkServed(s)'
    BY <1>1, <1>3 DEF MarkServed
  <1>5. CASE PostSend(r)
    <2>1. CASE cevSock[r] = s
      <3>1. tpc'[r] = "notify"
        BY <1>0, <1>5 DEF PostSend, EventTypes
      <3> QED
        BY <1>2, <1>4, <2>1, <3>1 DEF SendServed, SendComes
    <2>2. CASE cevSock[r] # s
      <3>1. mSendQ'[s] = mSendQ[s] /\ sendSockQ' = sendSockQ
        BY <1>0, <1>5, <2>2 DEF PostSend, DataTypes, queueVars
      <3>2. \A q \in Requests : tpc[q] = "notify" => tpc'[q] = "notify"
        BY <1>0, <1>5 DEF PostSend, EventTypes
      <3> QED
        BY <1>0, <1>1, <1>2, <1>3, <3>1, <3>2, SendKept
    <2> QED
      BY <2>1, <2>2
  <1>6. CASE PrepareSend(r)
    <2>1. CASE cevSock[r] = s
      <3>1. s \in sendSockQ'
        BY <1>6, <2>1 DEF PrepareSend, ToSend
      <3> QED
        BY <1>4, <3>1 DEF SendServed, SendComes
    <2>2. CASE cevSock[r] # s
      <3>1. mSendQ' = mSendQ /\ sendSockQ \subseteq sendSockQ'
        BY <1>6 DEF PrepareSend, connVars
      <3>2. \A q \in Requests : tpc[q] = "notify" /\ cevSock[q] = s => tpc'[q] = "notify"
        BY <1>0, <1>6, <2>2 DEF PrepareSend, EventTypes
      <3> QED
        BY <1>0, <1>1, <1>2, <1>3, <3>1, <3>2, SendKept
    <2> QED
      BY <2>1, <2>2
  <1>7. CASE FindConn(r) \/ NoConn(r)
    <2>1. mSendQ' = mSendQ /\ sendSockQ' = sendSockQ
      BY <1>7 DEF FindConn, NoConn, connVars, queueVars
    <2>2. \A q \in Requests : tpc[q] = "notify" => tpc'[q] = "notify"
      BY <1>0, <1>7 DEF FindConn, NoConn, EventTypes
    <2> QED
      BY <1>0, <1>1, <1>2, <1>3, <2>1, <2>2, SendKept
  <1> QED
    BY <1>5, <1>6, <1>7

LEMMA SendStepServed ==
    ASSUME Typed, ConnLives, NEW s \in sockConnMap, SendServed(s), MarkServed(s),
           NEW l \in Lanes,
           \/ \E t \in Socks : SendFind(l, t)
           \/ SendStop(l) \/ SendDone(l) \/ SendBroken(l) \/ SendFull(l) \/ ClearReady(l)
    PROVE  SendServed(s)' /\ MarkServed(s)'
  <1>0. /\ ClientTypes /\ DataTypes /\ SendTypes /\ s \in Socks /\ s \notin mCleaning
    BY DEF Typed, ConnTypes, ConnLives
  <1>1. /\ UNCHANGED <<link, sendReady, sendEvents, tpc, cevSock>>
        /\ full \subseteq full'
    BY DEF SendFind, SendStop, SendDone, SendBroken, SendFull, ClearReady, linkVars,
           edgeVars, pollVars, eventVars
  <1>2. EdgeToCome(s) => EdgeToCome(s)'
    BY <1>1 DEF EdgeToCome
  <1>3. \A k \in Lanes \ {l} : sconn'[k] = sconn[k] /\ spc'[k] = spc[k]
    BY <1>0 DEF SendFind, SendStop, SendDone, SendBroken, SendFull, ClearReady, sendVars,
                SendTypes
  <1>4. ASSUME NEW t \in Socks, SendFind(l, t) PROVE SendServed(s)' /\ MarkServed(s)'
    <2>1. UNCHANGED <<mSendQ, mReadyToSend, overrun>>
      BY <1>4 DEF SendFind, connVars
    <2>2. CASE s = t
      <3>1. sconn'[l] = s /\ spc'[l] = "progress"
        BY <1>0, <1>4, <2>2 DEF SendFind, SendTypes
      <3>2. MarkServed(s)'
        BY <1>1, <1>2, <2>1 DEF MarkServed
      <3> QED
        BY <3>1, <3>2 DEF SendServed, SendComes
    <2>3. CASE s # t
      <3>1. s \in sendSockQ => s \in sendSockQ'
        BY <1>4, <2>3 DEF SendFind
      <3>2. ~(spc[l] \in {"progress", "eagain"})
        BY <1>4 DEF SendFind
      <3> QED
        BY <1>0, <1>1, <1>2, <1>3, <2>1, <3>1, <3>2, SendKept
    <2> QED
      BY <2>2, <2>3
  <1>5. CASE sconn[l] # s /\ (SendStop(l) \/ SendDone(l) \/ SendBroken(l) \/ SendFull(l)
                                \/ ClearReady(l))
    <2>1. mSendQ'[s] = mSendQ[s] /\ sendSockQ' = sendSockQ
      BY <1>0, <1>5 DEF SendStop, SendDone, SendBroken, SendFull, ClearReady, connVars,
                        queueVars, DataTypes
    <2>2. (s \in mReadyToSend => s \in mReadyToSend') /\ (s \in overrun => s \in overrun')
      BY <1>5 DEF SendStop, SendDone, SendBroken, SendFull, ClearReady, connVars
    <2>3. \A k \in Lanes : sconn[k] = s => sconn'[k] = sconn[k] /\ spc'[k] = spc[k]
      BY <1>3, <1>5
    <2> QED
      BY <1>0, <1>1, <1>2, <2>1, <2>2, <2>3, SendKept
  <1>6. CASE sconn[l] = s /\ SendStop(l)
    <2>1. UNCHANGED <<mSendQ, mReadyToSend, overrun>>
      BY <1>6 DEF SendStop, connVars
    <2>2. MarkServed(s)'
      BY <1>1, <1>2, <2>1 DEF MarkServed
    <2>3. SendServed(s)'
      BY <1>6, <2>1, <2>2 DEF SendStop, SendServed, SendComes, MarkServed
    <2> QED
      BY <2>2, <2>3
  <1>7. CASE sconn[l] = s /\ (SendDone(l) \/ SendFull(l))
    <2>1. /\ UNCHANGED <<mReadyToSend, overrun, sconn>>
          /\ spc'[l] \in {"progress", "eagain"}
      BY <1>0, <1>7 DEF SendDone, SendFull, Sending, connVars, sendVars, SendTypes
    <2>2. MarkServed(s)'
      BY <1>1, <1>2, <2>1 DEF MarkServed
    <2> QED
      BY <1>7, <2>1, <2>2 DEF SendServed, SendComes
  <1>8. CASE sconn[l] = s /\ SendBroken(l)
    <2>1. link'[s] # "up"
      BY <1>0, <1>1, <1>8 DEF SendBroken
    <2> QED
      BY <2>1 DEF SendServed, SendComes, MarkServed
  <1>9. CASE sconn[l] = s /\ ClearReady(l)
    <2>1. EdgeToCome(s)' \/ s \in overrun'
      BY <1>2, <1>9 DEF ClearReady
    <2> QED
      BY <2>1 DEF SendServed, SendComes, MarkServed
  <1> QED
    BY <1>4, <1>5, <1>6, <1>7, <1>8, <1>9

LEMMA SendServedNext ==
    ASSUME Typed, ConnLives, PeerInv, WhereInv, [Next]_vars,
           \A s \in sockConnMap : SendServed(s) /\ MarkServed(s)
    PROVE  \A s \in sockConnMap' : SendServed(s)' /\ MarkServed(s)'
  <1> SUFFICES ASSUME NEW s \in sockConnMap' PROVE SendServed(s)' /\ MarkServed(s)'
    OBVIOUS
  <1>1. CASE FreeingStep
    <2>1. s \in sockConnMap
      BY <1>1, FreeingFrees, FreesKept
    <2> QED
      BY <1>1, <2>1, FreesSend
  <1>2. CASE ClientStep
    <2>1. s \in sockConnMap
      BY <1>2 DEF ClientStep, Connect, Send, Drain, Leave, connVars
    <2> QED
      BY <1>2, <2>1, ClientSend
  <1>3. CASE /\ UNCHANGED <<link, full, sendReady, sendEvents, sockConnMap, mReadyToSend,
                            overrun, mSendQ, sendSockQ, sendVars>>
             /\ \A r \in Requests : tpc[r] = "notify" =>
                                      tpc'[r] = "notify" /\ cevSock'[r] = cevSock[r]
    <2>1. s \in sockConnMap /\ s \in Socks
      BY <1>3 DEF Typed, ConnTypes
    <2>2. EdgeToCome(s) => EdgeToCome(s)'
      BY <1>3 DEF EdgeToCome
    <2> QED
      BY <1>3, <2>1, <2>2, SendKept DEF sendVars
  <1>4. CASE RecvPollStep
    BY <1>1, <1>3, <1>4, PollSendServed
       DEF RecvPollStep, FreeingStep, FetchRecv, PrepareRecv, StartAccept, AcceptError,
           NoRoom, EndAccept, linkVars, edgeVars, connVars, queueVars, eventVars
  <1>5. CASE SendPollStep
    BY <1>1, <1>5, PollSendServed DEF SendPollStep, FreeingStep
  <1>6. ASSUME NEW l \in Lanes, RecvStep(l) PROVE SendServed(s)' /\ MarkServed(s)'
    <2>1. ASSUME NEW r \in Requests,
                 \/ \E part \in {"whole", "message"} : RecvMessage(l, r, part)
                 \/ RecvAttachment(l, r)
          PROVE  SendServed(s)' /\ MarkServed(s)'
      <3>1. tpc[r] = "none"
        BY <2>1, NotAnswering
      <3>2. \A q \in Requests : tpc[q] = "notify" =>
                                  tpc'[q] = "notify" /\ cevSock'[q] = cevSock[q]
        BY <2>1, <3>1 DEF RecvMessage, RecvAttachment, Typed, EventTypes
      <3> QED
        BY <1>3, <2>1, <3>2 DEF RecvMessage, RecvAttachment, edgeVars, pollVars, queueVars
    <2> QED
      BY <1>1, <1>3, <1>6, <2>1
         DEF RecvStep, FreeingStep, RecvFind, RecvDropped, BadMessageAnswered, RecvUnavail, RecvBroken,
             linkVars, edgeVars, pollVars, connVars, queueVars, eventVars
  <1>7. ASSUME NEW l \in Lanes, SendStep(l) PROVE SendServed(s)' /\ MarkServed(s)'
    <2>1. CASE SendRelease(l)
      BY <1>1, <2>1 DEF FreeingStep
    <2>2. CASE ~SendRelease(l)
      <3>1. s \in sockConnMap
        BY <1>7, <2>2 DEF SendStep, SendFind, SendStop, SendDone, SendBroken, SendFull,
                          ClearReady, connVars
      <3> QED
        BY <1>7, <2>2, <3>1, SendStepServed DEF SendStep
    <2> QED
      BY <2>1, <2>2
  <1>8. ASSUME NEW r \in Requests, AnswerStep(r) PROVE SendServed(s)' /\ MarkServed(s)'
    <2>1. CASE ReleaseConn(r)
      BY <1>1, <2>1 DEF FreeingStep
    <2>2. CASE ~ReleaseConn(r)
      <3>1. s \in sockConnMap
        BY <1>8, <2>2 DEF AnswerStep, FindConn, NoConn, PostSend, PrepareSend, connVars
      <3> QED
        BY <1>8, <2>2, <3>1, AnswerServed DEF AnswerStep
    <2> QED
      BY <2>1, <2>2
  <1>9. CASE AtRest \/ UNCHANGED vars
    BY <1>3, <1>9 DEF AtRest, vars, linkVars, edgeVars, pollVars, connVars, queueVars,
                      eventVars
  <1> QED
    BY <1>2, <1>4, <1>5, <1>6, <1>7, <1>8, <1>9 DEF Next

-----------------------------------------------------------------------------
(* The invariant.                                                          *)
LEMMA NetInit == Init => NetInv
  <1> SUFFICES ASSUME Init PROVE NetInv
    OBVIOUS
  <1>0. Nil \notin Requests /\ Nil \notin Socks /\ Nil \notin Clients
    BY NetAssumption
  <1>1. Typed
    BY TypedInit
  <1>2. Refs
    <2>1. ASSUME NEW s \in Socks PROVE mRefCount[s] = Holders(s)
      <3>1. /\ {r \in Requests : cevSock[r] = s /\ tpc[r] \in {"post", "notify", "release"}} = {}
            /\ {l \in Lanes : sconn[l] = s} = {}
            /\ {l \in Lanes : rconn[l] = s /\ rpc[l] # "remove"} = {}
        BY <1>0 DEF Init
      <3>2. Holders(s) = 0 + 0 + 0
        BY <3>1, FS_EmptySet DEF Holders
      <3> QED
        BY <3>2 DEF Init
    <2> QED
      BY <2>1 DEF Refs
  <1>3. ConnLives
    BY DEF Init, ConnLives
  <1>4. PeerInv
    BY <1>0 DEF Init, PeerInv, Peers, Asked, Opening
  <1>5. WhereInv
    <2>1. DOMAIN <<>> = {}
      OBVIOUS
    <2>2. \A r \in Requests, s \in Socks : ~InSendQ(r, s) /\ Single(r, s)
      BY <2>1 DEF Init, InSendQ, Single
    <2>3. \A r \in Requests, s \in Socks : recvCev[s] # r
      BY <1>0 DEF Init
    <2> QED
      BY <2>2, <2>3 DEF Init, WhereInv, Where
  <1>6. RecvWakeup /\ SendWakeup /\ Marked
    BY DEF Init, RecvWakeup, SendWakeup, Marked
  <1> QED
    BY <1>1, <1>2, <1>3, <1>4, <1>5, <1>6 DEF NetInv

LEMMA NetNext == NetInv /\ [Next]_vars => NetInv'
  <1> SUFFICES ASSUME NetInv, [Next]_vars PROVE NetInv'
    OBVIOUS
  <1>0. Typed /\ Refs /\ ConnLives /\ PeerInv /\ Peers /\ WhereInv
    BY DEF NetInv, PeerInv
  <1>1. Typed'
    BY <1>0, TypedNext
  <1>2. Kinds
    BY <1>0, StepKinds
  <1>3. Refs' /\ ConnLives'
    BY <1>0, <1>1, <1>2, RefsNext, ConnLivesNext
  <1>4. PeerInv' /\ WhereInv'
    BY <1>0, PeerNext, WhereNext
  <1>5. /\ AcceptComes /\ \A s \in sockConnMap : RecvServed(s)
        /\ \A s \in sockConnMap : SendServed(s) /\ MarkServed(s)
    BY WakeupParts DEF NetInv, InParts
  <1>6. /\ AcceptComes' /\ \A s \in sockConnMap' : RecvServed(s)'
    BY <1>0, <1>5, AcceptComesNext, RecvServedNext
  <1>7. \A s \in sockConnMap' : SendServed(s)' /\ MarkServed(s)'
    BY <1>0, <1>5, SendServedNext
  <1>8. RecvWakeup' /\ SendWakeup' /\ Marked'
    <2>1. InParts'
      BY WakeupParts, PTL
    <2> QED
      BY <1>6, <1>7, <2>1 DEF InParts
  <1> QED
    BY <1>1, <1>3, <1>4, <1>8 DEF NetInv

(* Net, NetServer, Conn: whatever clients ask, leave, and come back under  *)
(* a socket number of before, the threads' references, the connections in  *)
(* the map, the events and the wakeups agree.                              *)
THEOREM NetInvariant == Spec => []NetInv
  <1> QED
    BY NetInit, NetNext, PTL DEF Spec

-----------------------------------------------------------------------------
(* The references, bounded by the threads there are.                       *)
LEMMA HoldersBound ==
    ASSUME Typed, NEW s \in Socks
    PROVE  Holders(s) \in 0..Cardinality(Requests) + 2
  <1>1. /\ Answering(s) \subseteq Requests /\ IsFiniteSet(Requests)
        /\ IsFiniteSet(Answering(s)) /\ IsFiniteSet(Senders(s)) /\ IsFiniteSet(Receivers(s))
        /\ Senders(s) \subseteq {Lane[s]} /\ Receivers(s) \subseteq {Lane[s]}
    BY FiniteUsers, NetAssumption DEF FinitelyUsed, Answering
  <1>2. Cardinality(Answering(s)) <= Cardinality(Requests)
    BY <1>1, FS_Subset
  <1>3. Cardinality(Senders(s)) <= 1 /\ Cardinality(Receivers(s)) <= 1
    <2>1. IsFiniteSet({Lane[s]}) /\ Cardinality({Lane[s]}) = 1
      BY FS_Singleton
    <2> QED
      BY <1>1, <2>1, FS_Subset
  <1>4. /\ Cardinality(Answering(s)) \in Nat /\ Cardinality(Senders(s)) \in Nat
        /\ Cardinality(Receivers(s)) \in Nat /\ Cardinality(Requests) \in Nat
    BY <1>1, FS_CardinalityType
  <1>5. Holders(s) = Cardinality(Answering(s)) + Cardinality(Senders(s))
                       + Cardinality(Receivers(s))
    BY DEF Holders, Answering, Senders, Receivers
  <1> QED
    BY <1>2, <1>3, <1>4, <1>5

LEMMA HeldHolds == NetInv => HeldExact
  <1> SUFFICES ASSUME NetInv PROVE HeldExact
    OBVIOUS
  <1>1. Typed /\ Refs /\ ConnLives
    BY DEF NetInv
  <1>2. mRefCount \in [Socks -> 0..Cardinality(Requests) + 2]
    BY <1>1, HoldersBound DEF Typed, ConnTypes, Refs
  <1>3. sockConnMap \subseteq Socks /\ mCleaning \subseteq Socks \ sockConnMap
    BY <1>1 DEF Typed, ConnTypes, ConnLives
  <1>4. TypeOK
    BY <1>1, <1>2, <1>3
       DEF Typed, ClientTypes, PollTypes, ConnTypes, DataTypes, EventTypes, QueueTypes,
           SendTypes, RecvTypes, TypeOK
  <1> QED
    BY <1>1, <1>4 DEF HeldExact, Refs, ConnLives

(* Conn::acquire, release and cleanup with ConnMgr: the references to a    *)
(* connection are exactly those of the threads that have it, nobody has a  *)
(* deleted one, and one that cannot be found any more is still in use.     *)
THEOREM HeldIsExact == Spec => []HeldExact
  <1> QED
    BY NetInvariant, HeldHolds, PTL

LEMMA AskerHolds == NetInv => AnswerToAsker
  <1> SUFFICES ASSUME NetInv, NEW r \in Requests, got[r] \ {Owner[r]} # {},
                      NEW s \in Socks, peer[s] = Owner[r]
               PROVE  FALSE
    BY DEF AnswerToAsker
  <1>1. stage[Owner[r]] = "gone"
    BY DEF NetInv, PeerInv, Asked
  <1>2. Owner[r] # Nil
    BY NetAssumption
  <1>3. stage[peer[s]] = "accepted"
    BY <1>2 DEF NetInv, PeerInv, Peers
  <1> QED
    BY <1>1, <1>3

(* CommStage::sendResponse with Net::getConn: the answer that is sent on   *)
(* the connection of its socket number reaches nobody else while the       *)
(* asker's connection exists.                                              *)
THEOREM AnswersReachTheAsker == Spec => []AnswerToAsker
  <1> QED
    BY NetInvariant, AskerHolds, PTL

(* Net::recvData, acceptConns and prepareRecv: what has arrived, and who   *)
(* waits for accept, is seen although each edge is reported once.          *)
THEOREM NothingArrivesUnseen == Spec => []RecvWakeup
  <1>1. NetInv => RecvWakeup
    BY DEF NetInv
  <1> QED
    BY <1>1, NetInvariant, PTL

(* Net::prepareSend, PollSend and Conn::sendProgress: an answer waits for  *)
(* nobody only when the mark of its socket was cleared after the edge.     *)
THEOREM AnswersAreSentOn == Spec => []SendWakeup
  <1>1. NetInv => SendWakeup
    BY DEF NetInv
  <1> QED
    BY <1>1, NetInvariant, PTL

-----------------------------------------------------------------------------
(* The events are counted.  A send queue holds each of them once, so that  *)
(* it is not longer than there are requests.                               *)
LEMMA QueueBound ==
    ASSUME DataTypes, WhereInv, NEW s \in Socks
    PROVE  DOMAIN mSendQ[s] \subseteq 1..Cardinality(Requests)
  <1> DEFINE n == Len(mSendQ[s])
  <1>0. /\ mSendQ[s] \in Seq(Requests) /\ IsFiniteSet(Requests)
    BY NetAssumption DEF DataTypes
  <1>1. /\ n \in Nat /\ DOMAIN mSendQ[s] = 1..n /\ mSendQ[s] \in [1..n -> Requests]
        /\ Cardinality(Requests) \in Nat
    BY <1>0, FS_CardinalityType
  <1>2. \A i, j \in 1..n : mSendQ[s][i] = mSendQ[s][j] => i = j
    <2> SUFFICES ASSUME NEW i \in 1..n, NEW j \in 1..n, mSendQ[s][i] = mSendQ[s][j]
                 PROVE  i = j
      OBVIOUS
    <2>1. mSendQ[s][i] \in Requests
      BY <1>1
    <2>2. Single(mSendQ[s][i], s)
      BY <2>1 DEF WhereInv, Where
    <2> QED
      BY <1>1, <2>2 DEF Single
  <1>3. IsFiniteSet(1..n) /\ Cardinality(1..n) = n
    <2>1. n \in Nat
      BY <1>1
    <2> HIDE DEF n
    <2> QED
      BY <2>1, FS_Interval
  <1>4. ~(Cardinality(Requests) < Cardinality(1..n))
    <2> SUFFICES ASSUME Cardinality(Requests) < Cardinality(1..n) PROVE FALSE
      OBVIOUS
    <2>1. \E i, j \in 1..n : i # j /\ mSendQ[s][i] = mSendQ[s][j]
      BY <1>0, <1>1, <1>3, FS_PigeonHole
    <2> QED
      BY <1>2, <2>1
  <1> HIDE DEF n
  <1> QED
    BY <1>1, <1>3, <1>4

SendPlaces(r) == {v \in Socks \X (1..Cardinality(Requests)) :
                    v[2] \in DOMAIN mSendQ[v[1]] /\ mSendQ[v[1]][v[2]] = r}
RecvPlaces(r) == {s \in Socks : recvCev[s] = r}

LEMMA SendPlacesCount ==
    ASSUME DataTypes, WhereInv, NEW r \in Requests
    PROVE  /\ (\A s \in Socks : ~InSendQ(r, s)) => Cardinality(SendPlaces(r)) = 0
           /\ (\E s \in Socks : InSendQ(r, s)) => Cardinality(SendPlaces(r)) = 1
  <1>1. ASSUME \A s \in Socks : ~InSendQ(r, s) PROVE Cardinality(SendPlaces(r)) = 0
    <2>1. SendPlaces(r) = {}
      BY <1>1 DEF SendPlaces, InSendQ
    <2> QED
      BY <2>1, FS_EmptySet
  <1>2. ASSUME NEW s \in Socks, InSendQ(r, s) PROVE Cardinality(SendPlaces(r)) = 1
    <2>1. PICK i \in DOMAIN mSendQ[s] : mSendQ[s][i] = r
      BY <1>2 DEF InSendQ
    <2>2. i \in 1..Cardinality(Requests)
      BY QueueBound
    <2>3. <<s, i>> \in SendPlaces(r)
      BY <2>1, <2>2 DEF SendPlaces
    <2>4. \A t \in Socks : InSendQ(r, t) => t = s
      BY <1>2 DEF WhereInv, Where
    <2>5. \A j \in DOMAIN mSendQ[s] : mSendQ[s][j] = r => j = i
      BY <2>1 DEF WhereInv, Where, Single
    <2>6. \A t \in Socks, j \in 1..Cardinality(Requests) :
            j \in DOMAIN mSendQ[t] /\ mSendQ[t][j] = r => t = s /\ j = i
      BY <2>4, <2>5 DEF InSendQ
    <2>7. SendPlaces(r) = {<<s, i>>}
      BY <2>3, <2>6 DEF SendPlaces
    <2> QED
      BY <2>7, FS_Singleton
  <1> QED
    BY <1>1, <1>2

LEMMA RecvPlacesCount ==
    ASSUME WhereInv, NEW r \in Requests
    PROVE  /\ (\A s \in Socks : recvCev[s] # r) => Cardinality(RecvPlaces(r)) = 0
           /\ (\E s \in Socks : recvCev[s] = r) => Cardinality(RecvPlaces(r)) = 1
  <1>1. ASSUME \A s \in Socks : recvCev[s] # r PROVE Cardinality(RecvPlaces(r)) = 0
    <2>1. RecvPlaces(r) = {}
      BY <1>1 DEF RecvPlaces
    <2> QED
      BY <2>1, FS_EmptySet
  <1>2. ASSUME NEW s \in Socks, recvCev[s] = r PROVE Cardinality(RecvPlaces(r)) = 1
    <2>1. RecvPlaces(r) = {s}
      BY <1>2 DEF RecvPlaces, WhereInv, Where
    <2> QED
      BY <2>1, FS_Singleton
  <1> QED
    BY <1>1, <1>2

LEMMA OnceHolds == NetInv => EventOnce
  <1> SUFFICES ASSUME NetInv, NEW r \in Requests
               PROVE  dones[r] + Places(r) = IF cevSock[r] = Nil THEN 0 ELSE 1
    BY DEF EventOnce
  <1>0. /\ DataTypes /\ EventTypes /\ WhereInv /\ Where(r)
        /\ Nil \notin Socks
    BY NetAssumption DEF NetInv, Typed, WhereInv
  <1> DEFINE a == Cardinality(RecvPlaces(r))
             b == IF tpc[r] \in {"next", "post"} THEN 1 ELSE 0
             c == Cardinality(SendPlaces(r))
  <1>1. Places(r) = a + b + c
    BY DEF Places, RecvPlaces, SendPlaces
  <1>2. /\ (\A s \in Socks : recvCev[s] # r) => a = 0
        /\ (\E s \in Socks : recvCev[s] = r) => a = 1
        /\ (\A s \in Socks : ~InSendQ(r, s)) => c = 0
        /\ (\E s \in Socks : InSendQ(r, s)) => c = 1
    BY <1>0, SendPlacesCount, RecvPlacesCount
  <1>3. /\ tpc[r] \in {"none", "next", "post", "notify", "release", "end"}
        /\ dones[r] \in 0..2 /\ cevSock[r] \in Socks \cup {Nil}
        /\ tpc[r] # "none" => cevSock[r] \in Socks
    BY <1>0 DEF EventTypes
  <1> HIDE DEF a, c
  <1>4. CASE tpc[r] = "none"
    <2>1. c = 0 /\ b = 0
      BY <1>0, <1>2, <1>4 DEF Where
    <2>2. CASE \A s \in Socks : recvCev[s] # r
      <3>1. a = 0 /\ dones[r] = IF cevSock[r] = Nil THEN 0 ELSE 1
        BY <1>0, <1>2, <1>3, <1>4, <2>2 DEF Where
      <3> QED
        BY <1>1, <2>1, <3>1
    <2>3. CASE \E s \in Socks : recvCev[s] = r
      <3>1. a = 1 /\ dones[r] = 0 /\ cevSock[r] # Nil
        BY <1>0, <1>2, <2>3 DEF Where
      <3> QED
        BY <1>1, <2>1, <3>1
    <2> QED
      BY <2>2, <2>3
  <1>5. CASE tpc[r] \in {"next", "post"}
    <2>1. a = 0 /\ b = 1 /\ c = 0 /\ dones[r] = 0 /\ cevSock[r] # Nil
      BY <1>0, <1>2, <1>3, <1>5 DEF Where
    <2> QED
      BY <1>1, <2>1
  <1>6. CASE tpc[r] \in {"notify", "release", "end"}
    <2>1. a = 0 /\ b = 0 /\ cevSock[r] # Nil /\ cevSock[r] \in Socks
      BY <1>0, <1>2, <1>3, <1>6 DEF Where
    <2>2. CASE \E s \in Socks : InSendQ(r, s)
      <3>1. c = 1 /\ dones[r] = 0
        BY <1>0, <1>2, <2>2 DEF Where
      <3> QED
        BY <1>1, <2>1, <3>1
    <2>3. CASE \A s \in Socks : ~InSendQ(r, s)
      <3>1. c = 0 /\ dones[r] = 1
        BY <1>0, <1>2, <1>6, <2>1, <2>3 DEF Where
      <3> QED
        BY <1>1, <2>1, <3>1
    <2> QED
      BY <2>2, <2>3
  <1> QED
    BY <1>3, <1>4, <1>5, <1>6

(* Conn::recvReqMsg to CommStage::sendResponse and Conn::cleanup: the      *)
(* event of a request is in one place until it is completed, once.         *)
THEOREM EventsAreAnsweredOnce == Spec => []EventOnce
  <1> QED
    BY NetInvariant, OnceHolds, PTL
=============================================================================
