-------------------------- MODULE CommRequestProofs --------------------------
(***************************************************************************)
(* Theorems about CommRequest, for any number of requests, sockets, end    *)
(* points and threads.                                                     *)
(***************************************************************************)
EXTENDS CommRequest, FiniteSetTheorems, TLAPS

-----------------------------------------------------------------------------
(* The inductive invariant of the connections.                             *)
ConnTypes ==
    /\ open \subseteq Socks /\ sockConnMap \subseteq Socks
    /\ mCleaning \subseteq Socks /\ up \subseteq Socks
    /\ epSockMap \in [EndPoints -> SUBSET Socks]
    /\ mRefCount \in [Socks -> Int]

DataTypes ==
    /\ mSendQ \in [Socks -> Seq(IoVecs)]
    /\ mCurSendBlock \in [Socks -> IoVecs \cup {Nil}]
    /\ mSendEventMap \in [Socks -> SUBSET Requests]
    /\ recvCev \in [Socks -> Requests \cup {Nil}]
    /\ wire \in [Socks -> SUBSET Requests]

EventTypes ==
    /\ pending \subseteq Requests
    /\ reply \in [Requests -> {"none", "answer", "error", "twice"}]

QueueTypes ==
    /\ sendSockQ \subseteq Socks /\ recvSockQ \subseteq Socks
    /\ hup \in [Pollers -> SUBSET Socks]
    /\ served \subseteq Requests

(* A thread has a connection in the places where it uses one, and a data   *)
(* thread only those of its own lane.                                      *)
CallTypes ==
    /\ cpc \in [Requests -> {"idle", "getConn", "addEntry", "prepare", "notify",
                             "release", "failRelease", "failComplete", "returned"}]
    /\ cconn \in [Requests -> Socks \cup {Nil}]
    /\ \A r \in Requests :
         cconn[r] # Nil <=>
           cpc[r] \in {"addEntry", "prepare", "notify", "release", "failRelease"}

SendTypes ==
    /\ spc \in [Lanes -> {"idle", "progress", "callback", "release"}]
    /\ sconn \in [Lanes -> Socks \cup {Nil}]
    /\ scb \in [Lanes -> Requests \cup {Nil}]
    /\ \A l \in Lanes : /\ sconn[l] # Nil <=> spc[l] # "idle"
                        /\ sconn[l] # Nil => Lane(sconn[l]) = l

RecvTypes ==
    /\ rpc \in [Lanes -> {"idle", "progress", "release", "broken", "remove"}]
    /\ rconn \in [Lanes -> Socks \cup {Nil}]
    /\ \A l \in Lanes : /\ rconn[l] # Nil <=> rpc[l] # "idle"
                        /\ rconn[l] # Nil => Lane(rconn[l]) = l

Typed ==
    /\ ConnTypes /\ DataTypes /\ EventTypes /\ QueueTypes
    /\ CallTypes /\ SendTypes /\ RecvTypes

Callers(s) == {r \in Requests : cconn[r] = s}
Senders(s) == {l \in Lanes : sconn[l] = s}
Receivers(s) == {l \in Lanes : rconn[l] = s /\ rpc[l] # "remove"}

Refs == \A s \in Socks : mRefCount[s] = Holders(s)

ConnInv == Typed /\ Refs /\ HeldConnAlive /\ MapsAgree

-----------------------------------------------------------------------------
(* The operators of the model.                                             *)
LEMMA LaneOfSock == \A s \in Socks : Lane(s) \in Lanes
  BY CommAssumption DEF Lane, Lanes

LEMMA CleanupEffect ==
    ASSUME NEW F \in SUBSET Socks, CleanupConn(F)
    PROVE  /\ open' = open \ F /\ up' = up \ F
           /\ mSendQ' = [s \in Socks |-> IF s \in F THEN <<>> ELSE mSendQ[s]]
           /\ mCurSendBlock' = [s \in Socks |-> IF s \in F THEN Nil ELSE mCurSendBlock[s]]
           /\ mSendEventMap' = [s \in Socks |-> IF s \in F THEN {} ELSE mSendEventMap[s]]
           /\ recvCev' = [s \in Socks |-> IF s \in F THEN Nil ELSE recvCev[s]]
           /\ wire' = [s \in Socks |-> IF s \in F THEN {} ELSE wire[s]]
           /\ pending' \subseteq pending
           /\ reply' = [r \in Requests |->
                IF \A s \in F : r \notin FailedByCleanup(s) THEN reply[r]
                ELSE IF reply[r] = "none" /\ \A s \in F : r \notin Receiving(s) \cap Unsent(s)
                     THEN "error" ELSE "twice"]
  <1>1. \A r : r \notin UNION {FailedByCleanup(s) : s \in F}
                 <=> \A s \in F : r \notin FailedByCleanup(s)
    OBVIOUS
  <1>2. \A r : r \notin UNION {Receiving(s) \cap Unsent(s) : s \in F}
                 <=> \A s \in F : r \notin Receiving(s) \cap Unsent(s)
    OBVIOUS
  <1> HIDE DEF FailedByCleanup, Receiving, Unsent
  <1>3. reply' = [r \in Requests |->
                IF r \notin UNION {FailedByCleanup(s) : s \in F} THEN reply[r]
                ELSE IF reply[r] = "none"
                          /\ r \notin UNION {Receiving(s) \cap Unsent(s) : s \in F}
                     THEN "error" ELSE "twice"]
    BY DEF CleanupConn
  <1> QED
    BY <1>1, <1>2, <1>3 DEF CleanupConn

LEMMA CleanupTypes ==
    ASSUME DataTypes, EventTypes, NEW F \in SUBSET Socks, CleanupConn(F)
    PROVE  DataTypes' /\ EventTypes'
  <1>1. DataTypes'
    <2>1. mSendQ' \in [Socks -> Seq(IoVecs)]
      <3>1. \A s \in Socks : (IF s \in F THEN <<>> ELSE mSendQ[s]) \in Seq(IoVecs)
        BY DEF DataTypes
      <3>2. mSendQ' = [s \in Socks |-> IF s \in F THEN <<>> ELSE mSendQ[s]]
        BY CleanupEffect
      <3> QED
        BY <3>1, <3>2
    <2>2. mCurSendBlock' \in [Socks -> IoVecs \cup {Nil}]
      BY CleanupEffect DEF DataTypes
    <2>3. recvCev' \in [Socks -> Requests \cup {Nil}]
      BY CleanupEffect DEF DataTypes
    <2>4. mSendEventMap' \in [Socks -> SUBSET Requests]
      <3>1. mSendEventMap' = [s \in Socks |-> IF s \in F THEN {} ELSE mSendEventMap[s]]
        BY CleanupEffect
      <3> QED
        BY <3>1 DEF DataTypes
    <2>5. wire' \in [Socks -> SUBSET Requests]
      <3>1. wire' = [s \in Socks |-> IF s \in F THEN {} ELSE wire[s]]
        BY CleanupEffect
      <3> QED
        BY <3>1 DEF DataTypes
    <2> QED
      BY <2>1, <2>2, <2>3, <2>4, <2>5 DEF DataTypes
  <1>2. pending' \subseteq Requests
    BY CleanupEffect DEF EventTypes
  <1>3. reply' \in [Requests -> {"none", "answer", "error", "twice"}]
    BY CleanupEffect DEF EventTypes
  <1> QED
    BY <1>1, <1>2, <1>3 DEF EventTypes

(* Conn::release and ConnMgr::remove: what they free, and what they leave. *)
LEMMA ReleaseEffect ==
    ASSUME Typed, NEW s \in Socks, Release(s)
    PROVE  LET F == IF LastReference(s) THEN {s} ELSE {} IN
           /\ F \in SUBSET Socks /\ CleanupConn(F)
           /\ mRefCount' = [mRefCount EXCEPT ![s] = @ - 1]
           /\ mCleaning' = mCleaning \ F
           /\ DataTypes' /\ EventTypes'
  <1>1. ASSUME NEW F \in SUBSET Socks, CleanupConn(F) PROVE DataTypes' /\ EventTypes'
    BY <1>1, CleanupTypes DEF Typed
  <1> QED
    BY <1>1 DEF Release

LEMMA RemoveEffect ==
    ASSUME Typed, NEW s \in Socks, RemoveConn(s)
    PROVE  /\ epSockMap' = [e \in EndPoints |-> epSockMap[e] \ {s}]
           /\ sockConnMap' = sockConnMap \ {s}
           /\ \/ /\ s \in sockConnMap /\ Busy(s)
                 /\ CleanupConn({}) /\ mCleaning' = mCleaning \cup {s}
              \/ /\ s \in sockConnMap /\ ~Busy(s)
                 /\ CleanupConn({s}) /\ mCleaning' = mCleaning \ {s}
              \/ /\ s \notin sockConnMap
                 /\ UNCHANGED <<eventVars, connVars>>
           /\ DataTypes' /\ EventTypes'
  <1>1. /\ epSockMap' = [e \in EndPoints |-> epSockMap[e] \ {s}]
        /\ sockConnMap' = sockConnMap \ {s}
        /\ IF s \in sockConnMap THEN Cleanup(s) ELSE UNCHANGED <<eventVars, connVars>>
    BY DEF RemoveConn, ErasedEpSock
  <1>2. CASE s \in sockConnMap /\ Busy(s)
    <2>1. CleanupConn({}) /\ mCleaning' = mCleaning \cup {s}
      BY <1>1, <1>2 DEF Cleanup
    <2> QED
      BY <1>1, <1>2, <2>1, CleanupTypes DEF Typed
  <1>3. CASE s \in sockConnMap /\ ~Busy(s)
    <2>1. CleanupConn({s}) /\ mCleaning' = mCleaning \ {s}
      BY <1>1, <1>3 DEF Cleanup
    <2> QED
      BY <1>1, <1>3, <2>1, CleanupTypes DEF Typed
  <1>4. CASE s \notin sockConnMap
    BY <1>1, <1>4 DEF connVars, eventVars, DataTypes, EventTypes, Typed
  <1> QED
    BY <1>2, <1>3, <1>4

(* The connections in F are gone and the others are as before.             *)
LEMMA ConnTypesAfterCleanup ==
    ASSUME Typed, NEW F \in SUBSET Socks, CleanupConn(F)
    PROVE  open' \subseteq Socks /\ up' \subseteq Socks
  BY CleanupEffect DEF Typed, ConnTypes

LEMMA FoundConn ==
    ASSUME ConnTypes, NEW e \in EndPoints, NEW s \in Find(e)
    PROVE  s \in Socks /\ s \in epSockMap[e] /\ s \in sockConnMap
  BY DEF ConnTypes, Find

-----------------------------------------------------------------------------
(* Types, conjunct by conjunct.                                            *)
LEMMA TypedInit == Init => Typed
  <1> SUFFICES ASSUME Init PROVE Typed
    OBVIOUS
  <1>1. ConnTypes
    BY DEF Init, ConnTypes
  <1>2. DataTypes
    <2>1. <<>> \in Seq(IoVecs)
      OBVIOUS
    <2> QED
      BY <2>1 DEF Init, DataTypes
  <1>3. EventTypes /\ QueueTypes /\ CallTypes
    BY DEF Init, EventTypes, QueueTypes, CallTypes
  <1>4. SendTypes /\ RecvTypes
    BY DEF Init, SendTypes, RecvTypes
  <1> QED
    BY <1>1, <1>2, <1>3, <1>4 DEF Typed

(* The connections that threads hold.                                      *)
LEMMA HeldSocks ==
    ASSUME Typed
    PROVE  /\ \A r \in Requests :
                cpc[r] \in {"addEntry", "prepare", "notify", "release", "failRelease"}
                  => cconn[r] \in Socks
           /\ \A l \in Lanes : spc[l] # "idle" => sconn[l] \in Socks
           /\ \A l \in Lanes : rpc[l] # "idle" => rconn[l] \in Socks
  BY DEF Typed, CallTypes, SendTypes, RecvTypes

LEMMA ConnTypesNext ==
    ASSUME Typed, [Next]_vars
    PROVE  ConnTypes'
  <1>0. ConnTypes
    BY DEF Typed
  <1>1. ASSUME NEW s \in Socks, Acquire(s), UNCHANGED <<mapVars, open, mCleaning, up>>
        PROVE  ConnTypes'
    BY <1>0, <1>1 DEF Acquire, ConnTypes, mapVars
  <1>2. ASSUME NEW s \in Socks, Release(s), UNCHANGED mapVars PROVE ConnTypes'
    <2>1. PICK F \in SUBSET Socks : CleanupConn(F) /\ mCleaning' = mCleaning \ F
      BY <1>2, ReleaseEffect
    <2>2. mRefCount' = [mRefCount EXCEPT ![s] = @ - 1]
      BY <1>2, ReleaseEffect
    <2>3. open' \subseteq Socks /\ up' \subseteq Socks
      BY <2>1, ConnTypesAfterCleanup
    <2> QED
      BY <1>0, <1>2, <2>1, <2>2, <2>3 DEF ConnTypes, mapVars
  <1>3. ASSUME NEW s \in Socks, RemoveConn(s), UNCHANGED mRefCount PROVE ConnTypes'
    <2>1. open' \subseteq Socks /\ up' \subseteq Socks /\ mCleaning' \subseteq mCleaning \cup {s}
      BY <1>0, <1>3, RemoveEffect, ConnTypesAfterCleanup DEF connVars, ConnTypes
    <2>2. /\ epSockMap' = [e \in EndPoints |-> epSockMap[e] \ {s}]
          /\ sockConnMap' = sockConnMap \ {s}
      BY <1>3, RemoveEffect
    <2> QED
      BY <1>0, <1>3, <2>1, <2>2 DEF ConnTypes
  <1>4. ASSUME NEW r \in Requests, FindConn(r) PROVE ConnTypes'
    <2>1. PICK s \in Find(TargetEp[r]) : Acquire(s)
      BY <1>4 DEF FindConn
    <2>2. s \in Socks
      BY <1>0, <2>1, FoundConn, CommAssumption
    <2> QED
      BY <1>1, <1>4, <2>1, <2>2 DEF FindConn, connVars
  <1>5. ASSUME NEW r \in Requests, NEW s \in Socks, MakeConn(r, s) PROVE ConnTypes'
    BY <1>0, <1>5, CommAssumption DEF MakeConn, OpenConn, InsertConn, Acquire, ConnTypes
  <1>6. ASSUME NEW r \in Requests, ReleaseConn(r) PROVE ConnTypes'
    BY <1>2, <1>6, HeldSocks DEF ReleaseConn
  <1>7. ASSUME NEW l \in Lanes, NEW s \in Socks, SendFind(l, s) \/ RecvFind(l, s)
        PROVE  ConnTypes'
    <2>1. CASE s \in sockConnMap
      BY <1>1, <1>7, <2>1 DEF SendFind, RecvFind, connVars
    <2>2. CASE s \notin sockConnMap
      BY <1>0, <1>7, <2>2 DEF SendFind, RecvFind, connVars, mapVars, ConnTypes
    <2> QED
      BY <2>1, <2>2
  <1>8. ASSUME NEW l \in Lanes, SendRelease(l) \/ RecvRelease(l) PROVE ConnTypes'
    BY <1>2, <1>8, HeldSocks DEF SendRelease, RecvRelease
  <1>9. ASSUME NEW l \in Lanes, RecvRemove(l) PROVE ConnTypes'
    BY <1>3, <1>9, HeldSocks DEF RecvRemove
  <1>10. ASSUME NEW p \in Pollers, NEW s \in Socks, HandleError(p, s) PROVE ConnTypes'
    BY <1>3, <1>10 DEF HandleError
  <1>11. ASSUME NEW e \in EndPoints, DelConn(e) PROVE ConnTypes'
    BY <1>0, <1>3, <1>11, FoundConn DEF DelConn
  <1>12. ASSUME NEW s \in Socks, Break(s) PROVE ConnTypes'
    BY <1>0, <1>12 DEF Break, mapVars, ConnTypes
  <1>13. CASE UNCHANGED <<mapVars, open, mCleaning, up, mRefCount>>
    BY <1>0, <1>13 DEF mapVars, ConnTypes
  <1> QED
    BY <1>4, <1>5, <1>6, <1>7, <1>8, <1>9, <1>10, <1>11, <1>12, <1>13
       DEF Next, CallerStep, SendStep, RecvStep, vars, connVars, Ask, FailConn,
           AddEventEntry, PrepareFails, PostSend, PrepareSend, CompleteFailed,
           SendNext, SendUnavail, SendDone, SendBroken, SendCallback, RecvRsp,
           EventDone, RecvUnavail, RecvBroken, PollError, PollSend, PollRecv, AtRest

LEMMA CompleteTypes ==
    ASSUME EventTypes, NEW S, NEW how \in {"answer", "error"}, CompleteEvent(S, how)
    PROVE  EventTypes'
  BY DEF EventTypes, CompleteEvent

LEMMA UpdatedSets ==
    ASSUME NEW f \in [Socks -> SUBSET Requests], NEW s \in Socks, NEW r \in Requests
    PROVE  /\ [f EXCEPT ![s] = @ \cup {r}] \in [Socks -> SUBSET Requests]
           /\ [f EXCEPT ![s] = @ \ {r}] \in [Socks -> SUBSET Requests]
  <1>1. f[s] \cup {r} \in SUBSET Requests /\ f[s] \ {r} \in SUBSET Requests
    OBVIOUS
  <1> QED
    BY <1>1

LEMMA DataTypesNext ==
    ASSUME Typed, [Next]_vars
    PROVE  DataTypes' /\ EventTypes'
  <1> DEFINE Goal == DataTypes' /\ EventTypes'
  <1>0. DataTypes /\ EventTypes
    BY DEF Typed
  <1>1. ASSUME NEW r \in Requests, Ask(r) PROVE Goal
    BY <1>0, <1>1 DEF Ask, connVars, DataTypes, EventTypes
  <1>2. ASSUME NEW r \in Requests, FailConn(r) \/ CompleteFailed(r) PROVE Goal
    BY <1>0, <1>2, CompleteTypes DEF FailConn, CompleteFailed, connVars, DataTypes
  <1>3. ASSUME NEW r \in Requests, AddEventEntry(r) \/ PrepareFails(r) PROVE Goal
    <2>1. cconn[r] \in Socks
      BY <1>3, HeldSocks DEF AddEventEntry, PrepareFails
    <2>2. mSendEventMap' \in [Socks -> SUBSET Requests]
      <3>1. \/ mSendEventMap' = [mSendEventMap EXCEPT ![cconn[r]] = @ \cup {r}]
            \/ mSendEventMap' = [mSendEventMap EXCEPT ![cconn[r]] = @ \ {r}]
        BY <1>3 DEF AddEventEntry, PrepareFails, RemoveEventEntry
      <3>2. mSendEventMap \in [Socks -> SUBSET Requests]
        BY <1>0 DEF DataTypes
      <3> QED
        BY <2>1, <3>1, <3>2, UpdatedSets
    <2> QED
      BY <1>0, <1>3, <2>2 DEF AddEventEntry, PrepareFails, eventVars,
                              DataTypes, EventTypes
  <1>4. ASSUME NEW r \in Requests, PostSend(r) PROVE Goal
    <2>1. ReqIovecs(r) \in Seq(IoVecs)
      <3>1. [req |-> r, last |-> TRUE] \in IoVecs /\ [req |-> r, last |-> FALSE] \in IoVecs
        BY DEF IoVecs
      <3>2. CASE r \in Refused
        BY <3>1, <3>2 DEF ReqIovecs
      <3>3. CASE r \notin Refused
        BY <3>1, <3>3 DEF ReqIovecs
      <3> QED
        BY <3>2, <3>3
    <2>2. cconn[r] \in Socks
      BY <1>4, HeldSocks DEF PostSend
    <2>3. mSendQ[cconn[r]] \o ReqIovecs(r) \in Seq(IoVecs)
      BY <1>0, <2>1, <2>2 DEF DataTypes
    <2>4. mSendQ' \in [Socks -> Seq(IoVecs)]
      BY <1>0, <1>4, <2>3 DEF PostSend, DataTypes
    <2> QED
      BY <1>0, <1>4, <2>4 DEF PostSend, eventVars, DataTypes, EventTypes
  <1>5. ASSUME NEW r \in Requests, ReleaseConn(r) PROVE Goal
    BY <1>5, HeldSocks, ReleaseEffect DEF ReleaseConn
  <1>6. ASSUME NEW l \in Lanes, SendRelease(l) \/ RecvRelease(l) PROVE Goal
    BY <1>6, HeldSocks, ReleaseEffect DEF SendRelease, RecvRelease
  <1>7. ASSUME NEW l \in Lanes, RecvRemove(l) PROVE Goal
    BY <1>7, HeldSocks, RemoveEffect DEF RecvRemove
  <1>8. ASSUME NEW p \in Pollers, NEW s \in Socks, HandleError(p, s) PROVE Goal
    BY <1>8, RemoveEffect DEF HandleError
  <1>9. ASSUME NEW e \in EndPoints, DelConn(e) PROVE Goal
    BY <1>9, RemoveEffect, FoundConn DEF DelConn, Typed
  <1>10. ASSUME NEW l \in Lanes, SendNext(l) PROVE Goal
    <2>1. sconn[l] \in Socks
      BY <1>10, HeldSocks DEF SendNext
    <2>2. CASE mSendQ[sconn[l]] = <<>>
      BY <1>0, <1>10, <2>2 DEF SendNext, eventVars, DataTypes, EventTypes
    <2>3. CASE mSendQ[sconn[l]] # <<>>
      <3>1. /\ Head(mSendQ[sconn[l]]) \in IoVecs
            /\ Tail(mSendQ[sconn[l]]) \in Seq(IoVecs)
        BY <1>0, <2>1, <2>3 DEF DataTypes
      <3>2. mSendQ' \in [Socks -> Seq(IoVecs)]
        BY <1>0, <1>10, <2>3, <3>1 DEF SendNext, DataTypes
      <3>3. mCurSendBlock' \in [Socks -> IoVecs \cup {Nil}]
        BY <1>0, <1>10, <2>3, <3>1 DEF SendNext, DataTypes
      <3> QED
        BY <1>0, <1>10, <3>2, <3>3 DEF SendNext, eventVars, DataTypes, EventTypes
    <2> QED
      BY <2>2, <2>3
  <1>11. ASSUME NEW l \in Lanes, SendDone(l) PROVE Goal
    <2>1. sconn[l] \in Socks
      BY <1>11, HeldSocks DEF SendDone
    <2>2. mCurSendBlock[sconn[l]].req \in Requests
      BY <1>0, <1>11, <2>1 DEF SendDone, DataTypes, IoVecs
    <2>3. wire' \in [Socks -> SUBSET Requests]
      <3>1. CASE sconn[l] \in up /\ Answers(mCurSendBlock[sconn[l]])
        <4>1. wire' = [wire EXCEPT ![sconn[l]] = @ \cup {mCurSendBlock[sconn[l]].req}]
          BY <1>11, <3>1 DEF SendDone
        <4> QED
          BY <1>0, <2>1, <2>2, <4>1, UpdatedSets DEF DataTypes
      <3>2. CASE ~(sconn[l] \in up /\ Answers(mCurSendBlock[sconn[l]]))
        BY <1>0, <1>11, <3>2 DEF SendDone, DataTypes
      <3> QED
        BY <3>1, <3>2
    <2>4. mCurSendBlock' \in [Socks -> IoVecs \cup {Nil}]
      BY <1>0, <1>11 DEF SendDone, DataTypes
    <2> QED
      BY <1>0, <1>11, <2>3, <2>4 DEF SendDone, eventVars, DataTypes, EventTypes
  <1>12. ASSUME NEW l \in Lanes, SendBroken(l) PROVE Goal
    <2>1. mSendEventMap' \in [Socks -> SUBSET Requests]
      BY ZenonT(30), <1>0, <1>12 DEF SendBroken, SendErrorEntry, DataTypes
    <2>2. mCurSendBlock' \in [Socks -> IoVecs \cup {Nil}]
      BY <1>0, <1>12 DEF SendBroken, DataTypes
    <2>3. EventTypes'
      <3>1. CASE \E S : CompleteEvent(S, "error")
        BY <1>0, <3>1, CompleteTypes
      <3>2. CASE UNCHANGED eventVars
        BY <1>0, <3>2 DEF eventVars, EventTypes
      <3> QED
        BY <1>12, <3>1, <3>2 DEF SendBroken
    <2> QED
      BY <1>0, <1>12, <2>1, <2>2, <2>3 DEF SendBroken, DataTypes
  <1>13. ASSUME NEW l \in Lanes, SendCallback(l) PROVE Goal
    BY <1>0, <1>13 DEF SendCallback, connVars, DataTypes, EventTypes
  <1>14. ASSUME NEW l \in Lanes, NEW r \in Requests, RecvRsp(l, r) PROVE Goal
    <2> DEFINE s == rconn[l]
    <2>1. s \in Socks
      BY <1>14, HeldSocks DEF RecvRsp
    <2>2. wire' \in [Socks -> SUBSET Requests]
      BY <1>0, <1>14, <2>1, UpdatedSets DEF RecvRsp, DataTypes
    <2>3. /\ mSendEventMap' \in [Socks -> SUBSET Requests]
          /\ recvCev' \in [Socks -> Requests \cup {Nil}]
          /\ pending' \subseteq Requests
      <3>1. CASE r \in mSendEventMap[s]
        <4>1. /\ mSendEventMap' = [mSendEventMap EXCEPT ![s] = @ \ {r}]
              /\ recvCev' = [recvCev EXCEPT ![s] = r] /\ pending' = pending \ {r}
          BY <1>14, <3>1 DEF RecvRsp, RemoveEventEntry
        <4>2. mSendEventMap' \in [Socks -> SUBSET Requests]
          BY <1>0, <2>1, <4>1, UpdatedSets DEF DataTypes
        <4> QED
          BY <1>0, <4>1, <4>2 DEF DataTypes, EventTypes
      <3>2. CASE r \notin mSendEventMap[s]
        BY <1>0, <1>14, <3>2 DEF RecvRsp, DataTypes, EventTypes
      <3> QED
        BY <3>1, <3>2
    <2> QED
      BY <1>0, <1>14, <2>2, <2>3 DEF RecvRsp, DataTypes, EventTypes
  <1>15. ASSUME NEW l \in Lanes, EventDone(l) \/ RecvBroken(l) PROVE Goal
    <2>1. EventTypes'
      BY <1>0, <1>15, CompleteTypes DEF EventDone, RecvBroken
    <2> QED
      BY <1>0, <1>15, <2>1 DEF EventDone, RecvBroken, DataTypes
  <1>16. CASE UNCHANGED <<eventVars, mSendQ, mCurSendBlock, mSendEventMap, recvCev, wire>>
    BY <1>0, <1>16 DEF eventVars, DataTypes, EventTypes
  <1> QED
    BY <1>1, <1>2, <1>3, <1>4, <1>5, <1>6, <1>7, <1>8, <1>9, <1>10, <1>11, <1>12,
       <1>13, <1>14, <1>15, <1>16
       DEF Next, CallerStep, SendStep, RecvStep, vars, connVars, FindConn, MakeConn,
           PrepareSend, SendFind, SendUnavail, RecvFind, RecvUnavail, PollError,
           PollSend, PollRecv, Break, AtRest

LEMMA QueueTypesNext ==
    ASSUME Typed, [Next]_vars
    PROVE  QueueTypes'
  <1>0. QueueTypes
    BY DEF Typed
  <1>1. ASSUME NEW r \in Requests, PrepareSend(r) PROVE QueueTypes'
    BY <1>0, <1>1, HeldSocks DEF PrepareSend, QueueTypes
  <1>2. ASSUME NEW s \in Socks, PollSend(s) \/ PollRecv(s) PROVE QueueTypes'
    BY <1>0, <1>2 DEF PollSend, PollRecv, QueueTypes
  <1>3. ASSUME NEW l \in Lanes, NEW s \in Socks, SendFind(l, s) \/ RecvFind(l, s)
        PROVE  QueueTypes'
    BY <1>0, <1>3 DEF SendFind, RecvFind, QueueTypes
  <1>4. ASSUME NEW p \in Pollers, NEW s \in Socks, PollError(p, s) \/ HandleError(p, s)
        PROVE  QueueTypes'
    BY <1>0, <1>4 DEF PollError, HandleError, QueueTypes
  <1>5. ASSUME NEW l \in Lanes, SendDone(l) PROVE QueueTypes'
    <2>1. mCurSendBlock[sconn[l]].req \in Requests
      BY <1>5, HeldSocks DEF SendDone, Typed, DataTypes, IoVecs
    <2> QED
      BY <1>0, <1>5, <2>1 DEF SendDone, queueVars, QueueTypes
  <1>6. CASE UNCHANGED <<queueVars, served>>
    BY <1>0, <1>6 DEF queueVars, QueueTypes
  <1> QED
    BY <1>1, <1>2, <1>3, <1>4, <1>5, <1>6
       DEF Next, CallerStep, SendStep, RecvStep, vars, queueVars, Ask, FindConn,
           MakeConn, FailConn, AddEventEntry, PrepareFails, PostSend, ReleaseConn,
           CompleteFailed, SendNext, SendUnavail, SendBroken, SendCallback,
           SendRelease, RecvRsp, EventDone, RecvUnavail, RecvBroken, RecvRelease,
           RecvRemove, DelConn, Break, AtRest

LEMMA CallTypesNext ==
    ASSUME Typed, [Next]_vars
    PROVE  CallTypes'
  <1> USE DEF CallTypes
  <1>0. CallTypes
    BY DEF Typed
  <1>n. Nil \notin Socks
    BY CommAssumption
  <1>1. ASSUME NEW r \in Requests, Ask(r) \/ FailConn(r) \/ CompleteFailed(r)
        PROVE  CallTypes'
    BY <1>0, <1>1 DEF Ask, FailConn, CompleteFailed
  <1>2. ASSUME NEW r \in Requests, NEW s \in Socks, cpc[r] = "getConn", Connected(r, s)
        PROVE  CallTypes'
    BY <1>0, <1>n, <1>2 DEF Connected
  <1>3. ASSUME NEW r \in Requests, FindConn(r) PROVE CallTypes'
    <2>1. PICK s \in Find(TargetEp[r]) : Connected(r, s)
      BY <1>3 DEF FindConn
    <2>2. s \in Socks
      BY <2>1, FoundConn, CommAssumption DEF Typed
    <2> QED
      BY <1>2, <1>3, <2>1, <2>2 DEF FindConn
  <1>4. ASSUME NEW r \in Requests, NEW s \in Socks, MakeConn(r, s) PROVE CallTypes'
    BY <1>2, <1>4 DEF MakeConn
  <1>5. ASSUME NEW r \in Requests,
               AddEventEntry(r) \/ PostSend(r) \/ PrepareSend(r) \/ PrepareFails(r)
        PROVE  CallTypes'
    BY <1>0, <1>5 DEF AddEventEntry, PostSend, PrepareSend, PrepareFails
  <1>6. ASSUME NEW r \in Requests, ReleaseConn(r) PROVE CallTypes'
    BY <1>0, <1>6 DEF ReleaseConn
  <1>7. CASE UNCHANGED callVars
    BY <1>0, <1>7 DEF callVars
  <1> QED
    BY <1>1, <1>3, <1>4, <1>5, <1>6, <1>7
       DEF Next, CallerStep, SendStep, RecvStep, vars, callVars, SendFind, SendNext,
           SendUnavail, SendDone, SendBroken, SendCallback, SendRelease, RecvFind,
           RecvRsp, EventDone, RecvUnavail, RecvBroken, RecvRelease, RecvRemove,
           PollError, HandleError, PollSend, PollRecv, DelConn, Break, AtRest

LEMMA SendTypesNext ==
    ASSUME Typed, [Next]_vars
    PROVE  SendTypes'
  <1> USE DEF SendTypes
  <1>0. SendTypes
    BY DEF Typed
  <1>n. Nil \notin Socks
    BY CommAssumption
  <1>1. ASSUME NEW l \in Lanes, NEW s \in Socks, SendFind(l, s) PROVE SendTypes'
    <2>1. CASE s \in sockConnMap
      BY <1>0, <1>n, <1>1, <2>1 DEF SendFind
    <2>2. CASE s \notin sockConnMap
      BY <1>0, <1>1, <2>2 DEF SendFind
    <2> QED
      BY <2>1, <2>2
  <1>2. ASSUME NEW l \in Lanes,
               SendNext(l) \/ SendUnavail(l) \/ SendBroken(l) \/ SendCallback(l)
        PROVE  SendTypes'
    BY <1>0, <1>2 DEF SendNext, SendUnavail, SendBroken, SendCallback
  <1>3. ASSUME NEW l \in Lanes, SendDone(l) PROVE SendTypes'
    <2>1. mCurSendBlock[sconn[l]].req \in Requests
      BY <1>3, HeldSocks DEF SendDone, Typed, DataTypes, IoVecs
    <2> QED
      BY <1>0, <1>3, <2>1 DEF SendDone
  <1>4. ASSUME NEW l \in Lanes, SendRelease(l) PROVE SendTypes'
    BY <1>0, <1>4 DEF SendRelease
  <1>5. CASE UNCHANGED sendVars
    BY <1>0, <1>5 DEF sendVars
  <1> QED
    BY <1>1, <1>2, <1>3, <1>4, <1>5
       DEF Next, CallerStep, SendStep, RecvStep, vars, sendVars, Ask, FindConn,
           MakeConn, FailConn, AddEventEntry, PrepareFails, PostSend, PrepareSend,
           ReleaseConn, CompleteFailed, RecvFind, RecvRsp, EventDone, RecvUnavail,
           RecvBroken, RecvRelease, RecvRemove, PollError, HandleError, PollSend,
           PollRecv, DelConn, Break, AtRest

LEMMA RecvTypesNext ==
    ASSUME Typed, [Next]_vars
    PROVE  RecvTypes'
  <1> USE DEF RecvTypes
  <1>0. RecvTypes
    BY DEF Typed
  <1>n. Nil \notin Socks
    BY CommAssumption
  <1>1. ASSUME NEW l \in Lanes, NEW s \in Socks, RecvFind(l, s) PROVE RecvTypes'
    <2>1. CASE s \in sockConnMap
      BY <1>0, <1>n, <1>1, <2>1 DEF RecvFind
    <2>2. CASE s \notin sockConnMap
      BY <1>0, <1>1, <2>2 DEF RecvFind
    <2> QED
      BY <2>1, <2>2
  <1>2. ASSUME NEW l \in Lanes, RecvUnavail(l) \/ RecvBroken(l) PROVE RecvTypes'
    BY <1>0, <1>2 DEF RecvUnavail, RecvBroken
  <1>3. ASSUME NEW l \in Lanes, RecvRelease(l) \/ RecvRemove(l) PROVE RecvTypes'
    BY <1>0, <1>3 DEF RecvRelease, RecvRemove
  <1>4. CASE UNCHANGED recvVars
    BY <1>0, <1>4 DEF recvVars
  <1> QED
    BY <1>1, <1>2, <1>3, <1>4
       DEF Next, CallerStep, SendStep, RecvStep, vars, recvVars, Ask, FindConn,
           MakeConn, FailConn, AddEventEntry, PrepareFails, PostSend, PrepareSend,
           ReleaseConn, CompleteFailed, SendFind, SendNext, SendUnavail, SendDone,
           SendBroken, SendCallback, SendRelease, RecvRsp, EventDone, PollError,
           HandleError, PollSend, PollRecv, DelConn, Break, AtRest

LEMMA TypedNext ==
    ASSUME Typed, [Next]_vars
    PROVE  Typed'
  BY ConnTypesNext, DataTypesNext, QueueTypesNext, CallTypesNext, SendTypesNext,
     RecvTypesNext DEF Typed

-----------------------------------------------------------------------------
(* References.  A thread gets or gives up a connection in the step that    *)
(* counts it.                                                              *)
Users(s) == <<Callers(s), Senders(s), Receivers(s)>>

LEMMA FiniteUsers ==
    \A s : /\ IsFiniteSet(Callers(s)) /\ IsFiniteSet(Callers(s)')
           /\ IsFiniteSet(Senders(s)) /\ IsFiniteSet(Senders(s)')
           /\ IsFiniteSet(Receivers(s)) /\ IsFiniteSet(Receivers(s)')
  <1>1. IsFiniteSet(Requests) /\ IsFiniteSet(Lanes)
    <2>1. 0 \in Int /\ NetThreadCount - 1 \in Int
      BY CommAssumption
    <2> QED
      BY <2>1, CommAssumption, FS_Interval DEF Lanes
  <1>2. \A s : /\ Callers(s) \subseteq Requests /\ Callers(s)' \subseteq Requests
               /\ Senders(s) \subseteq Lanes /\ Senders(s)' \subseteq Lanes
               /\ Receivers(s) \subseteq Lanes /\ Receivers(s)' \subseteq Lanes
    BY DEF Callers, Senders, Receivers
  <1> QED
    BY <1>1, <1>2, FS_Subset

LEMMA SumOfCardinalities ==
    ASSUME NEW A, NEW B, NEW C,
           IsFiniteSet(A), IsFiniteSet(B), IsFiniteSet(C)
    PROVE  LET n == Cardinality(A) + Cardinality(B) + Cardinality(C) IN
           /\ n \in Nat
           /\ n = 0 => A = {} /\ B = {} /\ C = {}
           /\ \A x : x \in A \/ x \in B \/ x \in C => n > 0
           /\ \A x : x \notin A =>
                Cardinality(A \cup {x}) + Cardinality(B) + Cardinality(C) = n + 1
           /\ \A x : x \notin B =>
                Cardinality(A) + Cardinality(B \cup {x}) + Cardinality(C) = n + 1
           /\ \A x : x \notin C =>
                Cardinality(A) + Cardinality(B) + Cardinality(C \cup {x}) = n + 1
           /\ \A x : x \in A =>
                Cardinality(A \ {x}) + Cardinality(B) + Cardinality(C) = n - 1
           /\ \A x : x \in B =>
                Cardinality(A) + Cardinality(B \ {x}) + Cardinality(C) = n - 1
           /\ \A x : x \in C =>
                Cardinality(A) + Cardinality(B) + Cardinality(C \ {x}) = n - 1
  <1>1. /\ Cardinality(A) \in Nat /\ Cardinality(B) \in Nat /\ Cardinality(C) \in Nat
        /\ Cardinality(A) = 0 <=> A = {}
        /\ Cardinality(B) = 0 <=> B = {}
        /\ Cardinality(C) = 0 <=> C = {}
    BY FS_CardinalityType, FS_EmptySet
  <1>2. /\ \A x : x \notin A => Cardinality(A \cup {x}) = Cardinality(A) + 1
        /\ \A x : x \notin B => Cardinality(B \cup {x}) = Cardinality(B) + 1
        /\ \A x : x \notin C => Cardinality(C \cup {x}) = Cardinality(C) + 1
    BY FS_AddElement
  <1>3. /\ \A x : x \in A => Cardinality(A \ {x}) = Cardinality(A) - 1
        /\ \A x : x \in B => Cardinality(B \ {x}) = Cardinality(B) - 1
        /\ \A x : x \in C => Cardinality(C \ {x}) = Cardinality(C) - 1
    BY FS_RemoveElement
  <1> QED
    BY <1>1, <1>2, <1>3

(* One more, or one less, user of s.                                       *)
Gains(s) ==
    \/ \E r : /\ r \notin Callers(s) /\ Callers(s)' = Callers(s) \cup {r}
              /\ Senders(s)' = Senders(s) /\ Receivers(s)' = Receivers(s)
    \/ \E l : /\ l \notin Senders(s) /\ Senders(s)' = Senders(s) \cup {l}
              /\ Callers(s)' = Callers(s) /\ Receivers(s)' = Receivers(s)
    \/ \E l : /\ l \notin Receivers(s) /\ Receivers(s)' = Receivers(s) \cup {l}
              /\ Callers(s)' = Callers(s) /\ Senders(s)' = Senders(s)
Loses(s) ==
    \/ \E r : /\ r \in Callers(s) /\ Callers(s)' = Callers(s) \ {r}
              /\ Senders(s)' = Senders(s) /\ Receivers(s)' = Receivers(s)
    \/ \E l : /\ l \in Senders(s) /\ Senders(s)' = Senders(s) \ {l}
              /\ Callers(s)' = Callers(s) /\ Receivers(s)' = Receivers(s)
    \/ \E l : /\ l \in Receivers(s) /\ Receivers(s)' = Receivers(s) \ {l}
              /\ Callers(s)' = Callers(s) /\ Senders(s)' = Senders(s)

LEMMA HoldersCount ==
    ASSUME NEW s
    PROVE  /\ Holders(s) \in Nat
           /\ Gains(s) => Holders(s)' = Holders(s) + 1
           /\ Loses(s) => Holders(s)' = Holders(s) - 1 /\ Holders(s) > 0
           /\ Users(s)' = Users(s) => Holders(s)' = Holders(s)
           /\ Holders(s)' = 0 =>
                Callers(s)' = {} /\ Senders(s)' = {} /\ Receivers(s)' = {}
           /\ Holders(s) = 0 =>
                Callers(s) = {} /\ Senders(s) = {} /\ Receivers(s) = {}
  <1>1. /\ Holders(s) = Cardinality(Callers(s)) + Cardinality(Senders(s))
                          + Cardinality(Receivers(s))
        /\ Holders(s)' = Cardinality(Callers(s)') + Cardinality(Senders(s)')
                          + Cardinality(Receivers(s)')
    BY DEF Holders, Callers, Senders, Receivers
  <1>2. Gains(s) => Holders(s)' = Holders(s) + 1
    BY <1>1, FiniteUsers, SumOfCardinalities DEF Gains
  <1>3. Loses(s) => Holders(s)' = Holders(s) - 1 /\ Holders(s) > 0
    BY <1>1, FiniteUsers, SumOfCardinalities DEF Loses
  <1>4. /\ Holders(s) \in Nat
        /\ Holders(s)' = 0 => Callers(s)' = {} /\ Senders(s)' = {} /\ Receivers(s)' = {}
        /\ Holders(s) = 0 => Callers(s) = {} /\ Senders(s) = {} /\ Receivers(s) = {}
    BY <1>1, FiniteUsers, SumOfCardinalities
  <1>5. Users(s)' = Users(s) => Holders(s)' = Holders(s)
    BY <1>1 DEF Users
  <1> QED
    BY <1>2, <1>3, <1>4, <1>5

-----------------------------------------------------------------------------
(* The kinds of steps that the connections see.                            *)
SameUsers(S) == \A s \in S : Users(s)' = Users(s)
KeepsConns == UNCHANGED <<mapVars, open, mCleaning, mRefCount>> /\ SameUsers(Socks)
Finds(s) ==
    /\ s \in sockConnMap /\ Acquire(s) /\ UNCHANGED <<mapVars, open, mCleaning>>
    /\ Gains(s) /\ SameUsers(Socks \ {s})
Makes(e, s) ==
    /\ Find(e) = {} /\ OpenConn(s) /\ InsertConn(e, s) /\ Acquire(s)
    /\ UNCHANGED mCleaning
    /\ Gains(s) /\ SameUsers(Socks \ {s})
Releases(s) ==
    /\ Release(s) /\ UNCHANGED mapVars
    /\ Loses(s) /\ SameUsers(Socks \ {s})
Removes(s) == RemoveConn(s) /\ UNCHANGED mRefCount /\ SameUsers(Socks)

Kinds ==
    \/ KeepsConns
    \/ \E s \in Socks : Finds(s) \/ Releases(s) \/ Removes(s)
    \/ \E e \in EndPoints, s \in Socks : Makes(e, s)

LEMMA CallerUsers ==
    ASSUME Typed, NEW r \in Requests, UNCHANGED <<sendVars, recvVars>>
    PROVE  /\ \A s \in Socks : cconn[r] = Nil /\ cconn' = [cconn EXCEPT ![r] = s]
                => Gains(s) /\ SameUsers(Socks \ {s})
           /\ \A s \in Socks : cconn[r] = s /\ cconn' = [cconn EXCEPT ![r] = Nil]
                => Loses(s) /\ SameUsers(Socks \ {s})
  <1>1. /\ Nil \notin Socks /\ cconn \in [Requests -> Socks \cup {Nil}]
        /\ \A s : Senders(s)' = Senders(s) /\ Receivers(s)' = Receivers(s)
    BY CommAssumption DEF Typed, CallTypes, sendVars, recvVars, Senders, Receivers
  <1>2. ASSUME NEW s \in Socks, cconn[r] = Nil, cconn' = [cconn EXCEPT ![r] = s]
        PROVE  Gains(s) /\ SameUsers(Socks \ {s})
    <2>1. r \notin Callers(s) /\ Callers(s)' = Callers(s) \cup {r}
      BY <1>1, <1>2 DEF Callers
    <2>2. \A t \in Socks \ {s} : Callers(t)' = Callers(t)
      BY <1>1, <1>2 DEF Callers
    <2> QED
      BY <1>1, <2>1, <2>2 DEF Gains, SameUsers, Users
  <1>3. ASSUME NEW s \in Socks, cconn[r] = s, cconn' = [cconn EXCEPT ![r] = Nil]
        PROVE  Loses(s) /\ SameUsers(Socks \ {s})
    <2>1. r \in Callers(s) /\ Callers(s)' = Callers(s) \ {r}
      BY <1>1, <1>3 DEF Callers
    <2>2. \A t \in Socks \ {s} : Callers(t)' = Callers(t)
      BY <1>1, <1>3 DEF Callers
    <2> QED
      BY <1>1, <2>1, <2>2 DEF Loses, SameUsers, Users
  <1> QED
    BY <1>2, <1>3

LEMMA SenderUsers ==
    ASSUME Typed, NEW l \in Lanes, UNCHANGED <<callVars, recvVars>>
    PROVE  /\ \A s \in Socks : sconn[l] = Nil /\ sconn' = [sconn EXCEPT ![l] = s]
                => Gains(s) /\ SameUsers(Socks \ {s})
           /\ \A s \in Socks : sconn[l] = s /\ sconn' = [sconn EXCEPT ![l] = Nil]
                => Loses(s) /\ SameUsers(Socks \ {s})
  <1>1. /\ Nil \notin Socks /\ sconn \in [Lanes -> Socks \cup {Nil}]
        /\ \A s : Callers(s)' = Callers(s) /\ Receivers(s)' = Receivers(s)
    BY CommAssumption DEF Typed, SendTypes, callVars, recvVars, Callers, Receivers
  <1>2. ASSUME NEW s \in Socks, sconn[l] = Nil, sconn' = [sconn EXCEPT ![l] = s]
        PROVE  Gains(s) /\ SameUsers(Socks \ {s})
    <2>1. l \notin Senders(s) /\ Senders(s)' = Senders(s) \cup {l}
      BY <1>1, <1>2 DEF Senders
    <2>2. \A t \in Socks \ {s} : Senders(t)' = Senders(t)
      BY <1>1, <1>2 DEF Senders
    <2> QED
      BY <1>1, <2>1, <2>2 DEF Gains, SameUsers, Users
  <1>3. ASSUME NEW s \in Socks, sconn[l] = s, sconn' = [sconn EXCEPT ![l] = Nil]
        PROVE  Loses(s) /\ SameUsers(Socks \ {s})
    <2>1. l \in Senders(s) /\ Senders(s)' = Senders(s) \ {l}
      BY <1>1, <1>3 DEF Senders
    <2>2. \A t \in Socks \ {s} : Senders(t)' = Senders(t)
      BY <1>1, <1>3 DEF Senders
    <2> QED
      BY <1>1, <2>1, <2>2 DEF Loses, SameUsers, Users
  <1> QED
    BY <1>2, <1>3

LEMMA ReceiverUsers ==
    ASSUME Typed, NEW l \in Lanes, UNCHANGED <<callVars, sendVars>>
    PROVE  /\ \A s \in Socks :
                /\ rconn[l] = Nil /\ rconn' = [rconn EXCEPT ![l] = s]
                /\ rpc' = [rpc EXCEPT ![l] = "progress"]
                => Gains(s) /\ SameUsers(Socks \ {s})
           /\ \A s \in Socks :
                /\ rconn[l] = s /\ rpc[l] # "remove"
                /\ \/ rconn' = [rconn EXCEPT ![l] = Nil] /\ rpc' = [rpc EXCEPT ![l] = "idle"]
                   \/ rconn' = rconn /\ rpc' = [rpc EXCEPT ![l] = "remove"]
                => Loses(s) /\ SameUsers(Socks \ {s})
  <1>1. /\ Nil \notin Socks /\ rconn \in [Lanes -> Socks \cup {Nil}]
        /\ rpc \in [Lanes -> {"idle", "progress", "release", "broken", "remove"}]
        /\ \A s : Callers(s)' = Callers(s) /\ Senders(s)' = Senders(s)
    BY CommAssumption DEF Typed, RecvTypes, callVars, sendVars, Callers, Senders
  <1>2. ASSUME NEW s \in Socks, rconn[l] = Nil, rconn' = [rconn EXCEPT ![l] = s],
               rpc' = [rpc EXCEPT ![l] = "progress"]
        PROVE  Gains(s) /\ SameUsers(Socks \ {s})
    <2>1. l \notin Receivers(s) /\ Receivers(s)' = Receivers(s) \cup {l}
      BY <1>1, <1>2 DEF Receivers
    <2>2. \A t \in Socks \ {s} : Receivers(t)' = Receivers(t)
      BY <1>1, <1>2 DEF Receivers
    <2> QED
      BY <1>1, <2>1, <2>2 DEF Gains, SameUsers, Users
  <1>3. ASSUME NEW s \in Socks, rconn[l] = s, rpc[l] # "remove",
               \/ rconn' = [rconn EXCEPT ![l] = Nil] /\ rpc' = [rpc EXCEPT ![l] = "idle"]
               \/ rconn' = rconn /\ rpc' = [rpc EXCEPT ![l] = "remove"]
        PROVE  Loses(s) /\ SameUsers(Socks \ {s})
    <2>1. l \in Receivers(s) /\ Receivers(s)' = Receivers(s) \ {l}
      BY <1>1, <1>3 DEF Receivers
    <2>2. \A t \in Socks \ {s} : Receivers(t)' = Receivers(t)
      BY <1>1, <1>3 DEF Receivers
    <2> QED
      BY <1>1, <2>1, <2>2 DEF Loses, SameUsers, Users
  <1> QED
    BY <1>2, <1>3

LEMMA StepKinds ==
    ASSUME Typed, [Next]_vars
    PROVE  Kinds
  <1>0. /\ \A r \in Requests : cpc[r] = "getConn" => cconn[r] = Nil
        /\ \A l \in Lanes : spc[l] = "idle" => sconn[l] = Nil
        /\ \A l \in Lanes : rpc[l] = "idle" => rconn[l] = Nil
    BY DEF Typed, CallTypes, SendTypes, RecvTypes
  <1>1. ASSUME NEW r \in Requests, FindConn(r) PROVE Kinds
    <2>1. PICK s \in Find(TargetEp[r]) : Acquire(s) /\ Connected(r, s)
      BY <1>1 DEF FindConn
    <2>2. s \in Socks /\ s \in sockConnMap
      BY <2>1, FoundConn, CommAssumption DEF Typed
    <2>3. Gains(s) /\ SameUsers(Socks \ {s})
      BY <1>0, <1>1, <2>1, <2>2, CallerUsers DEF FindConn, Connected
    <2>4. Finds(s)
      BY <1>1, <2>1, <2>2, <2>3 DEF Finds, FindConn, connVars
    <2> QED
      BY <2>2, <2>4 DEF Kinds
  <1>2. ASSUME NEW r \in Requests, NEW s \in Socks, MakeConn(r, s) PROVE Kinds
    <2>1. Gains(s) /\ SameUsers(Socks \ {s})
      BY <1>0, <1>2, CallerUsers DEF MakeConn, Connected
    <2>2. Makes(TargetEp[r], s)
      BY <1>2, <2>1 DEF Makes, MakeConn
    <2> QED
      BY <2>2, CommAssumption DEF Kinds
  <1>3. ASSUME NEW r \in Requests, ReleaseConn(r) PROVE Kinds
    <2>1. cconn[r] \in Socks
      BY <1>3, HeldSocks DEF ReleaseConn
    <2>2. Loses(cconn[r]) /\ SameUsers(Socks \ {cconn[r]})
      BY <1>3, <2>1, CallerUsers DEF ReleaseConn
    <2>3. Releases(cconn[r])
      BY <1>3, <2>2 DEF Releases, ReleaseConn
    <2> QED
      BY <2>1, <2>3 DEF Kinds
  <1>4. ASSUME NEW l \in Lanes, NEW s \in Socks, SendFind(l, s) PROVE Kinds
    <2>1. CASE s \in sockConnMap
      <3>1. Gains(s) /\ SameUsers(Socks \ {s})
        BY <1>0, <1>4, <2>1, SenderUsers DEF SendFind
      <3>2. Finds(s)
        BY <1>4, <2>1, <3>1 DEF Finds, SendFind, connVars
      <3> QED
        BY <3>2 DEF Kinds
    <2>2. CASE s \notin sockConnMap
      <3>1. UNCHANGED <<mapVars, open, mCleaning, mRefCount, cconn, sconn, rconn, rpc>>
        BY <1>4, <2>2 DEF SendFind, connVars, callVars, recvVars
      <3> QED
        BY <3>1 DEF Kinds, KeepsConns, SameUsers, Users, Callers, Senders, Receivers
    <2> QED
      BY <2>1, <2>2
  <1>5. ASSUME NEW l \in Lanes, NEW s \in Socks, RecvFind(l, s) PROVE Kinds
    <2>1. CASE s \in sockConnMap
      <3>1. Gains(s) /\ SameUsers(Socks \ {s})
        BY <1>0, <1>5, <2>1, ReceiverUsers DEF RecvFind
      <3>2. Finds(s)
        BY <1>5, <2>1, <3>1 DEF Finds, RecvFind, connVars
      <3> QED
        BY <3>2 DEF Kinds
    <2>2. CASE s \notin sockConnMap
      <3>1. UNCHANGED <<mapVars, open, mCleaning, mRefCount, cconn, sconn, rconn, rpc>>
        BY <1>5, <2>2 DEF RecvFind, connVars, callVars, sendVars
      <3> QED
        BY <3>1 DEF Kinds, KeepsConns, SameUsers, Users, Callers, Senders, Receivers
    <2> QED
      BY <2>1, <2>2
  <1>6. ASSUME NEW l \in Lanes, SendRelease(l) PROVE Kinds
    <2>1. sconn[l] \in Socks
      BY <1>6, HeldSocks DEF SendRelease
    <2>2. Loses(sconn[l]) /\ SameUsers(Socks \ {sconn[l]})
      BY <1>6, <2>1, SenderUsers DEF SendRelease
    <2>3. Releases(sconn[l])
      BY <1>6, <2>2 DEF Releases, SendRelease
    <2> QED
      BY <2>1, <2>3 DEF Kinds
  <1>7. ASSUME NEW l \in Lanes, RecvRelease(l) PROVE Kinds
    <2>1. rconn[l] \in Socks
      BY <1>7, HeldSocks DEF RecvRelease
    <2>2. Loses(rconn[l]) /\ SameUsers(Socks \ {rconn[l]})
      BY <1>7, <2>1, ReceiverUsers DEF RecvRelease
    <2>3. Releases(rconn[l])
      BY <1>7, <2>2 DEF Releases, RecvRelease
    <2> QED
      BY <2>1, <2>3 DEF Kinds
  <1>8. ASSUME NEW l \in Lanes, RecvRemove(l) PROVE Kinds
    <2>1. rconn[l] \in Socks
      BY <1>8, HeldSocks DEF RecvRemove
    <2>2. SameUsers(Socks)
      <3>1. \A s \in Socks : Receivers(s)' = Receivers(s)
        BY <1>8, CommAssumption DEF RecvRemove, Receivers, Typed, RecvTypes
      <3> QED
        BY <1>8, <3>1 DEF RecvRemove, callVars, sendVars, SameUsers, Users, Callers,
                          Senders
    <2>3. Removes(rconn[l])
      BY <1>8, <2>2 DEF Removes, RecvRemove
    <2> QED
      BY <2>1, <2>3 DEF Kinds
  <1>9. ASSUME NEW p \in Pollers, NEW s \in Socks, HandleError(p, s) PROVE Kinds
    <2>1. Removes(s)
      BY <1>9 DEF HandleError, Removes, callVars, sendVars, recvVars, SameUsers, Users,
                  Callers, Senders, Receivers
    <2> QED
      BY <2>1 DEF Kinds
  <1>10. ASSUME NEW e \in EndPoints, DelConn(e) PROVE Kinds
    <2>1. PICK s \in Find(e) : RemoveConn(s)
      BY <1>10 DEF DelConn
    <2>2. s \in Socks
      BY <2>1, FoundConn DEF Typed
    <2>3. Removes(s)
      BY <1>10, <2>1 DEF DelConn, Removes, callVars, sendVars, recvVars, SameUsers,
                         Users, Callers, Senders, Receivers
    <2> QED
      BY <2>2, <2>3 DEF Kinds
  <1>11. ASSUME NEW l \in Lanes, RecvUnavail(l) \/ RecvBroken(l) PROVE Kinds
    <2>1. \A s \in Socks : Receivers(s)' = Receivers(s)
      BY <1>11 DEF RecvUnavail, RecvBroken, Receivers, Typed, RecvTypes
    <2>2. UNCHANGED <<mapVars, open, mCleaning, mRefCount, cconn, sconn>>
      BY <1>11 DEF RecvUnavail, RecvBroken, connVars, callVars, sendVars
    <2> QED
      BY <2>1, <2>2 DEF Kinds, KeepsConns, SameUsers, Users, Callers, Senders
  <1>12. CASE UNCHANGED <<mapVars, open, mCleaning, mRefCount, cconn, sconn, recvVars>>
    BY <1>12 DEF Kinds, KeepsConns, SameUsers, Users, Callers, Senders, Receivers,
                 recvVars
  <1> QED
    BY <1>1, <1>2, <1>3, <1>4, <1>5, <1>6, <1>7, <1>8, <1>9, <1>10, <1>11, <1>12
       DEF Next, CallerStep, SendStep, RecvStep, vars, connVars, callVars, sendVars,
           Ask, FailConn, AddEventEntry, PrepareFails, PostSend, PrepareSend,
           CompleteFailed, SendNext, SendUnavail, SendDone, SendBroken, SendCallback,
           RecvRsp, EventDone, PollError, PollSend, PollRecv, Break, AtRest

-----------------------------------------------------------------------------
(* The invariant of the connections.                                       *)
NoUsers == <<{}, {}, {}>>
UsedAreOpen == \A s \in Socks : s \notin open => Users(s) = NoUsers
UnfoundAreCleaning ==
    /\ mCleaning \subseteq open
    /\ \A s \in open \ sockConnMap : s \in mCleaning /\ Busy(s)

LEMMA HeldAreUsed ==
    Typed => (HeldConnAlive <=> UsedAreOpen /\ UnfoundAreCleaning)
  <1> SUFFICES ASSUME Typed
               PROVE  HeldConnAlive <=> UsedAreOpen /\ UnfoundAreCleaning
    OBVIOUS
  <1>1. /\ \A r \in Requests : cconn[r] # Nil => cconn[r] \in Socks
        /\ \A l \in Lanes : sconn[l] # Nil => sconn[l] \in Socks
        /\ \A l \in Lanes : rconn[l] # Nil => rconn[l] \in Socks
        /\ Nil \notin Socks
    BY CommAssumption DEF Typed, CallTypes, SendTypes, RecvTypes
  <1>2. UsedAreOpen <=>
          /\ \A r \in Requests : cconn[r] # Nil => cconn[r] \in open
          /\ \A l \in Lanes : sconn[l] # Nil => sconn[l] \in open
          /\ \A l \in Lanes : rconn[l] # Nil /\ rpc[l] # "remove" => rconn[l] \in open
    BY <1>1 DEF UsedAreOpen, Users, NoUsers, Callers, Senders, Receivers
  <1> QED
    BY <1>2 DEF HeldConnAlive, UnfoundAreCleaning

LEMMA RefsNext ==
    ASSUME Typed, Refs, Kinds
    PROVE  Refs'
  <1>0. mRefCount \in [Socks -> Int]
    BY DEF Typed, ConnTypes
  <1>1. ASSUME NEW s \in Socks, Acquire(s), Gains(s), SameUsers(Socks \ {s}) PROVE Refs'
    BY <1>0, <1>1, HoldersCount DEF Refs, Acquire, SameUsers
  <1>2. ASSUME NEW s \in Socks, Releases(s) PROVE Refs'
    <2>1. mRefCount' = [mRefCount EXCEPT ![s] = @ - 1]
      BY <1>2, ReleaseEffect DEF Releases
    <2> QED
      BY <1>0, <1>2, <2>1, HoldersCount DEF Refs, Releases, SameUsers
  <1>3. CASE UNCHANGED mRefCount /\ SameUsers(Socks)
    BY <1>3, HoldersCount DEF Refs, SameUsers
  <1> QED
    BY <1>1, <1>2, <1>3 DEF Kinds, KeepsConns, Finds, Makes, Removes

LEMMA NobodyHolds ==
    ASSUME NEW s \in Socks
    PROVE  /\ Refs /\ mRefCount[s] = 0 => Users(s) = NoUsers
           /\ Refs' /\ mRefCount'[s] = 0 => Users(s)' = NoUsers
  BY HoldersCount DEF Refs, Users, NoUsers

LEMMA MakesKeeps ==
    ASSUME ConnInv, UsedAreOpen, UnfoundAreCleaning, NEW e \in EndPoints,
           NEW s \in Socks, Makes(e, s)
    PROVE  UsedAreOpen' /\ UnfoundAreCleaning' /\ MapsAgree'
  <1>0. ConnTypes /\ MapsAgree /\ \A t \in Socks : t \in Nat
    BY CommAssumption DEF ConnInv, Typed
  <1>1. /\ s \notin open /\ open' = open \cup {s}
        /\ sockConnMap' = sockConnMap \cup {s} /\ mCleaning' = mCleaning
        /\ epSockMap' = [epSockMap EXCEPT ![e] = @ \cup {s}]
        /\ mRefCount' = [mRefCount EXCEPT ![s] = @ + 1]
        /\ \A t \in Socks \ {s} : Users(t)' = Users(t)
    BY DEF Makes, OpenConn, InsertConn, Acquire, SameUsers
  <1>2. epSockMap[e] = {}
    <2> SUFFICES ASSUME NEW t \in epSockMap[e] PROVE FALSE
      OBVIOUS
    <2>1. t \in Socks /\ t \in sockConnMap /\ \A u \in epSockMap[e] : u = t
      BY <1>0 DEF ConnTypes, MapsAgree
    <2>2. t \in Find(e)
      BY <1>0, <2>1 DEF Find
    <2> QED
      BY <2>2 DEF Makes
  <1>3. UsedAreOpen'
    BY <1>1 DEF UsedAreOpen, NoUsers
  <1>4. UnfoundAreCleaning'
    BY <1>0, <1>1 DEF UnfoundAreCleaning, Busy, ConnTypes
  <1>5. MapsAgree'
    <2>1. \A f \in EndPoints : epSockMap'[f] = IF f = e THEN {s} ELSE epSockMap[f]
      BY <1>0, <1>1, <1>2 DEF ConnTypes
    <2>2. \A f \in EndPoints : epSockMap[f] \subseteq sockConnMap
      BY <1>0 DEF MapsAgree
    <2>3. s \notin sockConnMap /\ s \notin mCleaning
      BY <1>0, <1>1 DEF MapsAgree, UnfoundAreCleaning
    <2>4. sockConnMap' \subseteq open' \ mCleaning'
      BY <1>0, <1>1, <2>3 DEF MapsAgree
    <2>5. UNION {epSockMap'[f] : f \in EndPoints} = sockConnMap'
      <3>1. UNION {epSockMap[f] : f \in EndPoints} = sockConnMap
        BY <1>0 DEF MapsAgree
      <3> QED
        BY <1>1, <1>2, <2>1, <3>1
    <2>6. /\ \A f \in EndPoints : \A t, u \in epSockMap'[f] : t = u
          /\ \A f, g \in EndPoints : epSockMap'[f] \cap epSockMap'[g] # {} => f = g
      BY <1>0, <2>1, <2>2, <2>3 DEF MapsAgree
    <2> QED
      BY <2>4, <2>5, <2>6 DEF MapsAgree
  <1> QED
    BY <1>3, <1>4, <1>5

LEMMA ReleasesKeeps ==
    ASSUME ConnInv, UsedAreOpen, UnfoundAreCleaning, NEW s \in Socks, Releases(s),
           Refs'
    PROVE  UsedAreOpen' /\ UnfoundAreCleaning' /\ MapsAgree'
  <1>0. ConnTypes /\ MapsAgree /\ Typed
    BY DEF ConnInv, Typed
  <1> DEFINE F == IF LastReference(s) THEN {s} ELSE {}
  <1>1. /\ open' = open \ F /\ mCleaning' = mCleaning \ F
        /\ mRefCount' = [mRefCount EXCEPT ![s] = @ - 1]
        /\ UNCHANGED mapVars
        /\ \A t \in Socks \ {s} : Users(t)' = Users(t)
    BY <1>0, ReleaseEffect, CleanupEffect DEF Releases, SameUsers
  <1>2. mRefCount[s] \in Nat /\ mRefCount[s] > 0 /\ s \in open
    <2>1. mRefCount[s] > 0 /\ mRefCount[s] \in Nat
      BY HoldersCount DEF Releases, ConnInv, Refs
    <2>2. Users(s) # NoUsers
      BY DEF Releases, Loses, Users, NoUsers
    <2> QED
      BY <2>1, <2>2 DEF UsedAreOpen
  <1>3. UsedAreOpen'
    <2>1. s \notin open' => Users(s)' = NoUsers
      <3> SUFFICES ASSUME s \notin open' PROVE Users(s)' = NoUsers
        OBVIOUS
      <3>1. LastReference(s)
        BY <1>1, <1>2
      <3>2. mRefCount'[s] = 0
        BY <1>0, <1>1, <3>1 DEF LastReference, ConnTypes
      <3> QED
        BY <3>2, NobodyHolds
    <2> QED
      BY <1>1, <2>1 DEF UsedAreOpen, NoUsers
  <1>4. UnfoundAreCleaning'
    <2>1. ASSUME NEW t \in open' \ sockConnMap' PROVE t \in mCleaning' /\ mRefCount'[t] > 0
      <3>1. t \in Socks /\ t \in mCleaning /\ mRefCount[t] > 0 /\ t \notin F
        BY <1>0, <1>1, <2>1 DEF UnfoundAreCleaning, Busy, mapVars, ConnTypes
      <3>2. mRefCount'[t] > 0
        BY <1>0, <1>1, <1>2, <3>1 DEF LastReference, ConnTypes
      <3> QED
        BY <1>1, <3>1, <3>2
    <2> QED
      BY <1>1, <2>1 DEF UnfoundAreCleaning, Busy
  <1>5. MapsAgree'
    <2>1. \A t \in F : t \in mCleaning
      BY DEF LastReference
    <2> QED
      BY <1>0, <1>1, <2>1 DEF MapsAgree, mapVars
  <1> QED
    BY <1>3, <1>4, <1>5

LEMMA RemovesKeeps ==
    ASSUME ConnInv, UsedAreOpen, UnfoundAreCleaning, NEW s \in Socks, Removes(s)
    PROVE  UsedAreOpen' /\ UnfoundAreCleaning' /\ MapsAgree'
  <1>0. ConnTypes /\ MapsAgree /\ Typed
    BY DEF ConnInv, Typed
  <1>1. /\ epSockMap' = [e \in EndPoints |-> epSockMap[e] \ {s}]
        /\ sockConnMap' = sockConnMap \ {s}
        /\ mRefCount' = mRefCount
        /\ \A t \in Socks : Users(t)' = Users(t)
    BY <1>0, RemoveEffect DEF Removes, SameUsers
  <1>2. \/ /\ s \in sockConnMap /\ Busy(s)
           /\ open' = open /\ mCleaning' = mCleaning \cup {s}
        \/ /\ s \in sockConnMap /\ ~Busy(s)
           /\ open' = open \ {s} /\ mCleaning' = mCleaning \ {s}
        \/ /\ s \notin sockConnMap
           /\ open' = open /\ mCleaning' = mCleaning
    <2>1. /\ CleanupConn({}) => open' = open
          /\ CleanupConn({s}) => open' = open \ {s}
      <3>1. CleanupConn({}) => open' = open \ {}
        BY CleanupEffect
      <3>2. CleanupConn({s}) => open' = open \ {s}
        BY CleanupEffect
      <3> QED
        BY <3>1, <3>2
    <2>2. RemoveConn(s)
      BY DEF Removes
    <2> QED
      BY <1>0, <2>1, <2>2, RemoveEffect DEF connVars
  <1>3. UsedAreOpen'
    <2>1. ~Busy(s) => Users(s) = NoUsers
      <3>1. mRefCount[s] \in Nat
        BY HoldersCount DEF ConnInv, Refs
      <3> QED
        BY <3>1, NobodyHolds DEF Busy, ConnInv
    <2> QED
      BY <1>1, <1>2, <2>1 DEF UsedAreOpen, NoUsers
  <1>4. UnfoundAreCleaning'
    BY <1>0, <1>1, <1>2 DEF UnfoundAreCleaning, Busy, MapsAgree
  <1>5. MapsAgree'
    <2>1. \A e \in EndPoints : epSockMap'[e] = epSockMap[e] \ {s}
      BY <1>1
    <2>2. sockConnMap' \subseteq open' \ mCleaning'
      BY <1>0, <1>1, <1>2 DEF MapsAgree
    <2>3. UNION {epSockMap'[e] : e \in EndPoints} = sockConnMap'
      <3>1. UNION {epSockMap[e] : e \in EndPoints} = sockConnMap
        BY <1>0 DEF MapsAgree
      <3> QED
        BY <1>1, <2>1, <3>1
    <2>4. /\ \A e \in EndPoints : \A t, u \in epSockMap'[e] : t = u
          /\ \A e, f \in EndPoints : epSockMap'[e] \cap epSockMap'[f] # {} => e = f
      BY <1>0, <2>1 DEF MapsAgree
    <2> QED
      BY <2>2, <2>3, <2>4 DEF MapsAgree
  <1> QED
    BY <1>3, <1>4, <1>5

LEMMA ConnInvNext == ConnInv /\ [Next]_vars => ConnInv'
  <1> SUFFICES ASSUME ConnInv, [Next]_vars PROVE ConnInv'
    OBVIOUS
  <1>1. Typed /\ Typed' /\ Kinds /\ Refs'
    BY TypedNext, StepKinds, RefsNext DEF ConnInv
  <1>2. UsedAreOpen /\ UnfoundAreCleaning /\ MapsAgree /\ ConnTypes
    BY HeldAreUsed DEF ConnInv, Typed
  <1>3. UsedAreOpen' /\ UnfoundAreCleaning' /\ MapsAgree'
    <2>1. CASE KeepsConns
      BY <1>2, <2>1 DEF KeepsConns, SameUsers, UsedAreOpen, NoUsers, MapsAgree,
                        UnfoundAreCleaning, mapVars, Busy
    <2>2. ASSUME NEW s \in Socks, Finds(s)
          PROVE  UsedAreOpen' /\ UnfoundAreCleaning' /\ MapsAgree'
      <3>1. UsedAreOpen'
        BY <1>2, <2>2 DEF Finds, SameUsers, UsedAreOpen, NoUsers, MapsAgree
      <3>2. UnfoundAreCleaning'
        BY <1>2, <2>2 DEF Finds, Acquire, UnfoundAreCleaning, mapVars, Busy, ConnTypes
      <3>3. MapsAgree'
        BY <1>2, <2>2 DEF Finds, MapsAgree, mapVars
      <3> QED
        BY <3>1, <3>2, <3>3
    <2> QED
      BY <1>1, <1>2, <2>1, <2>2, MakesKeeps, ReleasesKeeps, RemovesKeeps DEF Kinds
  <1>4. (Typed => (HeldConnAlive <=> UsedAreOpen /\ UnfoundAreCleaning))'
    BY HeldAreUsed, PTL
  <1> QED
    BY <1>1, <1>3, <1>4 DEF ConnInv


LEMMA ConnInvInit == Init => ConnInv
  <1> SUFFICES ASSUME Init PROVE ConnInv
    OBVIOUS
  <1>1. Refs
    <2>1. \A s \in Socks : Callers(s) = {} /\ Senders(s) = {} /\ Receivers(s) = {}
      BY CommAssumption DEF Init, Callers, Senders, Receivers
    <2>2. \A s \in Socks : Holders(s) = Cardinality(Callers(s)) + Cardinality(Senders(s))
                                         + Cardinality(Receivers(s))
      BY DEF Holders, Callers, Senders, Receivers
    <2>3. \A s \in Socks : Holders(s) = 0
      BY <2>1, <2>2, FS_EmptySet
    <2> QED
      BY <2>3 DEF Init, Refs
  <1>2. HeldConnAlive
    BY DEF Init, HeldConnAlive
  <1>3. MapsAgree
    BY DEF Init, MapsAgree
  <1> QED
    BY <1>1, <1>2, <1>3, TypedInit DEF ConnInv

(* The inductive invariant of the connections holds: types, what each      *)
(* thread holds where, the counts, and both maps of ConnMgr.               *)
THEOREM ConnInvariant == Spec => []ConnInv
  BY ConnInvInit, ConnInvNext, PTL DEF Spec

(* A connection has one send and one receive thread at most.               *)
LEMMA HoldersBound ==
    ASSUME Typed, NEW s \in Socks
    PROVE  Holders(s) \in 0..Cardinality(Requests) + 2
  <1>1. Callers(s) \subseteq Requests /\ Senders(s) \subseteq {Lane(s)}
        /\ Receivers(s) \subseteq {Lane(s)}
    BY CommAssumption DEF Typed, SendTypes, RecvTypes, Callers, Senders, Receivers
  <1>2. /\ IsFiniteSet({Lane(s)}) /\ Cardinality({Lane(s)}) = 1
        /\ IsFiniteSet(Requests)
    BY FS_Singleton, CommAssumption
  <1>3. /\ Cardinality(Callers(s)) \in Nat /\ Cardinality(Requests) \in Nat
        /\ Cardinality(Senders(s)) \in Nat /\ Cardinality(Receivers(s)) \in Nat
        /\ Cardinality(Callers(s)) <= Cardinality(Requests)
        /\ Cardinality(Senders(s)) <= 1 /\ Cardinality(Receivers(s)) <= 1
    BY <1>1, <1>2, FiniteUsers, FS_Subset, FS_CardinalityType
  <1>4. Holders(s) = Cardinality(Callers(s)) + Cardinality(Senders(s))
                       + Cardinality(Receivers(s))
    BY DEF Holders, Callers, Senders, Receivers
  <1> QED
    BY <1>3, <1>4

(* mRefCount is at any moment the number of callers, send and receive      *)
(* threads that use the connection, whatever is removed or fails meanwhile;*)
(* and the types hold.                                                     *)
THEOREM CountsAreExact == Spec => []RefExact
  <1>1. ConnInv => RefExact
    <2> SUFFICES ASSUME ConnInv PROVE RefExact
      OBVIOUS
    <2>1. mRefCount \in [Socks -> 0..Cardinality(Requests) + 2]
      <3>1. \A s \in Socks : mRefCount[s] \in 0..Cardinality(Requests) + 2
        BY HoldersBound DEF ConnInv, Refs
      <3> QED
        BY <3>1 DEF ConnInv, Typed, ConnTypes
    <2>2. sockConnMap \subseteq open
      BY DEF ConnInv, MapsAgree
    <2>3. TypeOK
      BY <2>1, <2>2 DEF ConnInv, Typed, ConnTypes, DataTypes, EventTypes, QueueTypes,
                        CallTypes, SendTypes, RecvTypes, TypeOK
    <2> QED
      BY <2>3 DEF RefExact, ConnInv, Refs
  <1> QED
    BY <1>1, ConnInvariant, PTL

(* Conn::cleanup never deletes a connection that a thread uses, and one    *)
(* that can no longer be found is cleaned up by its last release.          *)
THEOREM NobodyUsesADeletedConn == Spec => []HeldConnAlive
  <1>1. ConnInv => HeldConnAlive
    BY DEF ConnInv
  <1> QED
    BY <1>1, ConnInvariant, PTL

(* sockConnMap and epSockMap of ConnMgr have the same sockets, one for an  *)
(* end point, and none that is being cleaned up.                           *)
THEOREM ConnMgrMapsAgree == Spec => []MapsAgree
  <1>1. ConnInv => MapsAgree
    BY DEF ConnInv
  <1> QED
    BY <1>1, ConnInvariant, PTL

-----------------------------------------------------------------------------
(***************************************************************************)
(* What becomes of the requests: none is lost, and the event of a request  *)
(* the server can read is completed once, as OneReply promises.            *)
(***************************************************************************)

(* Where a request is.                                                     *)
In(r, s) == r \in mSendEventMap[s] \/ recvCev[s] = r

Placed(r) ==
    /\ \A s \in Socks : In(r, s) =>
         /\ s \in open
         /\ cpc[r] \notin {"idle", "getConn", "addEntry"}
         /\ cconn[r] # Nil => s = cconn[r]
         /\ \A t \in Socks : In(r, t) => s = t
    /\ cpc[r] \in {"prepare", "notify", "release"} /\ reply[r] = "none"
         => In(r, cconn[r])
    /\ cpc[r] = "returned" /\ reply[r] = "none" => \E s \in Socks : In(r, s)

PlacedInv == \A r \in Requests : Placed(r)

-----------------------------------------------------------------------------
(* No request is lost.                                                     *)
Busily == {"addEntry", "prepare", "notify", "release", "failRelease"}

(* How the thread of a request may move on, but for AddEventEntry.         *)
CallMove(r) ==
    \/ cpc'[r] = cpc[r] /\ cconn'[r] = cconn[r]
    \/ cpc[r] = "idle" /\ cpc'[r] = "getConn"
    \/ cpc[r] = "getConn" /\ cpc'[r] = "addEntry"
    \/ cpc[r] \in {"getConn", "failComplete"} /\ cpc'[r] = "returned" /\ reply'[r] # "none"
         /\ cconn'[r] = cconn[r]
    \/ cpc[r] = "prepare" /\ cpc'[r] \in {"notify", "failRelease"} /\ cconn'[r] = cconn[r]
    \/ cpc[r] = "notify" /\ cpc'[r] = "release" /\ cconn'[r] = cconn[r]
    \/ cpc[r] = "release" /\ cpc'[r] = "returned" /\ cconn'[r] = Nil
    \/ cpc[r] = "failRelease" /\ cpc'[r] = "failComplete" /\ cconn'[r] = Nil

(* A step that brings r to no connection, and takes it from one only when  *)
(* it completes it or its caller is about to.                              *)
Keeps(r) ==
    /\ CallMove(r)
    /\ \A s \in Socks : /\ In(r, s)' => In(r, s) /\ s \in open'
                        /\ In(r, s) => \/ In(r, s)' \/ reply'[r] # "none"
                                       \/ cpc'[r] = "failRelease"
    /\ reply'[r] = "none" => reply[r] = "none"

LEMMA KeptPlaced ==
    ASSUME Typed, NEW r \in Requests, Placed(r), Keeps(r)
    PROVE  Placed(r)'
  <1>1. cpc[r] \in {"prepare", "notify", "release"} => cconn[r] \in Socks
    BY DEF Typed, CallTypes
  <1>2. cpc[r] = "getConn" => cconn[r] = Nil
    BY DEF Typed, CallTypes
  <1> QED
    BY <1>1, <1>2 DEF Placed, Keeps, CallMove

LEMMA CleanupPlaces ==
    ASSUME Typed, NEW F \in SUBSET Socks, CleanupConn(F), NEW r \in Requests
    PROVE  /\ open' = open \ F
           /\ \A s \in Socks : In(r, s)' <=> In(r, s) /\ s \notin F
           /\ \A s \in F : In(r, s) => reply'[r] # "none"
           /\ reply'[r] = "none" => reply[r] = "none"
  <1>1. \A s \in Socks : In(r, s)' <=> In(r, s) /\ s \notin F
    BY CleanupEffect, CommAssumption DEF In
  <1>2. \A s \in F : In(r, s) => r \in FailedByCleanup(s)
    BY CommAssumption DEF In, FailedByCleanup, Receiving
  <1>3. /\ \A s \in F : r \in FailedByCleanup(s) => reply'[r] # "none"
        /\ reply'[r] = "none" => reply[r] = "none"
    BY CleanupEffect
  <1> QED
    BY <1>1, <1>2, <1>3, CleanupEffect

LEMMA ReleasePlaces ==
    ASSUME Typed, NEW c \in Socks, Release(c), NEW r \in Requests, Placed(r), CallMove(r)
    PROVE  Keeps(r)
  <1>1. PICK F \in SUBSET Socks : CleanupConn(F)
    BY ReleaseEffect
  <1> QED
    BY <1>1, CleanupPlaces DEF Keeps, Placed

LEMMA RemovePlaces ==
    ASSUME Typed, NEW c \in Socks, RemoveConn(c), NEW r \in Requests, Placed(r),
           UNCHANGED callVars
    PROVE  Keeps(r)
  <1>1. CASE \E F \in SUBSET Socks : CleanupConn(F)
    BY <1>1, CleanupPlaces DEF Keeps, Placed, CallMove, callVars
  <1>2. CASE UNCHANGED <<eventVars, connVars>>
    BY <1>2 DEF Keeps, Placed, CallMove, callVars, eventVars, connVars, In
  <1> QED
    BY <1>1, <1>2, RemoveEffect

LEMMA CompletePlaces ==
    ASSUME Typed, NEW S, NEW how \in {"answer", "error"}, CompleteEvent(S, how),
           NEW r \in Requests
    PROVE  /\ r \in S => reply'[r] # "none"
           /\ r \notin S => reply'[r] = reply[r]
           /\ reply'[r] = "none" => reply[r] = "none"
  BY DEF CompleteEvent

LEMMA StepKeeps ==
    ASSUME ConnInv, PlacedInv, [Next]_vars, NEW r \in Requests
    PROVE  Keeps(r) \/ AddEventEntry(r)
  <1>0. /\ Placed(r) /\ Typed /\ HeldConnAlive
        /\ cpc \in [Requests -> {"idle", "getConn", "addEntry", "prepare", "notify",
                             "release", "failRelease", "failComplete", "returned"}]
        /\ cconn \in [Requests -> Socks \cup {Nil}]
    BY DEF PlacedInv, ConnInv, Typed, CallTypes
  <1>d. /\ mSendEventMap \in [Socks -> SUBSET Requests]
        /\ recvCev \in [Socks -> Requests \cup {Nil}]
        /\ Nil \notin Requests /\ Nil \notin Socks
    BY <1>0, CommAssumption DEF Typed, DataTypes
  <1>2. ASSUME NEW q \in Requests,
               Ask(q) \/ FindConn(q) \/ \E s \in Socks : MakeConn(q, s)
        PROVE  Keeps(r)
    <2>1. /\ UNCHANGED <<mSendEventMap, recvCev, reply>> /\ open \subseteq open'
          /\ CallMove(r)
      BY <1>0, <1>2 DEF Ask, FindConn, MakeConn, Connected, OpenConn, CallMove,
                        connVars, eventVars
    <2> QED
      BY <1>0, <2>1 DEF Keeps, In, Placed
  <1>3. ASSUME NEW q \in Requests, FailConn(q) \/ CompleteFailed(q) PROVE Keeps(r)
    <2>1. CompleteEvent({q}, "error") /\ UNCHANGED <<mSendEventMap, recvCev, open, cconn>>
      BY <1>3 DEF FailConn, CompleteFailed, connVars
    <2>2. reply'[r] = "none" => reply[r] = "none"
      BY <1>0, <2>1, CompletePlaces
    <2>3. CallMove(r)
      BY <1>0, <1>3, <2>1, CompletePlaces DEF FailConn, CompleteFailed, CallMove
    <2> QED
      BY <1>0, <2>1, <2>2, <2>3 DEF Keeps, In, Placed
  <1>4. ASSUME NEW q \in Requests, AddEventEntry(q), q # r PROVE Keeps(r)
    <2>1. UNCHANGED <<recvCev, reply, open>> /\ CallMove(r)
      BY <1>0, <1>4 DEF AddEventEntry, eventVars, CallMove
    <2>2. \A s \in Socks : r \in mSendEventMap'[s] <=> r \in mSendEventMap[s]
      BY <1>d, <1>4 DEF AddEventEntry
    <2> QED
      BY <1>0, <2>1, <2>2 DEF Keeps, In, Placed
  <1>5. ASSUME NEW q \in Requests, PrepareFails(q) PROVE Keeps(r)
    <2>1. UNCHANGED <<recvCev, reply, open>> /\ CallMove(r)
      BY <1>0, <1>5 DEF PrepareFails, eventVars, CallMove
    <2>2. \A s \in Socks : /\ r \in mSendEventMap'[s] => r \in mSendEventMap[s]
                           /\ q # r /\ r \in mSendEventMap[s] => r \in mSendEventMap'[s]
      BY <1>d, <1>5 DEF PrepareFails, RemoveEventEntry
    <2>3. q = r => cpc'[r] = "failRelease"
      BY <1>0, <1>5 DEF PrepareFails
    <2> QED
      BY <1>0, <2>1, <2>2, <2>3 DEF Keeps, In, Placed
  <1>6. ASSUME NEW q \in Requests, PostSend(q) \/ PrepareSend(q) PROVE Keeps(r)
    <2>1. UNCHANGED <<mSendEventMap, recvCev, reply, open>> /\ CallMove(r)
      BY <1>0, <1>6 DEF PostSend, PrepareSend, eventVars, connVars, CallMove
    <2> QED
      BY <1>0, <2>1 DEF Keeps, In, Placed
  <1>7. ASSUME NEW q \in Requests, ReleaseConn(q) PROVE Keeps(r)
    <2>1. CallMove(r)
      BY <1>0, <1>7 DEF ReleaseConn, CallMove
    <2>2. cconn[q] \in Socks /\ Release(cconn[q])
      BY <1>0, <1>7, HeldSocks DEF ReleaseConn
    <2> QED
      BY <1>0, <2>1, <2>2, ReleasePlaces
  <1>8. ASSUME NEW l \in Lanes, SendRelease(l) \/ RecvRelease(l) PROVE Keeps(r)
    <2>1. CallMove(r)
      BY <1>8 DEF SendRelease, RecvRelease, callVars, CallMove
    <2> QED
      BY <1>0, <1>8, <2>1, HeldSocks, ReleasePlaces DEF SendRelease, RecvRelease
  <1>9. ASSUME NEW l \in Lanes, RecvRemove(l) PROVE Keeps(r)
    BY <1>0, <1>9, HeldSocks, RemovePlaces DEF RecvRemove
  <1>10. ASSUME NEW p \in Pollers, NEW s \in Socks, HandleError(p, s) PROVE Keeps(r)
    BY <1>0, <1>10, RemovePlaces DEF HandleError
  <1>11. ASSUME NEW e \in EndPoints, DelConn(e) PROVE Keeps(r)
    BY <1>0, <1>11, FoundConn, RemovePlaces DEF DelConn, Typed
  <1>12. ASSUME NEW l \in Lanes, SendBroken(l) PROVE Keeps(r)
    <2> DEFINE s == sconn[l]
               v == mCurSendBlock[s]
    <2>1. s \in Socks /\ UNCHANGED <<recvCev, open, callVars>>
      BY <1>0, <1>12, HeldSocks DEF SendBroken
    <2>2. CASE v.last
      <3>1. /\ CompleteEvent({v.req}, "error")
            /\ mSendEventMap' = [mSendEventMap EXCEPT ![s] = mSendEventMap[s] \ {v.req}]
        BY <1>12, <2>2 DEF SendBroken, SendErrorEntry
      <3>2. /\ r = v.req => reply'[r] # "none"
            /\ reply'[r] = "none" => reply[r] = "none"
        BY <1>0, <3>1, CompletePlaces
      <3>3. \A t \in Socks : /\ r \in mSendEventMap'[t] => r \in mSendEventMap[t]
                             /\ r # v.req => mSendEventMap'[t] = mSendEventMap[t] \ {v.req}
                                               \/ mSendEventMap'[t] = mSendEventMap[t]
        BY <1>d, <2>1, <3>1
      <3> QED
        BY <1>0, <2>1, <3>2, <3>3 DEF Keeps, In, Placed, CallMove, callVars
    <2>3. CASE ~v.last
      <3>1. UNCHANGED <<mSendEventMap, reply>>
        BY <1>12, <2>3 DEF SendBroken, eventVars
      <3> QED
        BY <1>0, <2>1, <3>1 DEF Keeps, In, Placed, CallMove, callVars
    <2> QED
      BY <2>2, <2>3
  <1>13. ASSUME NEW l \in Lanes, NEW q \in Requests, RecvRsp(l, q) PROVE Keeps(r)
    <2> DEFINE s == rconn[l]
    <2>1. s \in Socks /\ UNCHANGED <<reply, open, callVars>> /\ recvCev[s] = Nil
      BY <1>0, <1>13, HeldSocks DEF RecvRsp
    <2>2. \A t \in Socks : In(r, t)' <=> In(r, t)
      <3>1. CASE q \in mSendEventMap[s]
        <4>1. /\ mSendEventMap' = [mSendEventMap EXCEPT ![s] = @ \ {q}]
              /\ recvCev' = [recvCev EXCEPT ![s] = q]
          BY <1>13, <3>1 DEF RecvRsp, RemoveEventEntry
        <4> QED
          BY <1>d, <2>1, <3>1, <4>1 DEF In
      <3>2. CASE q \notin mSendEventMap[s]
        BY <1>13, <3>2 DEF RecvRsp, In
      <3> QED
        BY <3>1, <3>2
    <2> QED
      BY <1>0, <2>1, <2>2 DEF Keeps, Placed, CallMove, callVars
  <1>14. ASSUME NEW l \in Lanes, EventDone(l) \/ RecvBroken(l) PROVE Keeps(r)
    <2> DEFINE s == rconn[l]
    <2>1. s \in Socks /\ UNCHANGED <<mSendEventMap, open, callVars>>
          /\ recvCev' = [recvCev EXCEPT ![s] = Nil]
      BY <1>0, <1>14, HeldSocks DEF EventDone, RecvBroken
    <2>2. PICK how \in {"answer", "error"} : CompleteEvent(Receiving(s), how)
      <3>1. CASE EventDone(l)
        <4>1. CompleteEvent({recvCev[s]}, "answer") /\ recvCev[s] # Nil
          BY <3>1 DEF EventDone
        <4>2. Receiving(s) = {recvCev[s]}
          BY <4>1 DEF Receiving
        <4> QED
          BY <4>1, <4>2
      <3>2. CASE RecvBroken(l)
        BY <3>2 DEF RecvBroken
      <3> QED
        BY <1>14, <3>1, <3>2
    <2>3. /\ reply'[r] = "none" => reply[r] = "none"
          /\ recvCev[s] = r => reply'[r] # "none"
      BY <1>0, <1>d, <2>2, CompletePlaces DEF Receiving
    <2> QED
      BY <1>0, <1>d, <2>1, <2>3 DEF Keeps, In, Placed, CallMove, callVars
  <1>15. CASE UNCHANGED <<mSendEventMap, recvCev, reply, open, callVars>>
    BY <1>0, <1>15 DEF Keeps, In, Placed, CallMove, callVars
  <1> QED
    BY <1>2, <1>3, <1>4, <1>5, <1>6, <1>7, <1>8, <1>9, <1>10, <1>11, <1>12,
       <1>13, <1>14, <1>15
       DEF Next, CallerStep, SendStep, RecvStep, vars, connVars, eventVars, SendFind,
           SendNext, SendUnavail, SendDone, SendCallback, RecvFind, RecvUnavail,
           PollError, PollSend, PollRecv, Break, AtRest

LEMMA PlacedNext ==
    ASSUME ConnInv, PlacedInv, [Next]_vars, NEW r \in Requests
    PROVE  Placed(r)'
  <1>0. /\ Placed(r) /\ Typed /\ HeldConnAlive
        /\ cpc \in [Requests -> {"idle", "getConn", "addEntry", "prepare", "notify",
                             "release", "failRelease", "failComplete", "returned"}]
        /\ cconn \in [Requests -> Socks \cup {Nil}]
    BY DEF PlacedInv, ConnInv, Typed, CallTypes
  <1>d. /\ mSendEventMap \in [Socks -> SUBSET Requests]
        /\ recvCev \in [Socks -> Requests \cup {Nil}]
        /\ Nil \notin Requests /\ Nil \notin Socks
    BY <1>0, CommAssumption DEF Typed, DataTypes
  <1>1. ASSUME AddEventEntry(r) PROVE Placed(r)'
    <2>1. cconn[r] \in Socks /\ cpc[r] = "addEntry"
      BY <1>0, <1>1, HeldSocks DEF AddEventEntry
    <2>2. \A s \in Socks : In(r, s)' <=> s = cconn[r]
      BY <1>0, <1>d, <1>1, <2>1 DEF AddEventEntry, In, Placed
    <2>3. cpc'[r] = "prepare" /\ cconn' = cconn /\ open' = open
      BY <1>0, <1>1 DEF AddEventEntry
    <2>4. cconn[r] \in open
      BY <1>0, <1>d, <2>1 DEF HeldConnAlive
    <2> QED
      BY <2>1, <2>2, <2>3, <2>4 DEF Placed
  <1>2. CASE Keeps(r)
    BY <1>0, <1>2, KeptPlaced
  <1> QED
    BY <1>1, <1>2, StepKeeps

LEMMA PlacedInit == Init => PlacedInv
  BY CommAssumption DEF Init, PlacedInv, Placed, In

(* A request whose caller has returned and that was neither answered nor   *)
(* failed is in one connection that exists, whose answer or cleanup will   *)
(* find it there.                                                          *)
THEOREM RequestsAreKept == Spec => []NoRequestLost
  <1>1. ConnInv /\ PlacedInv /\ [Next]_vars => PlacedInv'
    BY PlacedNext DEF PlacedInv
  <1>2. Spec => []PlacedInv
    BY <1>1, PlacedInit, ConnInvariant, PTL DEF Spec
  <1>3. PlacedInv => NoRequestLost
    <2>1. \A r \in Requests, s \in Socks :
            In(r, s) <=> r \in mSendEventMap[s] \cup Receiving(s)
      BY CommAssumption DEF In, Receiving
    <2> QED
      BY <2>1 DEF PlacedInv, Placed, NoRequestLost
  <1> QED
    BY <1>2, <1>3, PTL

-----------------------------------------------------------------------------
(* The way of a request the server can read: it has one IoVec, and it is   *)
(* completed once.                                                         *)
Has(q, r) == \E i \in DOMAIN q : q[i].req = r
Alone(q, r) ==
    \A i, j \in DOMAIN q : q[i].req = r /\ q[j].req = r => i = j /\ q[i].last

Queued(r, s) == Has(mSendQ[s], r)
Sending(r, s) == mCurSendBlock[s] # Nil /\ mCurSendBlock[s].req = r
Awaited(r, s) == r \in mSendEventMap[s]
Answered(r, s) == r \in wire[s]
Received(r, s) == recvCev[s] = r
Travels(r, s) == Queued(r, s) \/ Sending(r, s) \/ Answered(r, s)

Posted(r) == cpc[r] \in {"notify", "release", "returned"}

WayAt(r, s) ==
    /\ Travels(r, s) => Awaited(r, s) /\ Posted(r)
    /\ Queued(r, s) => ~Sending(r, s) /\ ~Answered(r, s)
    /\ Sending(r, s) => ~Answered(r, s) /\ mCurSendBlock[s].last
    /\ Alone(mSendQ[s], r)
    /\ Answered(r, s) \/ Received(r, s) => r \in served
    /\ Received(r, s) => ~Awaited(r, s)
    /\ Awaited(r, s) \/ Received(r, s) => reply[r] = "none"

OneWay(r) ==
    /\ \A s \in Socks : WayAt(r, s)
    /\ r \in served => Posted(r)
    /\ ~Posted(r) => reply[r] = "none"
    /\ cpc[r] \in {"failRelease", "failComplete"} =>
         \A s \in Socks : ~Awaited(r, s) /\ ~Received(r, s)

OneWayInv == \A r \in Prompt : OneWay(r)

LEMMA QueueWithout ==
    ASSUME NEW q \in Seq(IoVecs), q # <<>>, NEW r, Alone(q, r)
    PROVE  /\ Alone(Tail(q), r)
           /\ Has(q, r) <=> Head(q).req = r \/ Has(Tail(q), r)
           /\ Head(q).req = r => Head(q).last /\ ~Has(Tail(q), r)
  <1>1. /\ Len(q) \in Nat /\ Len(q) > 0 /\ DOMAIN q = 1..Len(q)
        /\ DOMAIN Tail(q) = 1..Len(q) - 1
        /\ \A i \in DOMAIN Tail(q) : i + 1 \in DOMAIN q /\ Tail(q)[i] = q[i + 1]
        /\ Head(q) = q[1]
    OBVIOUS
  <1>2. \A i \in DOMAIN q : i = 1 \/ (i - 1 \in DOMAIN Tail(q) /\ Tail(q)[i - 1] = q[i])
    BY <1>1
  <1>3. Alone(Tail(q), r)
    BY <1>1 DEF Alone
  <1>4. Has(q, r) <=> Head(q).req = r \/ Has(Tail(q), r)
    <2>1. Has(q, r) => Head(q).req = r \/ Has(Tail(q), r)
      BY <1>1, <1>2 DEF Has
    <2>2. Has(Tail(q), r) => Has(q, r)
      BY <1>1 DEF Has
    <2>3. Head(q).req = r => Has(q, r)
      BY <1>1 DEF Has
    <2> QED
      BY <2>1, <2>2, <2>3
  <1>5. Head(q).req = r => Head(q).last /\ ~Has(Tail(q), r)
    BY <1>1 DEF Has, Alone
  <1> QED
    BY <1>3, <1>4, <1>5

LEMMA QueueWith ==
    ASSUME NEW q \in Seq(IoVecs), NEW w \in Seq(IoVecs), NEW r, Alone(q, r)
    PROVE  /\ ~Has(w, r) => Alone(q \o w, r) /\ (Has(q \o w, r) <=> Has(q, r))
           /\ ~Has(q, r) /\ Alone(w, r) => Alone(q \o w, r)
  <1> DEFINE m == Len(q)
  <1>1. /\ m \in Nat /\ Len(w) \in Nat /\ DOMAIN q = 1..m /\ DOMAIN w = 1..Len(w)
        /\ DOMAIN (q \o w) = 1..m + Len(w)
        /\ \A i \in DOMAIN q : i \in DOMAIN (q \o w) /\ (q \o w)[i] = q[i]
    OBVIOUS
  <1>2. \A i \in DOMAIN (q \o w) :
          \/ i \in DOMAIN q /\ (q \o w)[i] = q[i]
          \/ i - m \in DOMAIN w /\ (q \o w)[i] = w[i - m]
    OBVIOUS
  <1> HIDE DEF m
  <1>3. ASSUME ~Has(w, r) PROVE Alone(q \o w, r) /\ (Has(q \o w, r) <=> Has(q, r))
    <2>1. \A i \in DOMAIN (q \o w) :
            (q \o w)[i].req = r => i \in DOMAIN q /\ (q \o w)[i] = q[i]
      BY <1>2, <1>3 DEF Has
    <2> QED
      BY <1>1, <2>1 DEF Has, Alone
  <1>4. ASSUME ~Has(q, r), Alone(w, r) PROVE Alone(q \o w, r)
    <2>1. \A i \in DOMAIN (q \o w) :
            (q \o w)[i].req = r => i - m \in DOMAIN w /\ (q \o w)[i] = w[i - m]
      BY <1>2, <1>4 DEF Has
    <2>2. SUFFICES ASSUME NEW i \in DOMAIN (q \o w), NEW j \in DOMAIN (q \o w),
                          (q \o w)[i].req = r, (q \o w)[j].req = r
                   PROVE  i = j /\ (q \o w)[i].last
      BY DEF Alone
    <2>3. i - m = j - m /\ w[i - m].last
      BY <1>4, <2>1, <2>2 DEF Alone
    <2> QED
      BY <1>1, <2>1, <2>2, <2>3
  <1> QED
    BY <1>3, <1>4

(* Nothing of r has come to s, and its entry is there while it travels.    *)
NothingNew(r, s) ==
    /\ Awaited(r, s)' => Awaited(r, s)
    /\ Received(r, s)' => Received(r, s)
    /\ Answered(r, s)' => Answered(r, s)
    /\ Queued(r, s)' => Queued(r, s)
    /\ Sending(r, s)' => Sending(r, s) /\ mCurSendBlock'[s] = mCurSendBlock[s]
    /\ Alone(mSendQ[s], r)'
    /\ Travels(r, s)' /\ Awaited(r, s) => Awaited(r, s)'

(* How an event is completed: at most once, and answered only by the       *)
(* server.                                                                 *)
Fate(r) ==
    \/ reply'[r] = reply[r]
    \/ /\ reply[r] = "none" /\ reply'[r] = "error" /\ cpc[r] # "idle"
    \/ /\ reply[r] = "none" /\ reply'[r] = "answer" /\ r \in served
       /\ \E l \in Lanes : EventDone(l)

(* The thread of a request neither goes back nor, once the request is      *)
(* posted, lets go of it before it returns.                                *)
LEMMA Moves ==
    ASSUME NEW r \in Requests, CallMove(r)
    PROVE  /\ Posted(r) => Posted(r)'
           /\ cpc'[r] \in {"failRelease", "failComplete"} /\ Posted(r)' => FALSE
           /\ cpc'[r] = "failComplete" => cpc[r] \in {"failRelease", "failComplete"}
           /\ cpc'[r] = "failRelease" => cpc[r] \in {"prepare", "failRelease"}
  BY DEF CallMove, Posted

LEMMA WayAtKept ==
    ASSUME NEW r, NEW s, WayAt(r, s), NothingNew(r, s), Posted(r) => Posted(r)',
           r \in served => r \in served',
           Awaited(r, s)' \/ Received(r, s)' => reply'[r] = reply[r]
    PROVE  WayAt(r, s)'
  BY DEF WayAt, NothingNew, Travels

LEMMA StaysAt ==
    ASSUME NEW r, NEW s, WayAt(r, s), Posted(r) => Posted(r)', r \in served => r \in served',
           reply'[r] = reply[r], mSendEventMap'[s] = mSendEventMap[s],
           recvCev'[s] = recvCev[s], wire'[s] = wire[s], mSendQ'[s] = mSendQ[s],
           mCurSendBlock'[s] = mCurSendBlock[s]
    PROVE  WayAt(r, s)'
  BY DEF WayAt, Awaited, Received, Answered, Queued, Sending, Travels, Has, Alone

LEMMA WayKept ==
    ASSUME NEW r \in Requests, OneWay(r), CallMove(r),
           \A s \in Socks : NothingNew(r, s),
           r \in served' <=> r \in served,
           \A s \in Socks : Awaited(r, s)' \/ Received(r, s)' => reply'[r] = reply[r],
           Posted(r)' \/ reply'[r] = reply[r],
           cpc[r] = "prepare" /\ cpc'[r] = "failRelease" =>
             \A s \in Socks : ~Awaited(r, s)'
    PROVE  OneWay(r)'
  <1>1. ASSUME NEW s \in Socks PROVE WayAt(r, s)'
    BY Moves, WayAtKept DEF OneWay
  <1>2. r \in served' => Posted(r)'
    BY Moves DEF OneWay
  <1>3. ~Posted(r)' => reply'[r] = "none"
    BY Moves DEF OneWay
  <1>4. ASSUME cpc'[r] \in {"failRelease", "failComplete"}, NEW s \in Socks
        PROVE  ~Awaited(r, s)' /\ ~Received(r, s)'
    <2>1. CASE cpc[r] \in {"failRelease", "failComplete"}
      BY <2>1 DEF OneWay, NothingNew
    <2>2. CASE cpc[r] = "prepare" /\ cpc'[r] = "failRelease"
      <3>1. ~Received(r, s)
        BY <2>2 DEF OneWay, WayAt, Posted
      <3> QED
        BY <2>2, <3>1 DEF NothingNew
    <2> QED
      BY <1>4, <2>1, <2>2, Moves
  <1> QED
    BY <1>1, <1>2, <1>3, <1>4 DEF OneWay

LEMMA NothingMoves ==
    ASSUME NEW r \in Requests, NEW s \in Socks, OneWay(r),
           UNCHANGED <<mSendEventMap, recvCev, wire, mSendQ, mCurSendBlock>>
    PROVE  NothingNew(r, s)
  BY DEF NothingNew, OneWay, WayAt, Awaited, Received, Answered, Queued, Sending, Travels,
         Has, Alone

(* Conn::cleanup completes the event of r, if it has it, with an error.    *)
LEMMA CleanupWay ==
    ASSUME Typed, NEW F \in SUBSET Socks, CleanupConn(F), NEW r \in Requests, OneWay(r)
    PROVE  /\ \A s \in Socks : NothingNew(r, s)
           /\ \A s \in F : ~Awaited(r, s)' /\ ~Received(r, s)'
           /\ \/ reply'[r] = reply[r]
              \/ /\ reply[r] = "none" /\ reply'[r] = "error"
                 /\ \E s \in F : Awaited(r, s) \/ Received(r, s)
  <1>0. Nil \notin Requests /\ Nil \notin Socks
    BY CommAssumption
  <1>1. ASSUME NEW s \in F PROVE ~Awaited(r, s)' /\ ~Received(r, s)' /\ NothingNew(r, s)
    <2>1. /\ mSendQ'[s] = <<>> /\ mCurSendBlock'[s] = Nil /\ mSendEventMap'[s] = {}
          /\ recvCev'[s] = Nil /\ wire'[s] = {}
      BY <1>1, CleanupEffect
    <2> QED
      BY <1>0, <2>1 DEF NothingNew, Awaited, Received, Answered, Queued, Sending, Travels,
                        Has, Alone
  <1>2. ASSUME NEW s \in Socks \ F PROVE NothingNew(r, s)
    <2>1. /\ mSendQ'[s] = mSendQ[s] /\ mCurSendBlock'[s] = mCurSendBlock[s]
          /\ mSendEventMap'[s] = mSendEventMap[s]
          /\ recvCev'[s] = recvCev[s] /\ wire'[s] = wire[s]
      BY <1>2, CleanupEffect
    <2> QED
      BY <2>1 DEF NothingNew, OneWay, WayAt, Awaited, Received, Answered, Queued, Sending,
                  Travels, Has, Alone
  <1>3. ASSUME NEW s \in F
        PROVE  /\ r \in FailedByCleanup(s) => Awaited(r, s) \/ Received(r, s)
               /\ r \notin Receiving(s) \cap Unsent(s)
    <2>1. r \in Unsent(s) => Awaited(r, s)
      <3>1. r \in Unsent(s) => Travels(r, s)
        BY DEF Unsent, Travels, Queued, Sending, Has
      <3> QED
        BY <1>3, <3>1 DEF OneWay, WayAt
    <2>2. r \in Receiving(s) => Received(r, s) /\ ~Awaited(r, s)
      BY <1>0, <1>3 DEF Receiving, Received, OneWay, WayAt
    <2> QED
      BY <2>1, <2>2 DEF FailedByCleanup, Awaited
  <1>4. reply'[r] = IF \A s \in F : r \notin FailedByCleanup(s) THEN reply[r]
                    ELSE IF reply[r] = "none"
                              /\ \A s \in F : r \notin Receiving(s) \cap Unsent(s)
                         THEN "error" ELSE "twice"
    BY CleanupEffect
  <1>5. CASE \A s \in F : r \notin FailedByCleanup(s)
    BY <1>1, <1>2, <1>4, <1>5
  <1>6. CASE \E s \in F : r \in FailedByCleanup(s)
    <2>1. PICK s \in F : Awaited(r, s) \/ Received(r, s)
      BY <1>3, <1>6
    <2>2. reply[r] = "none"
      BY <2>1 DEF OneWay, WayAt
    <2> QED
      BY <1>1, <1>2, <1>3, <1>4, <1>6, <2>1, <2>2
  <1> QED
    BY <1>5, <1>6

LEMMA CleanupOneWay ==
    ASSUME Typed, HeldConnAlive', NEW r \in Requests, Placed(r), OneWay(r), CallMove(r),
           cpc[r] # "prepare" \/ cpc'[r] # "failRelease",
           UNCHANGED served, NEW F \in SUBSET Socks, CleanupConn(F)
    PROVE  OneWay(r)' /\ Fate(r)
  <1>1. Nil \notin Socks
    BY CommAssumption
  <1>2. ASSUME NEW s \in F, Awaited(r, s) \/ Received(r, s)
        PROVE  cpc[r] # "idle" /\ Posted(r)'
    <2>1. /\ cpc[r] \notin {"idle", "getConn", "addEntry"}
          /\ cconn[r] # Nil => s = cconn[r]
      BY <1>2 DEF Placed, In, Awaited, Received
    <2>2. cpc[r] \notin {"failRelease", "failComplete"}
      BY <1>2 DEF OneWay
    <2>3. cpc[r] # "prepare"
      <3>1. SUFFICES ASSUME cpc[r] = "prepare" PROVE FALSE
        OBVIOUS
      <3>2. cconn[r] # Nil /\ cconn'[r] = cconn[r]
        BY <3>1 DEF Typed, CallTypes, CallMove
      <3>3. s \in open'
        BY <1>1, <1>2, <2>1, <3>2 DEF HeldConnAlive
      <3> QED
        BY <3>3, CleanupEffect
    <2>4. Posted(r)
      BY <2>1, <2>2, <2>3 DEF Typed, CallTypes, Posted
    <2> QED
      BY <2>1, <2>4, Moves
  <1>3. /\ \A s \in Socks : NothingNew(r, s)
        /\ \A s \in F : ~Awaited(r, s)' /\ ~Received(r, s)'
        /\ \/ reply'[r] = reply[r]
           \/ /\ reply[r] = "none" /\ reply'[r] = "error"
              /\ \E s \in F : Awaited(r, s) \/ Received(r, s)
    BY CleanupWay
  <1>4. CASE reply'[r] = reply[r]
    BY <1>3, <1>4, WayKept DEF Fate
  <1>5. CASE reply'[r] # reply[r]
    <2>1. PICK s \in F : Awaited(r, s) \/ Received(r, s)
      BY <1>3, <1>5
    <2>2. reply[r] = "none" /\ reply'[r] = "error" /\ cpc[r] # "idle" /\ Posted(r)'
      BY <1>2, <1>3, <1>5, <2>1
    <2>3. ASSUME NEW t \in Socks PROVE ~Awaited(r, t)' /\ ~Received(r, t)'
      <3>1. In(r, t)' => In(r, t)
        BY <1>3 DEF NothingNew, In, Awaited, Received
      <3>2. In(r, t) => t = s
        BY <2>1 DEF Placed, In, Awaited, Received
      <3> QED
        BY <1>3, <3>1, <3>2 DEF In, Awaited, Received
    <2>4. OneWay(r)'
      BY <1>3, <2>2, <2>3, WayKept
    <2> QED
      BY <2>2, <2>4 DEF Fate
  <1> QED
    BY <1>4, <1>5

LEMMA ReleaseOneWay ==
    ASSUME Typed, HeldConnAlive', NEW c \in Socks, Release(c), UNCHANGED served,
           NEW r \in Requests, Placed(r), OneWay(r), CallMove(r),
           cpc[r] # "prepare" \/ cpc'[r] # "failRelease"
    PROVE  OneWay(r)' /\ Fate(r)
  <1>1. PICK F \in SUBSET Socks : CleanupConn(F)
    BY ReleaseEffect
  <1> QED
    BY <1>1, CleanupOneWay

LEMMA RemoveOneWay ==
    ASSUME Typed, HeldConnAlive', NEW c \in Socks, RemoveConn(c), UNCHANGED served,
           NEW r \in Requests, Placed(r), OneWay(r), UNCHANGED callVars
    PROVE  OneWay(r)' /\ Fate(r)
  <1>0. CallMove(r) /\ cpc' = cpc
    BY DEF CallMove, callVars
  <1>1. CASE \E F \in SUBSET Socks : CleanupConn(F)
    BY <1>0, <1>1, CleanupOneWay
  <1>2. CASE UNCHANGED <<eventVars, connVars>>
    <2>1. \A s \in Socks : NothingNew(r, s)
      BY <1>2, NothingMoves DEF connVars
    <2>2. UNCHANGED reply
      BY <1>2 DEF eventVars
    <2> QED
      BY <1>0, <2>1, <2>2, WayKept DEF Fate
  <1> QED
    BY <1>1, <1>2, RemoveEffect

-----------------------------------------------------------------------------
(* Every step keeps the way of r.                                          *)
Goes(r) == OneWay(r)' /\ Fate(r)

LEMMA QuietStep ==
    ASSUME NEW r \in Requests, OneWay(r), CallMove(r),
           UNCHANGED <<mSendEventMap, recvCev, wire, mSendQ, mCurSendBlock, reply, served>>,
           cpc[r] # "prepare" \/ cpc'[r] # "failRelease"
    PROVE  Goes(r)
  BY NothingMoves, WayKept DEF Goes, Fate

(* The data of the connections, for the steps that change them.            *)
LEMMA ConnData ==
    ASSUME Typed
    PROVE  /\ mSendQ \in [Socks -> Seq(IoVecs)]
           /\ mCurSendBlock \in [Socks -> IoVecs \cup {Nil}]
           /\ mSendEventMap \in [Socks -> SUBSET Requests]
           /\ recvCev \in [Socks -> Requests \cup {Nil}]
           /\ wire \in [Socks -> SUBSET Requests]
           /\ reply \in [Requests -> {"none", "answer", "error", "twice"}]
           /\ cpc \in [Requests -> {"idle", "getConn", "addEntry", "prepare", "notify",
                             "release", "failRelease", "failComplete", "returned"}]
           /\ Nil \notin Requests /\ Nil \notin Socks
           /\ \A v \in IoVecs : v # Nil => v.req \in Requests
  BY CommAssumption DEF Typed, DataTypes, EventTypes, CallTypes, IoVecs

LEMMA OwnEntry ==
    ASSUME Typed, NEW r \in Requests, Placed(r), OneWay(r), AddEventEntry(r)
    PROVE  Goes(r)
  <1>1. /\ cpc[r] = "addEntry" /\ cpc'[r] = "prepare"
        /\ UNCHANGED <<recvCev, wire, mSendQ, mCurSendBlock, reply, served>>
    BY ConnData DEF AddEventEntry, eventVars
  <1>2. reply[r] = "none" /\ r \notin served /\ ~Posted(r) /\ ~Posted(r)'
    BY <1>1 DEF OneWay, Posted
  <1>3. ASSUME NEW s \in Socks PROVE WayAt(r, s)'
    <2>1. WayAt(r, s) /\ ~Travels(r, s) /\ ~Received(r, s)
      BY <1>1, <1>2 DEF OneWay, WayAt
    <2>2. ~Travels(r, s)' /\ ~Received(r, s)' /\ Alone(mSendQ[s], r)'
      BY <1>1, <2>1 DEF WayAt, Travels, Queued, Sending, Answered, Received, Has, Alone
    <2> QED
      BY <1>1, <1>2, <2>2 DEF WayAt, Travels
  <1> QED
    BY <1>1, <1>2, <1>3 DEF Goes, Fate, OneWay

LEMMA OthersEntry ==
    ASSUME Typed, NEW r \in Requests, OneWay(r), CallMove(r),
           NEW q \in Requests, AddEventEntry(q), q # r
    PROVE  Goes(r)
  <1>1. UNCHANGED <<recvCev, wire, mSendQ, mCurSendBlock, reply, served>> /\ cpc'[r] = cpc[r]
    BY ConnData DEF AddEventEntry, eventVars
  <1>2. \A s \in Socks : r \in mSendEventMap'[s] <=> r \in mSendEventMap[s]
    BY ConnData DEF AddEventEntry
  <1>3. ASSUME NEW s \in Socks PROVE NothingNew(r, s)
    BY <1>1, <1>2 DEF NothingNew, OneWay, WayAt, Awaited, Received, Answered, Queued,
                      Sending, Travels, Has, Alone
  <1> QED
    BY <1>1, <1>3, WayKept DEF Goes, Fate

LEMMA PrepareFailsWay ==
    ASSUME Typed, NEW r \in Requests, Placed(r), OneWay(r), CallMove(r),
           NEW q \in Requests, PrepareFails(q)
    PROVE  Goes(r)
  <1>1. /\ UNCHANGED <<recvCev, wire, mSendQ, mCurSendBlock, reply, served>>
        /\ cpc' = [cpc EXCEPT ![q] = "failRelease"] /\ cpc[q] = "prepare"
        /\ mSendEventMap' = [mSendEventMap EXCEPT ![cconn[q]] = @ \ {q}]
    BY DEF PrepareFails, RemoveEventEntry, eventVars
  <1>2. \A s \in Socks : /\ r \in mSendEventMap'[s] => r \in mSendEventMap[s]
                         /\ q # r /\ r \in mSendEventMap[s] => r \in mSendEventMap'[s]
    BY <1>1, ConnData
  <1>3. ASSUME q = r, NEW s \in Socks PROVE ~Travels(r, s) /\ ~Awaited(r, s)'
    <2>1. ~Travels(r, s)
      BY <1>1, <1>3 DEF OneWay, WayAt, Posted
    <2>2. cconn[r] # Nil /\ cconn[r] \in Socks
      BY <1>1, <1>3, HeldSocks, ConnData
    <2>3. Awaited(r, s) => s = cconn[r]
      BY <2>2 DEF Placed, In, Awaited
    <2> QED
      BY <1>1, <1>2, <1>3, <2>1, <2>2, <2>3, ConnData DEF Awaited
  <1>4. ASSUME NEW s \in Socks PROVE NothingNew(r, s)
    <2>1. (Travels(r, s)' <=> Travels(r, s)) /\ Alone(mSendQ[s], r)'
      BY <1>1 DEF OneWay, WayAt, Travels, Answered, Queued, Sending, Has, Alone
    <2>2. CASE q = r
      BY <1>1, <1>2, <1>3, <2>1, <2>2 DEF NothingNew, Awaited, Received, Travels, Answered,
                                          Queued, Sending, Has
    <2>3. CASE q # r
      BY <1>1, <1>2, <2>1, <2>3 DEF NothingNew, Awaited, Received, Answered, Queued,
                                    Sending, Has
    <2> QED
      BY <2>2, <2>3
  <1>5. cpc[r] = "prepare" /\ cpc'[r] = "failRelease" => q = r
    BY <1>1, ConnData
  <1> QED
    BY <1>1, <1>3, <1>4, <1>5, WayKept DEF Goes, Fate

LEMMA FailedWay ==
    ASSUME Typed, NEW r \in Requests, Placed(r), OneWay(r), CallMove(r),
           NEW q \in Requests, FailConn(q) \/ CompleteFailed(q)
    PROVE  Goes(r)
  <1>1. /\ UNCHANGED <<mSendEventMap, recvCev, wire, mSendQ, mCurSendBlock, served>>
        /\ cpc' = [cpc EXCEPT ![q] = "returned"] /\ cpc[q] \in {"getConn", "failComplete"}
        /\ CompleteEvent({q}, "error")
    BY DEF FailConn, CompleteFailed, connVars
  <1>2. \A s \in Socks : NothingNew(r, s)
    BY <1>1, NothingMoves
  <1>3. CASE q # r
    <2>1. reply'[r] = reply[r] /\ cpc'[r] = cpc[r]
      BY <1>1, <1>3, ConnData DEF CompleteEvent
    <2> QED
      BY <1>1, <1>2, <2>1, WayKept DEF Goes, Fate
  <1>4. CASE q = r
    <2>1. reply[r] = "none" /\ cpc'[r] = "returned" /\ cpc[r] # "idle"
      BY <1>1, <1>4, ConnData DEF OneWay, Posted
    <2>2. reply'[r] = "error"
      BY <1>1, <1>4, <2>1 DEF CompleteEvent
    <2>3. \A s \in Socks : ~Awaited(r, s) /\ ~Received(r, s)
      BY <1>1, <1>4 DEF Placed, OneWay, In, Awaited, Received
    <2>4. \A s \in Socks : ~Awaited(r, s)' /\ ~Received(r, s)'
      BY <1>1, <2>3 DEF Awaited, Received
    <2> QED
      BY <1>1, <1>2, <2>1, <2>2, <2>4, WayKept DEF Goes, Fate, Posted
  <1> QED
    BY <1>3, <1>4

LEMMA PostSendWay ==
    ASSUME Typed, NEW r \in Prompt, Placed(r), OneWay(r), CallMove(r),
           NEW q \in Requests, PostSend(q)
    PROVE  Goes(r)
  <1>0. PICK c \in Socks : c = cconn[q]
    BY HeldSocks DEF PostSend
  <1>1. /\ UNCHANGED <<mSendEventMap, recvCev, wire, mCurSendBlock, reply, served>>
        /\ cpc' = [cpc EXCEPT ![q] = "notify"] /\ cpc[q] = "prepare"
        /\ mSendQ' = [mSendQ EXCEPT ![c] = @ \o ReqIovecs(q)]
    BY <1>0 DEF PostSend, eventVars
  <1>2. r \in Requests /\ r \notin Refused
    BY DEF Prompt
  <1>3. /\ \A t \in Socks : t # c => mSendQ'[t] = mSendQ[t]
        /\ mSendQ'[c] = mSendQ[c] \o ReqIovecs(q)
    BY <1>1, <1>2, ConnData
  <1>4. /\ ReqIovecs(q) \in Seq(IoVecs) /\ mSendQ[c] \in Seq(IoVecs)
        /\ q # r => ~Has(ReqIovecs(q), r)
        /\ q = r => Alone(ReqIovecs(q), r)
    <2>1. [req |-> q, last |-> TRUE] \in IoVecs /\ [req |-> q, last |-> FALSE] \in IoVecs
      BY DEF IoVecs
    <2>2. CASE q \in Refused
      <3> DEFINE w == <<[req |-> q, last |-> FALSE], [req |-> q, last |-> TRUE]>>
      <3>1. ReqIovecs(q) = w /\ q # r
        BY <1>2, <2>2 DEF ReqIovecs
      <3>2. w \in Seq(IoVecs) /\ DOMAIN w = {1, 2} /\ \A i \in DOMAIN w : w[i].req = q
        BY <2>1
      <3> QED
        BY <1>2, <3>1, <3>2, ConnData DEF Has
    <2>3. CASE q \notin Refused
      <3> DEFINE w == <<[req |-> q, last |-> TRUE]>>
      <3>1. ReqIovecs(q) = w
        BY <2>3 DEF ReqIovecs
      <3>2. /\ w \in Seq(IoVecs) /\ DOMAIN w = {1}
            /\ \A i \in DOMAIN w : w[i].req = q /\ w[i].last
        BY <2>1
      <3> QED
        BY <1>2, <3>1, <3>2, ConnData DEF Has, Alone
    <2> QED
      BY <2>2, <2>3
  <1>5. Alone(mSendQ[c], r) /\ \A t \in Socks : Alone(mSendQ[t], r)
    BY <1>2 DEF OneWay, WayAt
  <1>6. CASE q # r
    <2>1. Alone(mSendQ'[c], r) /\ (Has(mSendQ'[c], r) <=> Has(mSendQ[c], r))
      BY <1>3, <1>4, <1>5, <1>6, QueueWith
    <2>2. \A t \in Socks : Alone(mSendQ'[t], r) /\ (Has(mSendQ'[t], r) <=> Has(mSendQ[t], r))
      BY <1>3, <1>5, <2>1
    <2>3. ASSUME NEW t \in Socks PROVE NothingNew(r, t)
      <3>1. Alone(mSendQ[t], r)' /\ (Queued(r, t)' <=> Queued(r, t))
        BY <2>2 DEF Queued, Alone, Has
      <3> QED
        BY <1>1, <3>1 DEF NothingNew, Awaited, Received, Answered, Sending, Travels
    <2>4. cpc'[r] = cpc[r]
      BY <1>1, <1>2, <1>6, ConnData
    <2> QED
      BY <1>1, <1>2, <2>3, <2>4, WayKept DEF Goes, Fate
  <1>7. CASE q = r
    <2>1. cpc[r] = "prepare" /\ cpc'[r] = "notify" /\ ~Posted(r) /\ Posted(r)'
      BY <1>1, <1>2, <1>7, ConnData DEF Posted
    <2>2. reply[r] = "none" /\ r \notin served
      BY <2>1 DEF OneWay
    <2>3. \A t \in Socks : WayAt(r, t) /\ ~Travels(r, t) /\ ~Received(r, t)
      BY <2>1, <2>2 DEF OneWay, WayAt
    <2>4. Awaited(r, c)
      BY <1>0, <1>7, <2>1, <2>2, <2>3 DEF Placed, In, Awaited, Received
    <2>5. Alone(mSendQ'[c], r)
      BY <1>2, <1>3, <1>4, <1>5, <1>7, <2>3, QueueWith DEF Travels, Queued
    <2>6. WayAt(r, c)'
      <3>1. /\ Awaited(r, c)' /\ ~Received(r, c)' /\ ~Answered(r, c)' /\ ~Sending(r, c)'
            /\ reply'[r] = "none"
        BY <1>1, <1>2, <2>2, <2>3, <2>4
           DEF Awaited, Received, Answered, Sending, Travels
      <3>2. Alone(mSendQ[c], r)'
        BY <2>5 DEF Alone
      <3> QED
        BY <2>1, <3>1, <3>2 DEF WayAt, Travels
    <2>7. \A t \in Socks : t # c => WayAt(r, t)'
      BY <1>1, <1>3, <2>1, <2>3, StaysAt
    <2> QED
      BY <1>1, <2>1, <2>2, <2>6, <2>7 DEF Goes, Fate, OneWay
  <1> QED
    BY <1>6, <1>7

LEMMA SendNextWay ==
    ASSUME Typed, NEW r \in Requests, OneWay(r), CallMove(r), NEW l \in Lanes, SendNext(l)
    PROVE  Goes(r)
  <1>0. PICK c \in Socks : c = sconn[l]
    BY HeldSocks DEF SendNext
  <1>1. /\ UNCHANGED <<mSendEventMap, recvCev, wire, reply, served, cpc>>
        /\ mCurSendBlock[c] = Nil
    BY <1>0 DEF SendNext, eventVars, callVars
  <1>2. CASE mSendQ[c] = <<>>
    BY <1>0, <1>1, <1>2, QuietStep DEF SendNext
  <1>3. CASE mSendQ[c] # <<>>
    <2> DEFINE v == Head(mSendQ[c])
    <2>1. /\ mCurSendBlock' = [mCurSendBlock EXCEPT ![c] = v]
          /\ mSendQ' = [mSendQ EXCEPT ![c] = Tail(@)]
      BY <1>0, <1>3 DEF SendNext
    <2>2. /\ \A t \in Socks : t # c => mSendQ'[t] = mSendQ[t]
                                       /\ mCurSendBlock'[t] = mCurSendBlock[t]
          /\ mSendQ'[c] = Tail(mSendQ[c]) /\ mCurSendBlock'[c] = v
          /\ mSendQ[c] \in Seq(IoVecs) /\ v \in IoVecs /\ v # Nil
      <3>1. v \in IoVecs /\ mSendQ[c] \in Seq(IoVecs)
        BY <1>3, ConnData
      <3>2. v # Nil
        BY <3>1, CommAssumption DEF Typed, DataTypes, IoVecs
      <3> QED
        BY <2>1, <3>1, <3>2, ConnData
    <2>3. WayAt(r, c) /\ Alone(mSendQ[c], r)
      BY DEF OneWay, WayAt
    <2>4. /\ Alone(mSendQ'[c], r)
          /\ Has(mSendQ[c], r) <=> v.req = r \/ Has(mSendQ'[c], r)
          /\ v.req = r => v.last /\ ~Has(mSendQ'[c], r)
      BY <1>3, <2>2, <2>3, QueueWithout
    <2>5. WayAt(r, c)'
      <3>1. /\ Awaited(r, c)' <=> Awaited(r, c)
            /\ Received(r, c)' <=> Received(r, c)
            /\ Answered(r, c)' <=> Answered(r, c)
            /\ Queued(r, c)' <=> Has(mSendQ'[c], r)
            /\ Sending(r, c)' <=> v.req = r
            /\ Alone(mSendQ[c], r)'
            /\ Posted(r)' <=> Posted(r)
        BY <1>1, <2>2, <2>4 DEF Awaited, Received, Answered, Queued, Sending, Posted, Has, Alone
      <3>2. /\ Queued(r, c) => Awaited(r, c) /\ Posted(r) /\ ~Answered(r, c)
            /\ Queued(r, c) <=> Has(mSendQ[c], r)
        BY <2>3 DEF WayAt, Travels, Queued
      <3> HIDE DEF v
      <3> QED
        BY <1>1, <2>2, <2>3, <2>4, <3>1, <3>2 DEF WayAt, Travels
    <2>6. \A t \in Socks : t # c => WayAt(r, t)'
      BY <1>1, <2>2, StaysAt DEF OneWay, Posted
    <2>7. \A t \in Socks : WayAt(r, t)'
      BY <2>5, <2>6
    <2> QED
      BY <1>1, <2>7 DEF Goes, Fate, OneWay, Posted, Awaited, Received
  <1> QED
    BY <1>2, <1>3

LEMMA SendDoneWay ==
    ASSUME Typed, NEW r \in Prompt, OneWay(r), CallMove(r), NEW l \in Lanes, SendDone(l)
    PROVE  Goes(r) /\ (r \in served' => r \in served \/ Posted(r))
  <1>0. PICK c \in Socks : c = sconn[l]
    BY HeldSocks DEF SendDone
  <1> DEFINE v == mCurSendBlock[c]
  <1>1. /\ UNCHANGED <<mSendQ, mSendEventMap, recvCev, reply, cpc>>
        /\ v # Nil /\ v \in IoVecs
        /\ mCurSendBlock' = [mCurSendBlock EXCEPT ![c] = Nil]
    BY <1>0, ConnData DEF SendDone, eventVars, callVars
  <1>2. \/ c \in up /\ Answers(v) /\ wire' = [wire EXCEPT ![c] = @ \cup {v.req}]
                    /\ served' = served \cup {v.req}
        \/ ~(c \in up /\ Answers(v)) /\ UNCHANGED <<wire, served>>
    BY <1>0 DEF SendDone
  <1>3. /\ \A t \in Socks : t # c => wire'[t] = wire[t]
                                     /\ mCurSendBlock'[t] = mCurSendBlock[t]
        /\ mCurSendBlock'[c] = Nil
        /\ r \in wire'[c] => r \in wire[c] \/ (v.req = r /\ r \in served')
        /\ r \in served => r \in served'
        /\ v.req # r /\ r \in served' => r \in served
    <2>1. mCurSendBlock'[c] = Nil
          /\ \A t \in Socks : t # c => mCurSendBlock'[t] = mCurSendBlock[t]
      BY <1>1, ConnData
    <2> QED
      BY <1>2, <2>1, ConnData
  <1>4. WayAt(r, c)
    BY DEF OneWay
  <1>5. Sending(r, c) <=> v.req = r
    BY <1>1 DEF Sending
  <1>6. v.req = r => Awaited(r, c) /\ Posted(r) /\ ~Queued(r, c) /\ ~Received(r, c)
    BY <1>4, <1>5 DEF WayAt, Travels
  <1>7. /\ Awaited(r, c)' <=> Awaited(r, c)
        /\ Received(r, c)' <=> Received(r, c)
        /\ Queued(r, c)' <=> Queued(r, c)
        /\ ~Sending(r, c)'
        /\ Answered(r, c)' => Answered(r, c) \/ v.req = r
        /\ Answered(r, c)' => r \in served'
        /\ Alone(mSendQ[c], r)'
        /\ Posted(r)' <=> Posted(r)
    <2>1. Answered(r, c) => r \in served
      BY <1>4 DEF WayAt
    <2> QED
      BY <1>1, <1>3, <1>4, <2>1
         DEF WayAt, Awaited, Received, Queued, Sending, Answered, Posted, Has, Alone
  <1>8. WayAt(r, c)'
    <2> HIDE DEF v
    <2> QED
      BY <1>1, <1>3, <1>4, <1>5, <1>6, <1>7 DEF WayAt, Travels
  <1>9. \A t \in Socks : t # c => WayAt(r, t)'
    BY <1>1, <1>3, <1>7, StaysAt DEF OneWay
  <1>10. \A t \in Socks : WayAt(r, t)'
    BY <1>8, <1>9
  <1>11. r \in served' => Posted(r)
    BY <1>3, <1>6 DEF OneWay
  <1> QED
    BY <1>1, <1>7, <1>10, <1>11 DEF Goes, Fate, OneWay, Awaited, Received

(* The event of r is completed, and nothing of r is left at its            *)
(* connection.                                                             *)
LEMMA DoneWay ==
    ASSUME NEW r \in Requests, NEW c \in Socks, Placed(r), OneWay(r),
           Awaited(r, c) \/ Received(r, c), Posted(r), UNCHANGED <<cpc, served>>,
           \A t \in Socks : NothingNew(r, t),
           ~Awaited(r, c)' /\ ~Received(r, c)', CallMove(r)
    PROVE  OneWay(r)'
  <1>1. \A t \in Socks : ~Awaited(r, t)' /\ ~Received(r, t)'
    BY DEF Placed, In, Awaited, Received, NothingNew
  <1> QED
    BY <1>1, WayKept DEF Posted

LEMMA SendBrokenWay ==
    ASSUME Typed, NEW r \in Prompt, Placed(r), OneWay(r), CallMove(r),
           NEW l \in Lanes, SendBroken(l)
    PROVE  Goes(r)
  <1>0. PICK c \in Socks : c = sconn[l]
    BY HeldSocks DEF SendBroken
  <1> DEFINE v == mCurSendBlock[c]
  <1>1. /\ UNCHANGED <<mSendQ, recvCev, wire, cpc, served>>
        /\ v # Nil /\ v \in IoVecs
        /\ mCurSendBlock' = [mCurSendBlock EXCEPT ![c] = Nil]
    BY <1>0, ConnData DEF SendBroken, callVars
  <1>2. \/ /\ v.last /\ CompleteEvent({v.req}, "error")
           /\ mSendEventMap' = [mSendEventMap EXCEPT ![c] = @ \ {v.req}]
        \/ ~v.last /\ UNCHANGED <<mSendEventMap, reply>>
    BY <1>0 DEF SendBroken, SendErrorEntry, eventVars
  <1>3. /\ \A t \in Socks : t # c => /\ mSendEventMap'[t] = mSendEventMap[t]
                                     /\ mCurSendBlock'[t] = mCurSendBlock[t]
        /\ mCurSendBlock'[c] = Nil
        /\ r \in mSendEventMap'[c] => r \in mSendEventMap[c]
        /\ v.req # r => (r \in mSendEventMap[c] => r \in mSendEventMap'[c])
        /\ v.req = r /\ v.last => r \notin mSendEventMap'[c]
    <2>1. mCurSendBlock'[c] = Nil
          /\ \A t \in Socks : t # c => mCurSendBlock'[t] = mCurSendBlock[t]
      BY <1>1, ConnData
    <2>2. CASE v.last
      BY <1>2, <2>1, <2>2, ConnData
    <2>3. CASE ~v.last
      BY <1>2, <2>1, <2>3
    <2> QED
      BY <2>2, <2>3
  <1>4. WayAt(r, c) /\ (Sending(r, c) <=> v.req = r) /\ r \in Requests
    BY <1>1 DEF OneWay, Sending, Prompt
  <1>5. ASSUME NEW t \in Socks PROVE NothingNew(r, t)
    <2>1. CASE t # c
      BY <1>1, <1>3, <2>1
         DEF NothingNew, OneWay, WayAt, Awaited, Received, Answered, Queued, Sending, Travels,
             Has, Alone
    <2>2. CASE t = c
      <3>1. /\ Awaited(r, c)' => Awaited(r, c)
            /\ Received(r, c)' <=> Received(r, c)
            /\ Answered(r, c)' <=> Answered(r, c)
            /\ Queued(r, c)' <=> Queued(r, c)
            /\ ~Sending(r, c)'
            /\ Alone(mSendQ[c], r)'
        BY <1>1, <1>3, <1>4
           DEF WayAt, Awaited, Received, Answered, Queued, Sending, Has, Alone
      <3>2. v.req = r => ~Queued(r, c) /\ ~Answered(r, c)
        BY <1>4 DEF WayAt
      <3>3. v.req # r /\ Awaited(r, c) => Awaited(r, c)'
        BY <1>3 DEF Awaited
      <3> HIDE DEF v
      <3> QED
        BY <2>2, <3>1, <3>2, <3>3 DEF NothingNew, Travels
    <2> QED
      BY <2>1, <2>2
  <1>6. CASE v.req # r
    <2>1. reply'[r] = reply[r]
      BY <1>2, <1>4, <1>6 DEF CompleteEvent
    <2> QED
      BY <1>1, <1>4, <1>5, <2>1, WayKept DEF Goes, Fate
  <1>7. CASE v.req = r
    <2>1. v.last /\ Awaited(r, c) /\ ~Received(r, c) /\ Posted(r) /\ reply[r] = "none"
      BY <1>4, <1>7 DEF WayAt, Travels
    <2>2. reply'[r] = "error" /\ cpc[r] # "idle"
      BY <1>2, <1>4, <1>7, <2>1 DEF CompleteEvent, Posted
    <2>3. ~Awaited(r, c)' /\ ~Received(r, c)'
      BY <1>1, <1>3, <1>7, <2>1 DEF Awaited, Received
    <2>4. OneWay(r)'
      BY <1>1, <1>4, <1>5, <2>1, <2>3, DoneWay
    <2> QED
      BY <2>1, <2>2, <2>4 DEF Goes, Fate
  <1> QED
    BY <1>6, <1>7

LEMMA RecvRspWay ==
    ASSUME Typed, NEW r \in Prompt, OneWay(r), CallMove(r),
           NEW l \in Lanes, NEW q \in Requests, RecvRsp(l, q)
    PROVE  Goes(r)
  <1>0. PICK c \in Socks : c = rconn[l]
    BY HeldSocks DEF RecvRsp
  <1>1. /\ UNCHANGED <<mSendQ, mCurSendBlock, reply, cpc, served>>
        /\ recvCev[c] = Nil /\ q \in wire[c]
        /\ wire' = [wire EXCEPT ![c] = @ \ {q}]
        /\ \/ /\ q \in mSendEventMap[c]
              /\ mSendEventMap' = [mSendEventMap EXCEPT ![c] = @ \ {q}]
              /\ recvCev' = [recvCev EXCEPT ![c] = q]
           \/ q \notin mSendEventMap[c] /\ UNCHANGED <<mSendEventMap, recvCev>>
    BY <1>0 DEF RecvRsp, RemoveEventEntry, callVars
  <1>2. /\ \A t \in Socks : t # c => /\ mSendEventMap'[t] = mSendEventMap[t]
                                     /\ recvCev'[t] = recvCev[t]
                                     /\ wire'[t] = wire[t]
        /\ r \in wire'[c] <=> r \in wire[c] /\ q # r
        /\ q # r => (r \in mSendEventMap'[c] <=> r \in mSendEventMap[c])
        /\ q # r => recvCev'[c] # r
        /\ q = r => \/ recvCev'[c] = r /\ r \notin mSendEventMap'[c]
                    \/ r \notin mSendEventMap[c]
    <2>1. wire'[c] = wire[c] \ {q} /\ \A t \in Socks : t # c => wire'[t] = wire[t]
      BY <1>1, ConnData
    <2>2. CASE q \in mSendEventMap[c]
      BY <1>1, <2>1, <2>2, ConnData
    <2>3. CASE q \notin mSendEventMap[c]
      BY <1>1, <2>1, <2>3, ConnData DEF Prompt
    <2> QED
      BY <2>2, <2>3
  <1>3. WayAt(r, c) /\ ~Received(r, c)
    BY <1>1, ConnData DEF OneWay, Received, Prompt
  <1>4. /\ Answered(r, c)' <=> Answered(r, c) /\ q # r
        /\ Queued(r, c)' <=> Queued(r, c)
        /\ Sending(r, c)' <=> Sending(r, c)
        /\ Alone(mSendQ[c], r)'
        /\ Posted(r)' <=> Posted(r)
        /\ q # r => (Awaited(r, c)' <=> Awaited(r, c)) /\ ~Received(r, c)'
    BY <1>1, <1>2, <1>3 DEF WayAt, Answered, Queued, Sending, Has, Alone, Posted, Awaited, Received
  <1>6. ASSUME q = r PROVE WayAt(r, c)' /\ Awaited(r, c)
    <2>1. Answered(r, c) /\ Awaited(r, c) /\ Posted(r) /\ ~Queued(r, c) /\ ~Sending(r, c)
      BY <1>1, <1>3, <1>6 DEF WayAt, Travels, Answered
    <2>2. Received(r, c)' /\ ~Awaited(r, c)'
      BY <1>2, <1>6, <2>1 DEF Awaited, Received
    <2>3. r \in served' /\ reply'[r] = "none"
      BY <1>1, <1>3, <2>1 DEF WayAt
    <2> QED
      BY <1>4, <1>6, <2>1, <2>2, <2>3 DEF WayAt, Travels
  <1>7. WayAt(r, c)'
    <2>1. ASSUME q # r PROVE WayAt(r, c)'
      <3>1. NothingNew(r, c)
        BY <1>1, <1>3, <1>4, <2>1 DEF NothingNew, Travels
      <3> QED
        BY <1>1, <1>3, <1>4, <3>1, WayAtKept
    <2> QED
      BY <1>6, <2>1
  <1>8. \A t \in Socks : t # c => WayAt(r, t)'
    BY <1>1, <1>2, <1>4, StaysAt DEF OneWay
  <1>9. \A t \in Socks : WayAt(r, t)'
    BY <1>7, <1>8
  <1>10. ASSUME cpc'[r] \in {"failRelease", "failComplete"}, NEW t \in Socks
         PROVE  ~Awaited(r, t)' /\ ~Received(r, t)'
    <2>1. \A s \in Socks : ~Awaited(r, s) /\ ~Received(r, s)
      BY <1>1, <1>10 DEF OneWay
    <2>2. q # r
      BY <1>6, <2>1
    <2> QED
      BY <1>2, <1>4, <2>1, <2>2 DEF Awaited, Received
  <1> QED
    BY <1>1, <1>4, <1>9, <1>10 DEF Goes, Fate, OneWay

LEMMA RecvEndsWay ==
    ASSUME Typed, NEW r \in Prompt, Placed(r), OneWay(r), CallMove(r),
           NEW l \in Lanes, EventDone(l) \/ RecvBroken(l)
    PROVE  /\ Goes(r)
           /\ EventDone(l) =>
                \/ recvCev[rconn[l]] # r /\ reply'[r] = reply[r]
                \/ recvCev[rconn[l]] = r /\ reply'[r] = "answer"
                     /\ reply[r] = "none" /\ r \in served
  <1>0. PICK c \in Socks : c = rconn[l]
    BY HeldSocks DEF EventDone, RecvBroken
  <1>1. /\ UNCHANGED <<mSendQ, mCurSendBlock, mSendEventMap, wire, cpc, served>>
        /\ recvCev' = [recvCev EXCEPT ![c] = Nil] /\ r \in Requests
    BY <1>0 DEF EventDone, RecvBroken, callVars, Prompt
  <1>2. /\ \A t \in Socks : t # c => recvCev'[t] = recvCev[t]
        /\ recvCev'[c] = Nil /\ Nil # r
    BY <1>1, ConnData
  <1>3. ASSUME NEW t \in Socks PROVE NothingNew(r, t)
    <2>1. Received(r, t)' => Received(r, t)
      BY <1>2 DEF Received
    <2> QED
      BY <1>1, <2>1 DEF NothingNew, OneWay, WayAt, Awaited, Answered, Queued, Sending, Travels,
                        Has, Alone
  <1>4. ~Received(r, c)'
    BY <1>2 DEF Received
  <1>5. /\ EventDone(l) => CompleteEvent({recvCev[c]}, "answer")
        /\ RecvBroken(l) => CompleteEvent({recvCev[c]} \ {Nil}, "error")
    BY <1>0 DEF EventDone, RecvBroken, Receiving
  <1>6. CASE recvCev[c] # r
    <2>1. reply'[r] = reply[r]
      BY <1>1, <1>5, <1>6 DEF CompleteEvent
    <2> QED
      BY <1>0, <1>1, <1>3, <1>6, <2>1, WayKept DEF Goes, Fate
  <1>7. CASE recvCev[c] = r
    <2>1. Received(r, c) /\ ~Awaited(r, c) /\ reply[r] = "none" /\ r \in served /\ Posted(r)
      BY <1>7 DEF Received, OneWay, WayAt
    <2>2. ~Awaited(r, c)' /\ cpc[r] # "idle"
      BY <1>1, <2>1 DEF Awaited, Posted
    <2>3. OneWay(r)'
      BY <1>1, <1>3, <1>4, <2>1, <2>2, DoneWay
    <2>4. /\ EventDone(l) => reply'[r] = "answer"
          /\ RecvBroken(l) => reply'[r] = "error"
      BY <1>1, <1>2, <1>5, <1>7, <2>1 DEF CompleteEvent
    <2>5. Fate(r)
      BY <2>1, <2>2, <2>4 DEF Fate
    <2> QED
      BY <1>0, <1>7, <2>1, <2>3, <2>4, <2>5 DEF Goes
  <1> QED
    BY <1>6, <1>7

LEMMA WayNext ==
    ASSUME ConnInv, ConnInv', PlacedInv, [Next]_vars, NEW r \in Prompt, OneWay(r)
    PROVE  Goes(r)
  <1>0. r \in Requests /\ Typed /\ Placed(r) /\ HeldConnAlive'
    BY DEF Prompt, ConnInv, PlacedInv
  <1>1. CASE AddEventEntry(r)
    BY <1>0, <1>1, OwnEntry
  <1>2. CASE Keeps(r)
    <2>0. CallMove(r)
      BY <1>2 DEF Keeps
    <2> DEFINE Same == UNCHANGED <<mSendEventMap, recvCev, wire, mSendQ, mCurSendBlock, reply,
                                   served>>
    <2>1. ASSUME NEW q \in Requests, PrepareFails(q) PROVE Goes(r)
      BY <1>0, <2>0, <2>1, PrepareFailsWay
    <2>2. ASSUME NEW q \in Requests, FailConn(q) \/ CompleteFailed(q) PROVE Goes(r)
      BY <1>0, <2>0, <2>2, FailedWay
    <2>3. ASSUME NEW q \in Requests, PostSend(q) PROVE Goes(r)
      BY <1>0, <2>0, <2>3, PostSendWay
    <2>4. ASSUME NEW q \in Requests, AddEventEntry(q) PROVE Goes(r)
      BY <1>0, <1>1, <2>0, <2>4, OthersEntry
    <2>5. ASSUME NEW q \in Requests, ReleaseConn(q) PROVE Goes(r)
      <3>1. cconn[q] \in Socks /\ Release(cconn[q]) /\ UNCHANGED served
        BY <1>0, <2>5, HeldSocks DEF ReleaseConn
      <3>2. cpc'[r] # "failRelease" \/ cpc'[r] = cpc[r]
        BY <1>0, <2>5, ConnData DEF ReleaseConn
      <3> QED
        BY <1>0, <2>0, <3>1, <3>2, ReleaseOneWay DEF Goes
    <2>6. ASSUME NEW l \in Lanes, SendRelease(l) PROVE Goes(r)
      <3>1. sconn[l] \in Socks /\ Release(sconn[l]) /\ UNCHANGED <<served, cpc>>
        BY <1>0, <2>6, HeldSocks DEF SendRelease, callVars
      <3> QED
        BY <1>0, <2>0, <3>1, ReleaseOneWay DEF Goes
    <2>7. ASSUME NEW l \in Lanes, RecvRelease(l) PROVE Goes(r)
      <3>1. rconn[l] \in Socks /\ Release(rconn[l]) /\ UNCHANGED <<served, cpc>>
        BY <1>0, <2>7, HeldSocks DEF RecvRelease, callVars
      <3> QED
        BY <1>0, <2>0, <3>1, ReleaseOneWay DEF Goes
    <2>8. ASSUME NEW l \in Lanes, RecvRemove(l) PROVE Goes(r)
      BY <1>0, <2>8, HeldSocks, RemoveOneWay DEF RecvRemove, Goes
    <2>9. ASSUME NEW p \in Pollers, NEW s \in Socks, HandleError(p, s) PROVE Goes(r)
      BY <1>0, <2>9, RemoveOneWay DEF HandleError, Goes
    <2>10. ASSUME NEW e \in EndPoints, DelConn(e) PROVE Goes(r)
      BY <1>0, <2>10, FoundConn, RemoveOneWay DEF DelConn, Typed, Goes, queueVars
    <2>11. ASSUME NEW l \in Lanes, SendNext(l) PROVE Goes(r)
      BY <1>0, <2>0, <2>11, SendNextWay
    <2>12. ASSUME NEW l \in Lanes, SendDone(l) PROVE Goes(r)
      BY <1>0, <2>0, <2>12, SendDoneWay
    <2>13. ASSUME NEW l \in Lanes, SendBroken(l) PROVE Goes(r)
      BY <1>0, <2>0, <2>13, SendBrokenWay
    <2>14. ASSUME NEW l \in Lanes, NEW q \in Requests, RecvRsp(l, q) PROVE Goes(r)
      BY <1>0, <2>0, <2>14, RecvRspWay
    <2>15. ASSUME NEW l \in Lanes, EventDone(l) \/ RecvBroken(l) PROVE Goes(r)
      BY <1>0, <2>0, <2>15, RecvEndsWay
    <2>16. ASSUME Same, UNCHANGED cpc PROVE Goes(r)
      BY <1>0, <2>0, <2>16, QuietStep
    <2>17. ASSUME NEW q \in Requests,
                  Ask(q) \/ FindConn(q) \/ (\E s \in Socks : MakeConn(q, s)) \/ PrepareSend(q)
           PROVE  Goes(r)
      <3>1. Same /\ (cpc'[r] # "failRelease" \/ cpc'[r] = cpc[r])
        BY <1>0, <2>17, ConnData
           DEF Ask, FindConn, MakeConn, Connected, PrepareSend, connVars, eventVars
      <3> QED
        BY <1>0, <2>0, <3>1, QuietStep
    <2> QED
      BY <2>1, <2>2, <2>3, <2>4, <2>5, <2>6, <2>7, <2>8, <2>9, <2>10, <2>11, <2>12, <2>13,
         <2>14, <2>15, <2>16, <2>17
         DEF Next, CallerStep, SendStep, RecvStep, vars, connVars, eventVars, callVars,
             SendFind, SendUnavail, SendCallback, RecvFind, RecvUnavail, PollError, PollSend,
             PollRecv, Break, AtRest
  <1> QED
    BY <1>0, <1>1, <1>2, StepKeeps

LEMMA WayInit == Init => OneWayInv
  BY CommAssumption
     DEF Init, OneWayInv, Prompt, OneWay, WayAt, Travels, Queued, Sending, Awaited, Answered,
         Received, Posted, Has, Alone

-----------------------------------------------------------------------------
(* Every step is one of OneReply.                                          *)
Asked == {r \in Prompt : cpc[r] # "idle"}
Told == [r \in Prompt |-> reply[r]]

LEMMA OnlyAskStarts ==
    ASSUME Typed, [Next]_vars, ~\E q \in Requests : Ask(q), NEW r \in Requests
    PROVE  cpc'[r] = "idle" <=> cpc[r] = "idle"
  BY ZenonT(30), ConnData
     DEF Next, CallerStep, SendStep, RecvStep, vars, callVars, FindConn, MakeConn, Connected,
         FailConn, AddEventEntry, PrepareFails, PostSend, PrepareSend, ReleaseConn,
         CompleteFailed, SendFind, SendNext, SendUnavail, SendDone, SendBroken, SendCallback,
         SendRelease, RecvFind, RecvRsp, EventDone, RecvUnavail, RecvBroken, RecvRelease,
         RecvRemove, PollError, HandleError, PollSend, PollRecv, DelConn, Break, AtRest

LEMMA OnlySendServes ==
    ASSUME [Next]_vars, ~\E l \in Lanes : SendDone(l)
    PROVE  UNCHANGED served
  BY DEF Next, CallerStep, SendStep, RecvStep, vars, Ask, FindConn, MakeConn, Connected,
         FailConn, AddEventEntry, PrepareFails, PostSend, PrepareSend, ReleaseConn,
         CompleteFailed, SendFind, SendNext, SendUnavail, SendBroken, SendCallback,
         SendRelease, RecvFind, RecvRsp, EventDone, RecvUnavail, RecvBroken, RecvRelease,
         RecvRemove, PollError, HandleError, PollSend, PollRecv, DelConn, Break, AtRest

LEMMA PromiseNext ==
    ASSUME ConnInv, ConnInv', PlacedInv, OneWayInv, [Next]_vars
    PROVE  [Promise!Next]_Promise!vars
  <1>0. Typed /\ Prompt \subseteq Requests /\ \A r \in Prompt : OneWay(r) /\ Placed(r)
    BY DEF ConnInv, OneWayInv, PlacedInv, Prompt
  <1>1. ASSUME NEW q \in Requests, Ask(q) PROVE [Promise!Next]_Promise!vars
    <2>1. /\ cpc' = [cpc EXCEPT ![q] = "getConn"] /\ cpc[q] = "idle"
          /\ served' = served /\ reply' = reply
      BY <1>1 DEF Ask
    <2>2. CASE q \in Prompt
      <3>1. Asked' = Asked \cup {q} /\ q \notin Asked
        BY <1>0, <2>1, <2>2, ConnData DEF Asked
      <3>2. Promise!Ask(q)
        BY <2>1, <3>1 DEF Promise!Ask, Asked
      <3> QED
        BY <2>2, <3>2 DEF Promise!Next
    <2>3. CASE q \notin Prompt
      <3>1. Asked' = Asked
        BY <1>0, <2>1, <2>3, ConnData DEF Asked
      <3> QED
        BY <2>1, <3>1 DEF Promise!vars, Asked
    <2> QED
      BY <2>2, <2>3
  <1>2. ASSUME NEW l \in Lanes, SendDone(l) PROVE [Promise!Next]_Promise!vars
    <2> DEFINE c == sconn[l]
               v == mCurSendBlock[c]
    <2>1. /\ UNCHANGED <<cpc, reply>> /\ v # Nil /\ c \in Socks
          /\ served' = served \cup {v.req} \/ served' = served
      BY <1>0, <1>2, HeldSocks DEF SendDone, eventVars, callVars
    <2>2. Asked' = Asked
      BY <2>1 DEF Asked
    <2>3. CASE v.req \in Prompt \ served /\ served' = served \cup {v.req}
      <3>1. OneWay(v.req) /\ Sending(v.req, c)
        BY <1>0, <2>1, <2>3 DEF Sending
      <3>2. Posted(v.req)
        BY <2>1, <3>1 DEF OneWay, WayAt, Travels
      <3>3. v.req \in Asked
        BY <2>3, <3>2 DEF Posted, Asked
      <3>4. Promise!Serve(v.req)
        BY <2>1, <2>2, <2>3, <3>3 DEF Promise!Serve, Asked
      <3> QED
        BY <2>3, <3>4 DEF Promise!Next
    <2>4. CASE ~(v.req \in Prompt \ served /\ served' = served \cup {v.req})
      <3>1. (served \cap Prompt)' = served \cap Prompt
        BY <2>1, <2>4 DEF Prompt
      <3> QED
        BY <2>1, <2>2, <3>1 DEF Promise!vars, Asked
    <2> QED
      BY <2>3, <2>4
  <1>3. ASSUME NEW l \in Lanes, EventDone(l) PROVE [Promise!Next]_Promise!vars
    <2>0. PICK q : q = recvCev[rconn[l]]
      OBVIOUS
    <2>1. UNCHANGED <<cpc, served>>
      BY <1>3 DEF EventDone, callVars
    <2>2. ASSUME NEW r \in Prompt
          PROVE  /\ q # r => reply'[r] = reply[r]
                 /\ q = r => reply'[r] = "answer" /\ reply[r] = "none" /\ r \in served
      <3>1. CallMove(r)
        BY <2>1, <1>3 DEF CallMove, EventDone, callVars
      <3> QED
        BY <1>0, <1>3, <2>0, <3>1, RecvEndsWay
    <2>3. CASE q \in Prompt
      <3>1. q \in Asked /\ reply[q] = "none" /\ q \in served
        BY <1>0, <2>2, <2>3 DEF OneWay, Posted, Asked
      <3>2. Told' = [Told EXCEPT ![q] = "answer"]
        BY <2>2, <2>3 DEF Told
      <3>3. Promise!Answer(q)
        BY <2>1, <2>3, <3>1, <3>2 DEF Promise!Answer, Promise!Waiting, Asked, Told
      <3>4. \E r \in Prompt : Promise!Answer(r)
        BY <2>3, <3>3
      <3> QED
        BY <3>4 DEF Promise!Next
    <2>4. CASE q \notin Prompt
      <3>1. Told' = Told
        BY <2>2, <2>4 DEF Told
      <3> QED
        BY <2>1, <3>1 DEF Promise!vars, Told
    <2> QED
      BY <2>3, <2>4
  <1>4. CASE /\ ~\E q \in Requests : Ask(q)
             /\ ~\E l \in Lanes : SendDone(l) \/ EventDone(l)
    <2>1. Asked' = Asked /\ UNCHANGED served
      BY <1>0, <1>4, OnlyAskStarts, OnlySendServes DEF Asked
    <2>2. \A r \in Prompt : Fate(r)
      BY <1>0, WayNext DEF Goes
    <2>s. PICK S \in SUBSET Prompt : S = {r \in Prompt : reply'[r] # reply[r]}
      OBVIOUS
    <2>3. \A r \in S : r \in Asked /\ reply[r] = "none" /\ reply'[r] = "error"
      BY <1>4, <2>s, <2>2 DEF Fate, Asked
    <2>4. Told' = [r \in Prompt |-> IF r \in S THEN "error" ELSE Told[r]]
      BY <2>s, <2>3 DEF Told
    <2>5. Promise!Fail(S)
      BY <2>1, <2>3, <2>4 DEF Promise!Fail, Promise!Waiting, Asked, Told
    <2>6. \E T \in SUBSET Prompt : Promise!Fail(T)
      BY <2>5
    <2> QED
      BY <2>6 DEF Promise!Next
  <1> QED
    BY <1>1, <1>2, <1>3, <1>4

LEMMA PromiseInit == Init => Promise!Init
  BY CommAssumption DEF Init, Promise!Init, Prompt

(* CommStage keeps the promise of OneReply: the event of a request the     *)
(* server can read is completed once, with an answer only if the server    *)
(* has had the request.                                                    *)
THEOREM CommStageKeepsOneReply == Spec => KeepsOneReply
  <1>1. ConnInv /\ ConnInv' /\ PlacedInv /\ OneWayInv /\ [Next]_vars => OneWayInv'
    BY WayNext DEF OneWayInv, Goes
  <1>2. Spec => []ConnInv
    BY ConnInvariant
  <1>3. ConnInv /\ PlacedInv /\ [Next]_vars => PlacedInv'
    BY PlacedNext DEF PlacedInv
  <1>4. Spec => []PlacedInv
    BY <1>2, <1>3, PlacedInit, PTL DEF Spec
  <1>5. Spec => []OneWayInv
    BY <1>1, <1>2, <1>4, WayInit, PTL DEF Spec
  <1>6. ConnInv /\ ConnInv' /\ PlacedInv /\ OneWayInv /\ [Next]_vars
          => [Promise!Next]_Promise!vars
    BY PromiseNext
  <1>7. Spec => [][Promise!Next]_Promise!vars
    BY <1>2, <1>4, <1>5, <1>6, PTL DEF Spec
  <1>8. Spec => Promise!Init
    BY PromiseInit DEF Spec
  <1> QED
    BY <1>7, <1>8 DEF KeepsOneReply, Promise!Spec
=============================================================================
