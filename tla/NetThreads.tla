----------------------------- MODULE NetThreads ------------------------------
(***************************************************************************)
(* The threads of Net from setup to shutdown: CommStage::initialize makes  *)
(* a Net and sets it up, CommStage::cleanup shuts it down and deletes it.  *)
(* The epoll threads are started first; they hand sockets to the queues of *)
(* the data threads, of which there is a vector for each direction.        *)
(*                                                                         *)
(* A data thread pops its queue without the mutex under which others push: *)
(* a std::deque keeps both ends apart until a push needs a new node, so    *)
(* queues are shorter than a node here (MaxReports).                       *)
(***************************************************************************)
EXTENDS Integers, Sequences

CONSTANTS
    NetThreadCount,
    Socks,
    MaxReports      \* bound: how many sockets are handed over

ASSUME ThreadsAssumption ==
    NetThreadCount \in Nat \ {0} /\ Socks \subseteq Nat /\ MaxReports \in Nat

VARIABLES
    pc,             \* CommStage's thread, in setup or shutdown
    turn,           \* the data thread its loop has come to
    initFlag, shutdownFlag,
    dataThreads,    \* sendDataThreads, recvDataThreads
    sockQ,          \* of a DataThreadParam
    deleted,        \* DataThreadParams that have been deleted
    thread,         \* the data threads
    current,        \* the socket one is handling
    epoll,          \* the epoll threads
    events,         \* sockets an epoll thread has been told of, not handled
    exitInfo,       \* pipes with THREAD_INFO_EXIT in them
    exitCmd,        \* epoll threads that have read it
    reports,        \* how many sockets have been handed over
    early,          \* history: some were before all data threads were there
    crashed         \* history: when a vector or an element that is not there was used

callerVars == <<pc, turn, initFlag, shutdownFlag>>
dataVars == <<thread, current>>
epollVars == <<epoll, events, exitInfo, exitCmd>>
vars == <<callerVars, dataThreads, sockQ, deleted, dataVars, epollVars, reports,
          early, crashed>>

Dirs == {"send", "recv"}
Params == [dir : Dirs, index : 0..(NetThreadCount - 1)]
Param(d, i) == [dir |-> d, index |-> i]
Quit == -1
Nobody == -1

Init ==
    /\ pc = "selectors" /\ turn = Param("send", 0)
    /\ initFlag = FALSE /\ shutdownFlag = FALSE
    /\ dataThreads = [d \in Dirs |-> <<>>]
    /\ sockQ = [p \in Params |-> <<>>] /\ deleted = {}
    /\ thread = [p \in Params |-> "none"] /\ current = [p \in Params |-> Nobody]
    /\ epoll = [d \in Dirs |-> "none"]
    /\ events = [d \in Dirs |-> {}]
    /\ exitInfo = {} /\ exitCmd = {}
    /\ reports = 0 /\ early = FALSE /\ crashed = {}

Phase ==
    CASE pc \in {"selectors", "recvEpoll", "sendEpoll", "push", "create"} -> "starting"
      [] pc \in {"up", "failed"} -> pc
      [] OTHER -> "stopping"

-----------------------------------------------------------------------------
(* setupSelectors; NetServer::setup also makes its listening socket.       *)
SetupSelectors ==
    /\ pc = "selectors"
    /\ pc' \in {"recvEpoll", "failed"}
    /\ UNCHANGED <<turn, initFlag, shutdownFlag, dataThreads, sockQ, deleted, dataVars,
                   epollVars, reports, early, crashed>>

(* startThreads: the epoll threads, ...                                    *)
StartEPoll ==
    \E d \in Dirs :
      /\ pc = IF d = "recv" THEN "recvEpoll" ELSE "sendEpoll"
      /\ \/ /\ epoll' = [epoll EXCEPT ![d] = "waiting"]
            /\ pc' = IF d = "recv" THEN "sendEpoll" ELSE "push"
         \/ pc' = "failed" /\ UNCHANGED epoll
      /\ UNCHANGED <<turn, initFlag, shutdownFlag, dataThreads, sockQ, deleted, dataVars,
                     events, exitInfo, exitCmd, reports, early, crashed>>

(* ... then a send and a receive data thread for each index: an element is *)
(* pushed, then its thread is created.                                     *)
PushParam ==
    /\ pc = "push" /\ pc' = "create"
    /\ dataThreads' = [dataThreads EXCEPT ![turn.dir] = Append(@, turn)]
    /\ UNCHANGED <<turn, initFlag, shutdownFlag, sockQ, deleted, dataVars, epollVars,
                   reports, early, crashed>>

Last(p) == p = Param("recv", NetThreadCount - 1)
CreateThread ==
    /\ pc = "create"
    /\ thread' = [thread EXCEPT ![turn] = "starting"]
    /\ pc' = IF Last(turn) THEN "up" ELSE "push"
    /\ initFlag' = Last(turn)
    /\ turn' = IF turn.dir = "send" THEN Param("recv", turn.index)
               ELSE IF Last(turn) THEN turn ELSE Param("send", turn.index + 1)
    /\ UNCHANGED <<shutdownFlag, dataThreads, sockQ, deleted, current, epollVars, reports,
                   early, crashed>>

(* The element is deleted; the one popped is of the send threads, whatever *)
(* the direction.  initialize fails, and nothing shuts this Net down.      *)
CreateFails ==
    /\ pc = "create" /\ pc' = "failed"
    /\ deleted' = deleted \cup {turn}
    /\ dataThreads' = [dataThreads EXCEPT !["send"] = SubSeq(@, 1, Len(@) - 1)]
    /\ UNCHANGED <<turn, initFlag, shutdownFlag, sockQ, dataVars, epollVars, reports,
                   early, crashed>>

-----------------------------------------------------------------------------
(* prepareSend, prepareRecv.  Without data threads the remainder is one of *)
(* a division by 0; while the vector grows it may be moved under a reader. *)
(* Mutant: the queue that is the shortest.                                 *)
IndexShortest(d, s) ==
    (CHOOSE i \in DOMAIN dataThreads[d] :
       \A j \in DOMAIN dataThreads[d] :
         Len(sockQ[dataThreads[d][i]]) <= Len(sockQ[dataThreads[d][j]])) - 1
Index(d, s) == s % Len(dataThreads[d])

Growing(d) == pc = "push" /\ turn.dir = d
Missing(d, s) ==
    dataThreads[d] # <<>> => dataThreads[d][Index(d, s) + 1] \in deleted

Prepare(d, s) ==
    /\ early' = (early \/ Phase = "starting")
    /\ \/ /\ ~Missing(d, s)
          /\ sockQ' = [sockQ EXCEPT ![dataThreads[d][Index(d, s) + 1]] = Append(@, s)]
          /\ UNCHANGED crashed
       \/ /\ Missing(d, s) \/ Growing(d)
          /\ crashed' = crashed \cup {Phase}
          /\ UNCHANGED sockQ

(* RecvEPollThread, SendEPollThread: some socket is ready, which is handed *)
(* over (one at a time: several events are several turns); the exit        *)
(* command is read, but all events are processed before the thread ends.   *)
Fetch(d, S) ==
    /\ epoll[d] = "waiting" /\ events[d] = {} /\ d \notin exitCmd
    /\ \/ S = {} /\ d \in exitInfo /\ UNCHANGED reports
       \/ S # {} /\ reports < MaxReports /\ reports' = reports + 1
    /\ events' = [events EXCEPT ![d] = S]
    /\ exitCmd' = exitCmd \cup ({d} \cap exitInfo)
    /\ exitInfo' = exitInfo \ {d}
    /\ UNCHANGED <<callerVars, dataThreads, sockQ, deleted, dataVars, epoll, early,
                   crashed>>

HandOver(d, s) ==
    /\ s \in events[d]
    /\ events' = [events EXCEPT ![d] = @ \ {s}]
    /\ Prepare(d, s)
    /\ UNCHANGED <<callerVars, dataThreads, deleted, dataVars, epoll, exitInfo, exitCmd,
                   reports>>

EndEPoll(d) ==
    /\ epoll[d] = "waiting" /\ d \in exitCmd /\ events[d] = {}
    /\ epoll' = [epoll EXCEPT ![d] = "ended"]
    /\ UNCHANGED <<callerVars, dataThreads, sockQ, deleted, dataVars, events,
                   exitInfo, exitCmd, reports, early, crashed>>

-----------------------------------------------------------------------------
(* handlingData: the thread looks its element up by its index, ...         *)
LookUp(p) ==
    /\ thread[p] = "starting"
    /\ \/ thread' = [thread EXCEPT ![p] = "running"] /\ UNCHANGED crashed
       \/ Growing(p.dir) /\ crashed' = crashed \cup {Phase} /\ UNCHANGED thread
    /\ UNCHANGED <<callerVars, dataThreads, sockQ, deleted, current, epollVars, reports,
                   early>>

(* ... takes a socket with all that follow and are the same, ...           *)
Following(q) ==
    LET other == {i \in DOMAIN q : q[i] # q[1]}
    IN IF other = {} THEN <<>>
       ELSE SubSeq(q, CHOOSE i \in other : \A j \in other : i <= j, Len(q))

Take(p) ==
    /\ thread[p] = "running" /\ sockQ[p] # <<>> /\ Head(sockQ[p]) # Quit
    /\ thread' = [thread EXCEPT ![p] = "handling"]
    /\ current' = [current EXCEPT ![p] = Head(sockQ[p])]
    /\ sockQ' = [sockQ EXCEPT ![p] = Following(@)]
    /\ UNCHANGED <<callerVars, dataThreads, deleted, epollVars, reports, early, crashed>>

(* ... and handles it; a receive thread that has met a malformed message   *)
(* answers it (sendBadMsgErr), which hands the socket to a send thread.    *)
Answer(p) ==
    /\ thread[p] = "handling" /\ p.dir = "recv"
    /\ reports < MaxReports /\ reports' = reports + 1
    /\ Prepare("send", current[p])
    /\ UNCHANGED <<callerVars, dataThreads, deleted, dataVars, epollVars>>

Handled(p) ==
    /\ thread[p] = "handling"
    /\ thread' = [thread EXCEPT ![p] = "running"]
    /\ current' = [current EXCEPT ![p] = Nobody]
    /\ UNCHANGED <<callerVars, dataThreads, sockQ, deleted, epollVars, reports, early,
                   crashed>>

(* A negative socket: the thread ends, whatever is behind it.              *)
TakeQuit(p) ==
    /\ thread[p] = "running" /\ sockQ[p] # <<>> /\ Head(sockQ[p]) = Quit
    /\ thread' = [thread EXCEPT ![p] = "ended"]
    /\ sockQ' = [sockQ EXCEPT ![p] = Tail(@)]
    /\ UNCHANGED <<callerVars, dataThreads, deleted, current, epollVars, reports, early,
                   crashed>>

-----------------------------------------------------------------------------
(* shutdown, and in it cleanupThreads: all data threads are told to quit,  *)
(* the send threads before the receive threads, ...                        *)
BeginShutdown ==
    /\ pc = "up" /\ pc' = "quit"
    /\ turn' = Param("send", 0)
    /\ UNCHANGED <<initFlag, shutdownFlag, dataThreads, sockQ, deleted, dataVars,
                   epollVars, reports, early, crashed>>

AfterTurn(p) ==
    IF p.index + 1 < NetThreadCount THEN Param(p.dir, p.index + 1)
    ELSE IF p.dir = "send" THEN Param("recv", 0) ELSE Param("send", 0)

(* Mutant: the receive threads are forgotten.                              *)
ToldToQuitSendOnly(p) == IF p.dir = "send" THEN Append(sockQ[p], Quit) ELSE sockQ[p]
ToldToQuit(p) == Append(sockQ[p], Quit)
PushQuit ==
    /\ pc = "quit"
    /\ sockQ' = [sockQ EXCEPT ![turn] = ToldToQuit(turn)]
    /\ turn' = AfterTurn(turn)
    /\ pc' = IF Last(turn) THEN "join" ELSE "quit"
    /\ UNCHANGED <<initFlag, shutdownFlag, dataThreads, deleted, dataVars, epollVars,
                   reports, early, crashed>>

(* ... each is joined and its element deleted, and the vector cleared: the *)
(* epoll threads have not been told yet.                                   *)
JoinData ==
    /\ pc = "join" /\ thread[turn] = "ended"
    /\ deleted' = deleted \cup {turn}
    /\ dataThreads' = IF turn.index + 1 = NetThreadCount
                        THEN [dataThreads EXCEPT ![turn.dir] = <<>>] ELSE dataThreads
    /\ turn' = AfterTurn(turn)
    /\ pc' = IF Last(turn) THEN "exit" ELSE "join"
    /\ UNCHANGED <<initFlag, shutdownFlag, sockQ, dataVars, epollVars, reports, early,
                   crashed>>

WriteExit ==
    /\ pc = "exit" /\ pc' = "joinEpoll"
    /\ exitInfo' = Dirs
    /\ UNCHANGED <<turn, initFlag, shutdownFlag, dataThreads, sockQ, deleted, dataVars,
                   epoll, events, exitCmd, reports, early, crashed>>

JoinEPoll ==
    /\ pc = "joinEpoll" /\ \A d \in Dirs : epoll[d] = "ended"
    /\ pc' = "down"
    /\ shutdownFlag' = TRUE /\ initFlag' = FALSE
    /\ UNCHANGED <<turn, dataThreads, sockQ, deleted, dataVars, epollVars, reports, early,
                   crashed>>

-----------------------------------------------------------------------------
SetupStep == SetupSelectors \/ StartEPoll \/ PushParam \/ CreateThread \/ CreateFails
ShutdownStep == PushQuit \/ JoinData \/ WriteExit \/ JoinEPoll
EPollStep(d) ==
    \/ Fetch(d, {}) \/ EndEPoll(d)
    \/ \E s \in Socks : Fetch(d, {s}) \/ HandOver(d, s)
DataStep(p) == LookUp(p) \/ Take(p) \/ Handled(p) \/ TakeQuit(p)

(* A program that has crashed has ended.                                   *)
Next ==
    /\ crashed = {}
    /\ \/ SetupStep \/ BeginShutdown \/ ShutdownStep
       \/ \E d \in Dirs : EPollStep(d)
       \/ \E p \in Params : DataStep(p) \/ Answer(p)

Fairness ==
    /\ WF_vars(crashed = {} /\ ShutdownStep)
    /\ \A d \in Dirs : WF_vars(crashed = {} /\ EPollStep(d))
    /\ \A p \in Params : WF_vars(crashed = {} /\ DataStep(p))

Spec == Init /\ [][Next]_vars
FairSpec == Spec /\ Fairness

-----------------------------------------------------------------------------
TypeOK ==
    /\ pc \in {"selectors", "recvEpoll", "sendEpoll", "push", "create", "up", "failed",
               "quit", "join", "exit", "joinEpoll", "down"}
    /\ turn \in Params
    /\ initFlag \in BOOLEAN /\ shutdownFlag \in BOOLEAN
    /\ dataThreads \in [Dirs -> Seq(Params)]
    /\ sockQ \in [Params -> Seq(Socks \cup {Quit})]
    /\ deleted \subseteq Params
    /\ thread \in [Params -> {"none", "starting", "running", "handling", "ended"}]
    /\ current \in [Params -> Socks \cup {Nobody}]
    /\ epoll \in [Dirs -> {"none", "waiting", "ended"}]
    /\ events \in [Dirs -> SUBSET Socks]
    /\ exitInfo \subseteq Dirs /\ exitCmd \subseteq Dirs
    /\ reports \in 0..MaxReports /\ early \in BOOLEAN
    /\ crashed \subseteq {"starting", "up", "failed", "stopping"}

(* Between the end of setup and the begin of shutdown no thread uses a     *)
(* data thread that is not there; an element outlives its thread; and two  *)
(* data threads of a direction work on one socket only if it was handed    *)
(* over while they were being started, the remainder being another then.   *)
(* The types are checked along.                                            *)
SafeOnceUp ==
    /\ TypeOK
    /\ "up" \notin crashed
    /\ \A p \in deleted : thread[p] \in {"none", "ended"}
    /\ ~early =>
         \A p, q \in Params : \A s \in Socks :
           /\ p.dir = q.dir
           /\ s = current[p] \/ (\E i \in DOMAIN sockQ[p] : sockQ[p][i] = s)
           /\ s = current[q] \/ (\E i \in DOMAIN sockQ[q] : sockQ[q][i] = s)
           => p = q

(* A shutdown that does not crash ends, and with it every thread of Net:   *)
(* the quit entry is reached although sockets are handed over all the time *)
(* ("Shutdown Net infrastructure", net.h).                                 *)
ShutdownEnds ==
    pc = "quit" ~>
      \/ crashed # {}
      \/ /\ pc = "down"
         /\ \A p \in Params : thread[p] = "ended"
         /\ \A d \in Dirs : epoll[d] = "ended"
=============================================================================
