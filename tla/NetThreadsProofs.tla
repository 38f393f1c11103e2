--------------------------- MODULE NetThreadsProofs ---------------------------
(***************************************************************************)
(* The threads of Net, for any number of data threads and any sockets.     *)
(*                                                                         *)
(* SafeOnceUp is not inductive: that no element is missing while Net is up *)
(* needs what the vectors hold at each step of startThreads and of         *)
(* cleanupThreads (Elements, Sizes, Unstarted), and that a socket is with  *)
(* one data thread of a direction needs the thread it belongs to (Placed): *)
(* the remainder by the number of data threads, or, after a failed start,  *)
(* by the number of those left in the vector.                              *)
(***************************************************************************)
EXTENDS NetThreads, FiniteSetTheorems, TLAPS

Starting == {"selectors", "recvEpoll", "sendEpoll", "push", "create"}

Elements ==
    \A d \in Dirs : \A j \in DOMAIN dataThreads[d] : dataThreads[d][j] = Param(d, j - 1)

SendSize == IF turn.dir = "recv" \/ pc = "create" THEN turn.index + 1 ELSE turn.index
RecvSize == IF turn.dir = "recv" /\ pc = "create" THEN turn.index + 1 ELSE turn.index

Sizes ==
    /\ pc \in {"selectors", "recvEpoll", "sendEpoll"} => turn = Param("send", 0)
    /\ pc \in Starting =>
         Len(dataThreads["send"]) = SendSize /\ Len(dataThreads["recv"]) = RecvSize
    /\ pc \in {"up", "quit"} => \A d \in Dirs : Len(dataThreads[d]) = NetThreadCount
    /\ pc \notin Starting \cup {"failed"} =>
         \A d \in Dirs : Len(dataThreads[d]) \in {0, NetThreadCount}

Before(p, q) ==
    p.index < q.index \/ (p.index = q.index /\ p.dir = "send" /\ q.dir = "recv")
Unstarted ==
    pc \in Starting => \A p \in Params : ~Before(p, turn) => thread[p] = "none"

Undeleted ==
    /\ pc \in Starting \cup {"up", "quit"} => deleted = {}
    /\ \A p \in deleted : thread[p] \in {"none", "ended"}

Handling ==
    \A p \in Params : thread[p] = "handling" => current[p] \in Socks

Has(p, s) == s = current[p] \/ \E i \in DOMAIN sockQ[p] : sockQ[p][i] = s
Size(d) == IF pc = "failed" THEN Len(dataThreads[d]) ELSE NetThreadCount
Placed ==
    ~early => \A p \in Params, s \in Socks :
                Has(p, s) => pc \notin Starting /\ p.index = s % Size(p.dir)

ThreadsInv ==
    /\ TypeOK /\ Elements /\ Sizes /\ Unstarted /\ Undeleted /\ Handling /\ Placed
    /\ "up" \notin crashed

-----------------------------------------------------------------------------
(* Parameters and sockets.                                                 *)

LEMMA ParamFacts ==
    /\ \A p \in Params : /\ p.dir \in Dirs /\ p.index \in 0..(NetThreadCount - 1)
                         /\ p = Param(p.dir, p.index)
    /\ \A d \in Dirs, i \in 0..(NetThreadCount - 1) :
         Param(d, i) \in Params /\ Param(d, i).dir = d /\ Param(d, i).index = i
    /\ \A p, q \in Params : p.dir = q.dir /\ p.index = q.index => p = q
  BY DEF Params, Param

LEMMA Remainders ==
    ASSUME NEW s \in Nat, NEW n \in Nat, n # 0
    PROVE  s % n \in 0..(n - 1)
  OBVIOUS

LEMMA SockFacts == Socks \subseteq Nat /\ Quit \notin Socks /\ Nobody \notin Socks
  BY ThreadsAssumption DEF Quit, Nobody

(* What a queue holds.                                                     *)
Holds(q, s) == \E i \in DOMAIN q : q[i] = s

LEMMA HoldsAppend ==
    ASSUME NEW T, NEW q \in Seq(T), NEW a \in T, NEW s
    PROVE  Append(q, a) \in Seq(T) /\ (Holds(Append(q, a), s) => Holds(q, s) \/ s = a)
  <1>1. \A i \in 1..Len(q) : Append(q, a)[i] = q[i]
    OBVIOUS
  <1>2. DOMAIN Append(q, a) = 1..(Len(q) + 1) /\ Append(q, a)[Len(q) + 1] = a
    OBVIOUS
  <1>3. Len(q) \in Nat /\ DOMAIN q = 1..Len(q)
    OBVIOUS
  <1> QED
    BY <1>1, <1>2, <1>3 DEF Holds

LEMMA HoldsHead ==
    ASSUME NEW T, NEW q \in Seq(T), q # <<>>
    PROVE  Head(q) \in T /\ Holds(q, Head(q))
  BY DEF Holds

LEMMA HoldsTail ==
    ASSUME NEW T, NEW q \in Seq(T), q # <<>>, NEW s
    PROVE  Tail(q) \in Seq(T) /\ (Holds(Tail(q), s) => Holds(q, s))
  <1>1. \A i \in DOMAIN Tail(q) : i + 1 \in DOMAIN q /\ Tail(q)[i] = q[i + 1]
    OBVIOUS
  <1> QED
    BY <1>1 DEF Holds

(* A finite set of indices has a least one: the shortest of the intervals  *)
(* that end in it.                                                         *)
LEMMA LeastIndex ==
    ASSUME NEW n \in Nat, NEW S \in SUBSET (1..n), S # {}
    PROVE  \E m \in S : \A k \in S : m <= k
  <1> DEFINE Ends == {1..x : x \in S}
  <1>1. IsWellFoundedOn(StrictSubsetOrdering(1..n), SUBSET (1..n))
    <2>1. IsFiniteSet(1..n)
      BY FS_Interval
    <2> QED
      BY <2>1, FS_StrictSubsetOrderingWellFounded, FS_FiniteSubsetsOfFinite
  <1>2. Ends \subseteq SUBSET (1..n) /\ Ends # {}
    <2>1. \A x \in S : 1..x \in SUBSET (1..n)
      OBVIOUS
    <2>2. PICK x \in S : TRUE
      OBVIOUS
    <2>3. 1..x \in Ends
      OBVIOUS
    <2> QED
      BY <2>1, <2>3
  <1>3. PICK T \in Ends : \A U \in Ends : ~(<<U, T>> \in StrictSubsetOrdering(1..n))
    <2> HIDE DEF Ends
    <2> QED
      BY <1>1, <1>2, WFMin
  <1>4. PICK m \in S : T = 1..m
    OBVIOUS
  <1>5. \A k \in S : ~(k < m)
    <2> SUFFICES ASSUME NEW k \in S, k < m PROVE FALSE
      OBVIOUS
    <2>1. 1..k \in Ends /\ 1..k \in SUBSET (1..n) /\ 1..m \in SUBSET (1..n)
      OBVIOUS
    <2>2. 1..k \subseteq 1..m /\ m \in 1..m /\ m \notin 1..k
      OBVIOUS
    <2>3. <<1..k, T>> \in StrictSubsetOrdering(1..n)
      BY <1>4, <2>1, <2>2 DEF StrictSubsetOrdering
    <2> QED
      BY <1>3, <2>1, <2>3
  <1> QED
    BY <1>5

(* What is left of a queue is a part of it.                                *)
LEMMA HoldsFollowing ==
    ASSUME NEW T, NEW q \in Seq(T), NEW s
    PROVE  Following(q) \in Seq(T) /\ (Holds(Following(q), s) => Holds(q, s))
  <1> DEFINE other == {i \in DOMAIN q : q[i] # q[1]}
             first == CHOOSE i \in other : \A j \in other : i <= j
  <1>1. CASE other = {}
    <2>1. Following(q) = <<>>
      BY <1>1 DEF Following
    <2>2. ~Holds(<<>>, s)
      BY DEF Holds
    <2> QED
      BY <2>1, <2>2
  <1>2. CASE other # {}
    <2>1. Following(q) = SubSeq(q, first, Len(q))
      BY <1>2 DEF Following
    <2>2. first \in 1..Len(q)
      <3>1. other \in SUBSET (1..Len(q)) /\ Len(q) \in Nat
        OBVIOUS
      <3>2. \E m \in other : \A j \in other : m <= j
        BY <1>2, <3>1, LeastIndex
      <3>3. first \in other
        BY <3>2
      <3> QED
        BY <3>1, <3>3
    <2> HIDE DEF first
    <2>3. SubSeq(q, first, Len(q)) \in Seq(T)
      BY <2>2
    <2>4. \A i \in DOMAIN SubSeq(q, first, Len(q)) :
            first + i - 1 \in DOMAIN q /\ SubSeq(q, first, Len(q))[i] = q[first + i - 1]
      BY <2>2
    <2> QED
      BY <2>1, <2>3, <2>4 DEF Holds
  <1> QED
    BY <1>1, <1>2

-----------------------------------------------------------------------------
(* The element a socket is handed to, if there is one.                     *)

LEMMA ElementOf ==
    ASSUME TypeOK, Elements, NEW d \in Dirs, NEW s \in Socks, dataThreads[d] # <<>>
    PROVE  /\ Index(d, s) \in 0..(Len(dataThreads[d]) - 1)
           /\ dataThreads[d][Index(d, s) + 1] \in Params
           /\ dataThreads[d][Index(d, s) + 1] = Param(d, Index(d, s))
  <1>1. dataThreads[d] \in Seq(Params)
    BY DEF TypeOK
  <1>2. Len(dataThreads[d]) \in Nat /\ Len(dataThreads[d]) # 0
    BY <1>1
  <1>3. Index(d, s) \in 0..(Len(dataThreads[d]) - 1)
    BY <1>2, SockFacts, Remainders DEF Index
  <1>4. Index(d, s) + 1 \in DOMAIN dataThreads[d]
    BY <1>1, <1>2, <1>3
  <1>5. dataThreads[d][Index(d, s) + 1] = Param(d, (Index(d, s) + 1) - 1)
    BY <1>4 DEF Elements
  <1>6. (Index(d, s) + 1) - 1 = Index(d, s)
    BY <1>3
  <1> QED
    BY <1>1, <1>3, <1>4, <1>5, <1>6

(* prepareSend, prepareRecv: a queue is as it was, or has got the socket at *)
(* its end and is that of the element the remainder gives.                 *)
Taken(d, s) == Param(d, Index(d, s))

LEMMA PrepareStep ==
    ASSUME TypeOK, Elements, NEW d \in Dirs, NEW s \in Socks, Prepare(d, s)
    PROVE  \/ sockQ' = sockQ
           \/ /\ dataThreads[d] # <<>> /\ Taken(d, s) \in Params \ deleted
              /\ Index(d, s) \in 0..(Len(dataThreads[d]) - 1)
              /\ sockQ' = [sockQ EXCEPT ![Taken(d, s)] = Append(@, s)]
  <1>1. CASE UNCHANGED sockQ
    BY <1>1
  <1>2. CASE /\ ~Missing(d, s)
             /\ sockQ' = [sockQ EXCEPT ![dataThreads[d][Index(d, s) + 1]] = Append(@, s)]
    <2>1. dataThreads[d] # <<>> /\ dataThreads[d][Index(d, s) + 1] \notin deleted
      BY <1>2 DEF Missing
    <2> QED
      BY <1>2, <2>1, ElementOf DEF Taken
  <1> QED
    BY <1>1, <1>2 DEF Prepare

LEMMA PrepareCrash ==
    ASSUME NEW d \in Dirs, NEW s \in Socks, Prepare(d, s)
    PROVE  crashed' = crashed \/ (/\ crashed' = crashed \cup {Phase}
                                  /\ Missing(d, s) \/ Growing(d))
  BY DEF Prepare

LEMMA Phases ==
    ASSUME TypeOK
    PROVE  /\ Phase \in {"starting", "up", "failed", "stopping"}
           /\ Phase = "starting" <=> pc \in Starting
           /\ Phase = "up" <=> pc = "up"
  BY DEF Phase, TypeOK, Starting

-----------------------------------------------------------------------------
(* Init.                                                                   *)
LEMMA ThreadsInit == Init => ThreadsInv
  <1> SUFFICES ASSUME Init PROVE ThreadsInv
    OBVIOUS
  <1>1. NetThreadCount \in Nat /\ NetThreadCount # 0
    BY ThreadsAssumption
  <1>2. Param("send", 0) \in Params
    BY <1>1 DEF Params, Param, Dirs
  <1>3. TypeOK
    <2>1. dataThreads \in [Dirs -> Seq(Params)]
      BY DEF Init
    <2>2. sockQ \in [Params -> Seq(Socks \cup {Quit})]
      BY DEF Init
    <2>3. /\ thread \in [Params -> {"none", "starting", "running", "handling", "ended"}]
          /\ current \in [Params -> Socks \cup {Nobody}]
      BY DEF Init
    <2>4. /\ epoll \in [Dirs -> {"none", "waiting", "ended"}]
          /\ events \in [Dirs -> SUBSET Socks]
      BY DEF Init
    <2>5. reports \in 0..MaxReports
      BY ThreadsAssumption DEF Init
    <2>6. initFlag \in BOOLEAN /\ shutdownFlag \in BOOLEAN /\ early \in BOOLEAN
      BY DEF Init
    <2> QED
      BY <1>2, <2>1, <2>2, <2>3, <2>4, <2>5, <2>6 DEF Init, TypeOK
  <1>4. Elements /\ Unstarted /\ Undeleted /\ Handling
    BY DEF Init, Elements, Unstarted, Undeleted, Handling
  <1>5. Sizes
    BY DEF Init, Sizes, SendSize, RecvSize, Starting, Param, Dirs
  <1>6. Placed
    <2> SUFFICES ASSUME NEW p \in Params, NEW s \in Socks, Has(p, s) PROVE FALSE
      BY DEF Placed
    <2>1. current[p] = Nobody /\ sockQ[p] = <<>>
      BY DEF Init
    <2>2. s # Nobody
      BY SockFacts
    <2> QED
      BY <2>1, <2>2 DEF Has
  <1>7. "up" \notin crashed
    BY DEF Init
  <1> QED
    BY <1>3, <1>4, <1>5, <1>6, <1>7 DEF ThreadsInv

-----------------------------------------------------------------------------
(* TypeOK.                                                                 *)

(* The turns of startThreads and of cleanupThreads.                        *)
LEMMA Turns ==
    ASSUME NEW p \in Params
    PROVE  /\ p.dir = "send" => Param("recv", p.index) \in Params
           /\ p.dir = "recv" /\ ~Last(p) => Param("send", p.index + 1) \in Params
           /\ AfterTurn(p) \in Params
  <1>1. NetThreadCount \in Nat /\ NetThreadCount # 0
    BY ThreadsAssumption
  <1>2. p.dir \in Dirs /\ p.index \in 0..(NetThreadCount - 1)
    BY ParamFacts
  <1>3. p.dir = "recv" /\ p.index = NetThreadCount - 1 => Last(p)
    BY ParamFacts DEF Last
  <1>4. \A d \in Dirs, i \in 0..(NetThreadCount - 1) : Param(d, i) \in Params
    BY ParamFacts
  <1>5. "send" \in Dirs /\ "recv" \in Dirs
    BY DEF Dirs
  <1>6. /\ 0 \in 0..(NetThreadCount - 1)
        /\ p.index + 1 < NetThreadCount => p.index + 1 \in 0..(NetThreadCount - 1)
        /\ p.index # NetThreadCount - 1 => p.index + 1 \in 0..(NetThreadCount - 1)
    BY <1>1, <1>2
  <1>7. AfterTurn(p) \in Params
    BY <1>2, <1>4, <1>5, <1>6 DEF AfterTurn
  <1>8. p.dir = "recv" /\ ~Last(p) => Param("send", p.index + 1) \in Params
    BY <1>3, <1>4, <1>5, <1>6
  <1> QED
    BY <1>2, <1>4, <1>5, <1>7, <1>8

LEMMA PrepareTypes ==
    ASSUME TypeOK, Elements, NEW d \in Dirs, NEW s \in Socks, Prepare(d, s)
    PROVE  /\ sockQ' \in [Params -> Seq(Socks \cup {Quit})]
           /\ early' \in BOOLEAN
           /\ crashed' \subseteq {"starting", "up", "failed", "stopping"}
  <1>1. sockQ \in [Params -> Seq(Socks \cup {Quit})]
    BY DEF TypeOK
  <1>2. \A p \in Params : Append(sockQ[p], s) \in Seq(Socks \cup {Quit})
    BY <1>1
  <1>3. sockQ' \in [Params -> Seq(Socks \cup {Quit})]
    <2>1. CASE sockQ' = sockQ
      BY <1>1, <2>1
    <2>2. CASE sockQ' = [sockQ EXCEPT ![Taken(d, s)] = Append(@, s)]
      BY <1>1, <1>2, <2>2
    <2> QED
      BY <2>1, <2>2, PrepareStep
  <1>4. crashed' \subseteq {"starting", "up", "failed", "stopping"}
    BY PrepareCrash, Phases DEF TypeOK
  <1>5. early' \in BOOLEAN
    BY DEF Prepare, TypeOK
  <1> QED
    BY <1>3, <1>4, <1>5

LEMMA SetupTypes ==
    ASSUME TypeOK, SetupStep PROVE TypeOK'
  <1>0. turn \in Params /\ dataThreads \in [Dirs -> Seq(Params)]
    BY DEF TypeOK
  <1>1. CASE SetupSelectors
    BY <1>1 DEF SetupSelectors, TypeOK, dataVars, epollVars
  <1>2. CASE StartEPoll
    <2> USE <1>2 DEF StartEPoll
    <2>1. epoll' \in [Dirs -> {"none", "waiting", "ended"}]
      BY DEF TypeOK
    <2> QED
      BY <2>1 DEF TypeOK, dataVars
  <1>3. CASE PushParam
    <2> USE <1>3 DEF PushParam
    <2>1. \A d \in Dirs : Append(dataThreads[d], turn) \in Seq(Params)
      BY <1>0
    <2>2. dataThreads' \in [Dirs -> Seq(Params)]
      BY <1>0, <2>1, ParamFacts
    <2> QED
      BY <2>2 DEF TypeOK, dataVars, epollVars
  <1>4. CASE CreateThread
    <2> USE <1>4 DEF CreateThread
    <2>1. turn' \in Params
      <3>1. turn.dir \in Dirs
        BY <1>0, ParamFacts
      <3> QED
        BY <1>0, <3>1, Turns DEF Dirs
    <2>2. initFlag' \in BOOLEAN
      BY DEF Last
    <2>3. thread' \in [Params -> {"none", "starting", "running", "handling", "ended"}]
      BY DEF TypeOK
    <2> QED
      BY <2>1, <2>2, <2>3 DEF TypeOK, epollVars
  <1>5. CASE CreateFails
    <2> USE <1>5 DEF CreateFails
    <2>1. SubSeq(dataThreads["send"], 1, Len(dataThreads["send"]) - 1) \in Seq(Params)
      <3>1. dataThreads["send"] \in Seq(Params)
        BY <1>0 DEF Dirs
      <3> QED
        BY <3>1
    <2>2. dataThreads' \in [Dirs -> Seq(Params)]
      BY <1>0, <2>1
    <2> QED
      BY <1>0, <2>2 DEF TypeOK, dataVars, epollVars
  <1> QED
    BY <1>1, <1>2, <1>3, <1>4, <1>5 DEF SetupStep

LEMMA ShutdownTypes ==
    ASSUME TypeOK, BeginShutdown \/ ShutdownStep PROVE TypeOK'
  <1>0. turn \in Params /\ AfterTurn(turn) \in Params
    BY Turns DEF TypeOK
  <1>1. CASE BeginShutdown
    <2> USE <1>1 DEF BeginShutdown
    <2>1. turn' \in Params
      BY ThreadsAssumption DEF Params, Param, Dirs
    <2> QED
      BY <2>1 DEF TypeOK, dataVars, epollVars
  <1>2. CASE PushQuit
    <2> USE <1>2 DEF PushQuit
    <2>1. \A p \in Params : ToldToQuit(p) \in Seq(Socks \cup {Quit})
      BY DEF TypeOK, ToldToQuit
    <2>2. sockQ' \in [Params -> Seq(Socks \cup {Quit})]
      BY <1>0, <2>1 DEF TypeOK
    <2> QED
      BY <1>0, <2>2 DEF TypeOK, dataVars, epollVars
  <1>3. CASE JoinData
    <2> USE <1>3 DEF JoinData
    <2>1. dataThreads' \in [Dirs -> Seq(Params)]
      <3>1. <<>> \in Seq(Params) /\ dataThreads \in [Dirs -> Seq(Params)]
        BY DEF TypeOK
      <3>2. [dataThreads EXCEPT ![turn.dir] = <<>>] \in [Dirs -> Seq(Params)]
        BY <3>1
      <3> QED
        BY <3>1, <3>2
    <2>2. deleted' \subseteq Params
      BY <1>0 DEF TypeOK
    <2> QED
      BY <1>0, <2>1, <2>2 DEF TypeOK, dataVars, epollVars
  <1>4. CASE WriteExit
    BY <1>4 DEF WriteExit, TypeOK, dataVars
  <1>5. CASE JoinEPoll
    BY <1>5 DEF JoinEPoll, TypeOK, dataVars, epollVars
  <1> QED
    BY <1>1, <1>2, <1>3, <1>4, <1>5 DEF ShutdownStep

LEMMA EPollTypes ==
    ASSUME TypeOK, Elements, NEW d \in Dirs, EPollStep(d) PROVE TypeOK'
  <1>1. ASSUME NEW S \in SUBSET Socks, Fetch(d, S) PROVE TypeOK'
    <2> USE <1>1 DEF Fetch
    <2>1. events' \in [Dirs -> SUBSET Socks]
      BY DEF TypeOK
    <2>2. exitInfo' \subseteq Dirs /\ exitCmd' \subseteq Dirs
      BY DEF TypeOK
    <2>3. reports' \in 0..MaxReports
      BY ThreadsAssumption DEF TypeOK
    <2> QED
      BY <2>1, <2>2, <2>3 DEF TypeOK, dataVars, callerVars
  <1>2. CASE EndEPoll(d)
    <2> USE <1>2 DEF EndEPoll
    <2>1. epoll' \in [Dirs -> {"none", "waiting", "ended"}]
      BY DEF TypeOK
    <2> QED
      BY <2>1 DEF TypeOK, dataVars, callerVars
  <1>3. ASSUME NEW s \in Socks, HandOver(d, s) PROVE TypeOK'
    <2> USE <1>3 DEF HandOver
    <2>1. events' \in [Dirs -> SUBSET Socks]
      BY DEF TypeOK
    <2>2. /\ sockQ' \in [Params -> Seq(Socks \cup {Quit})]
          /\ early' \in BOOLEAN
          /\ crashed' \subseteq {"starting", "up", "failed", "stopping"}
      BY PrepareTypes
    <2> QED
      BY <2>1, <2>2 DEF TypeOK, dataVars, callerVars
  <1> QED
    BY <1>1, <1>2, <1>3 DEF EPollStep

LEMMA DataTypes ==
    ASSUME TypeOK, Elements, Handling, NEW p \in Params, DataStep(p) \/ Answer(p)
    PROVE  TypeOK'
  <1>0. sockQ[p] \in Seq(Socks \cup {Quit}) /\ p.dir \in Dirs
    BY ParamFacts DEF TypeOK
  <1>1. CASE LookUp(p)
    <2> USE <1>1 DEF LookUp
    <2>1. thread' \in [Params -> {"none", "starting", "running", "handling", "ended"}]
      BY DEF TypeOK
    <2>2. crashed' \subseteq {"starting", "up", "failed", "stopping"}
      BY Phases DEF TypeOK
    <2> QED
      BY <2>1, <2>2 DEF TypeOK, epollVars, callerVars
  <1>2. CASE Take(p)
    <2> USE <1>2 DEF Take
    <2>1. thread' \in [Params -> {"none", "starting", "running", "handling", "ended"}]
      BY DEF TypeOK
    <2>2. Head(sockQ[p]) \in Socks
      BY <1>0, HoldsHead
    <2>3. current' \in [Params -> Socks \cup {Nobody}]
      BY <2>2 DEF TypeOK
    <2>4. Following(sockQ[p]) \in Seq(Socks \cup {Quit})
      BY <1>0, HoldsFollowing
    <2>5. sockQ' \in [Params -> Seq(Socks \cup {Quit})]
      BY <2>4 DEF TypeOK
    <2> QED
      BY <2>1, <2>3, <2>5 DEF TypeOK, epollVars, callerVars
  <1>3. CASE Handled(p)
    <2> USE <1>3 DEF Handled
    <2>1. thread' \in [Params -> {"none", "starting", "running", "handling", "ended"}]
      BY DEF TypeOK
    <2>2. current' \in [Params -> Socks \cup {Nobody}]
      BY DEF TypeOK
    <2> QED
      BY <2>1, <2>2 DEF TypeOK, epollVars, callerVars
  <1>4. CASE TakeQuit(p)
    <2> USE <1>4 DEF TakeQuit
    <2>1. thread' \in [Params -> {"none", "starting", "running", "handling", "ended"}]
      BY DEF TypeOK
    <2>2. Tail(sockQ[p]) \in Seq(Socks \cup {Quit})
      BY <1>0
    <2>3. sockQ' \in [Params -> Seq(Socks \cup {Quit})]
      BY <2>2 DEF TypeOK
    <2> QED
      BY <2>1, <2>3 DEF TypeOK, epollVars, callerVars
  <1>5. CASE Answer(p)
    <2> USE <1>5 DEF Answer
    <2>1. current[p] \in Socks /\ "send" \in Dirs
      BY DEF Handling, Dirs
    <2>2. /\ sockQ' \in [Params -> Seq(Socks \cup {Quit})]
          /\ early' \in BOOLEAN
          /\ crashed' \subseteq {"starting", "up", "failed", "stopping"}
      BY <2>1, PrepareTypes
    <2>3. reports' \in 0..MaxReports
      BY ThreadsAssumption DEF TypeOK
    <2> QED
      BY <2>2, <2>3 DEF TypeOK, dataVars, epollVars, callerVars
  <1> QED
    BY <1>1, <1>2, <1>3, <1>4, <1>5 DEF DataStep

LEMMA TypesStep ==
    ASSUME TypeOK, Elements, Handling, Next PROVE TypeOK'
  BY SetupTypes, ShutdownTypes, EPollTypes, DataTypes DEF Next

-----------------------------------------------------------------------------
(* What the vectors hold.                                                  *)

(* Only the steps of setup and shutdown move pc and turn, and three of     *)
(* them change a vector.                                                   *)
LEMMA OtherSteps ==
    ASSUME Next
    PROVE  SetupStep \/ BeginShutdown \/ ShutdownStep
             \/ UNCHANGED <<callerVars, dataThreads, deleted>>
  <1>1. ASSUME NEW d \in Dirs, EPollStep(d) PROVE UNCHANGED <<callerVars, dataThreads, deleted>>
    BY <1>1 DEF EPollStep, Fetch, EndEPoll, HandOver, callerVars
  <1>2. ASSUME NEW p \in Params, DataStep(p) \/ Answer(p)
        PROVE  UNCHANGED <<callerVars, dataThreads, deleted>>
    BY <1>2 DEF DataStep, LookUp, Take, Handled, TakeQuit, Answer, callerVars
  <1> QED
    BY <1>1, <1>2 DEF Next

LEMMA ElementsStep ==
    ASSUME TypeOK, Elements, Sizes, Next PROVE Elements'
  <1>0. /\ turn \in Params /\ turn.dir \in Dirs /\ turn = Param(turn.dir, turn.index)
        /\ turn.index \in Nat
    BY ParamFacts DEF TypeOK
  <1>1. CASE UNCHANGED dataThreads
    BY <1>1 DEF Elements
  <1>2. CASE PushParam
    <2> SUFFICES ASSUME NEW d \in Dirs, NEW j \in DOMAIN dataThreads'[d]
                 PROVE  dataThreads'[d][j] = Param(d, j - 1)
      BY DEF Elements
    <2>1. dataThreads[d] \in Seq(Params) /\ dataThreads[d] = dataThreads[d]
      BY DEF TypeOK
    <2>2. CASE d # turn.dir
      <3>1. dataThreads'[d] = dataThreads[d]
        BY <1>0, <1>2, <2>2 DEF PushParam, TypeOK
      <3> QED
        BY <3>1 DEF Elements
    <2>3. CASE d = turn.dir
      <3>1. dataThreads'[d] = Append(dataThreads[d], turn)
        BY <1>0, <1>2, <2>3 DEF PushParam, TypeOK
      <3>2. Len(dataThreads[d]) = turn.index
        BY <1>0, <1>2, <2>3 DEF PushParam, Sizes, SendSize, RecvSize, Starting, Dirs
      <3>3. CASE j = turn.index + 1
        <4>1. dataThreads'[d][j] = turn
          BY <2>1, <3>1, <3>2, <3>3
        <4>2. j - 1 = turn.index
          BY <1>0, <3>3
        <4> QED
          BY <1>0, <2>3, <4>1, <4>2
      <3>4. CASE j # turn.index + 1
        <4>1. j \in DOMAIN dataThreads[d] /\ dataThreads'[d][j] = dataThreads[d][j]
          BY <1>0, <2>1, <3>1, <3>2, <3>4
        <4> QED
          BY <4>1 DEF Elements
      <3> QED
        BY <3>3, <3>4
    <2> QED
      BY <2>2, <2>3
  <1>3. CASE CreateFails
    <2> SUFFICES ASSUME NEW d \in Dirs, NEW j \in DOMAIN dataThreads'[d]
                 PROVE  dataThreads'[d][j] = Param(d, j - 1)
      BY DEF Elements
    <2>1. dataThreads[d] \in Seq(Params)
      BY DEF TypeOK
    <2>2. CASE d # "send"
      <3>1. dataThreads'[d] = dataThreads[d]
        BY <1>3, <2>2 DEF CreateFails, TypeOK
      <3> QED
        BY <3>1 DEF Elements
    <2>3. CASE d = "send"
      <3>1. dataThreads'[d] = SubSeq(dataThreads[d], 1, Len(dataThreads[d]) - 1)
        BY <1>3, <2>3 DEF CreateFails, TypeOK
      <3>2. j \in DOMAIN dataThreads[d] /\ dataThreads'[d][j] = dataThreads[d][j]
        BY <2>1, <3>1
      <3> QED
        BY <3>2 DEF Elements
    <2> QED
      BY <2>2, <2>3
  <1>4. CASE JoinData
    <2> SUFFICES ASSUME NEW d \in Dirs, NEW j \in DOMAIN dataThreads'[d]
                 PROVE  dataThreads'[d][j] = Param(d, j - 1)
      BY DEF Elements
    <2>1. dataThreads'[d] = dataThreads[d] \/ dataThreads'[d] = <<>>
      BY <1>0, <1>4 DEF JoinData, TypeOK
    <2> QED
      BY <2>1 DEF Elements
  <1>5. SetupStep => UNCHANGED dataThreads \/ PushParam \/ CreateFails
    BY DEF SetupStep, SetupSelectors, StartEPoll, CreateThread
  <1>6. BeginShutdown \/ ShutdownStep => UNCHANGED dataThreads \/ JoinData
    BY DEF BeginShutdown, ShutdownStep, PushQuit, WriteExit, JoinEPoll
  <1> QED
    BY <1>1, <1>2, <1>3, <1>4, <1>5, <1>6, OtherSteps

LEMMA SizesStep ==
    ASSUME TypeOK, Sizes, Next PROVE Sizes'
  <1> USE DEF Starting
  <1>0. /\ turn \in Params /\ turn.dir \in Dirs /\ turn = Param(turn.dir, turn.index)
        /\ turn.index \in 0..(NetThreadCount - 1) /\ NetThreadCount \in Nat
    BY ParamFacts, ThreadsAssumption DEF TypeOK
  <1>1. /\ dataThreads["send"] \in Seq(Params) /\ dataThreads["recv"] \in Seq(Params)
        /\ "send" \in Dirs /\ "recv" \in Dirs /\ \A d \in Dirs : d = "send" \/ d = "recv"
        /\ DOMAIN dataThreads = Dirs
    BY DEF TypeOK, Dirs
  <1>2. CASE UNCHANGED <<callerVars, dataThreads, deleted>>
    BY <1>2 DEF Sizes, callerVars, SendSize, RecvSize
  <1>3. CASE SetupSelectors \/ StartEPoll
    <2>1. /\ UNCHANGED <<turn, dataThreads>> /\ pc \in {"selectors", "recvEpoll", "sendEpoll"}
          /\ pc' \in {"recvEpoll", "sendEpoll", "push", "failed"}
      BY <1>3 DEF SetupSelectors, StartEPoll, Dirs
    <2>2. turn = Param("send", 0) /\ turn.dir = "send" /\ turn.index = 0
      BY <2>1 DEF Sizes, Param
    <2>3. Len(dataThreads["send"]) = 0 /\ Len(dataThreads["recv"]) = 0
      BY <2>1, <2>2 DEF Sizes, SendSize, RecvSize
    <2> QED
      BY <2>1, <2>2, <2>3 DEF Sizes, SendSize, RecvSize
  <1>4. CASE PushParam
    <2>1. pc = "push" /\ pc' = "create" /\ turn' = turn
      BY <1>4 DEF PushParam
    <2>2. \A d \in Dirs : Len(dataThreads'[d]) =
            IF d = turn.dir THEN Len(dataThreads[d]) + 1 ELSE Len(dataThreads[d])
      BY <1>0, <1>1, <1>4 DEF PushParam
    <2>3. Len(dataThreads["send"]) = SendSize /\ Len(dataThreads["recv"]) = RecvSize
      BY <2>1 DEF Sizes
    <2> QED
      BY <1>0, <1>1, <2>1, <2>2, <2>3 DEF Sizes, SendSize, RecvSize
  <1>5. CASE CreateThread
    <2>1. pc = "create" /\ UNCHANGED dataThreads
          /\ pc' = (IF Last(turn) THEN "up" ELSE "push")
          /\ turn' = IF turn.dir = "send" THEN Param("recv", turn.index)
                     ELSE IF Last(turn) THEN turn ELSE Param("send", turn.index + 1)
      BY <1>5 DEF CreateThread
    <2>2. Len(dataThreads["send"]) = SendSize /\ Len(dataThreads["recv"]) = RecvSize
      BY <2>1 DEF Sizes
    <2>3. CASE turn.dir = "send"
      <3>1. ~Last(turn)
        BY <2>3 DEF Last, Param
      <3>2. turn'.dir = "recv" /\ turn'.index = turn.index /\ pc' = "push"
        BY <2>1, <2>3, <3>1 DEF Param
      <3> QED
        BY <1>0, <1>1, <2>1, <2>2, <2>3, <3>2 DEF Sizes, SendSize, RecvSize
    <2>4. CASE turn.dir = "recv" /\ Last(turn)
      <3>1. turn.index = NetThreadCount - 1 /\ pc' = "up"
        BY <2>1, <2>4 DEF Last, Param
      <3>2. \A d \in Dirs : Len(dataThreads[d]) = NetThreadCount
        BY <1>0, <1>1, <2>1, <2>2, <2>4, <3>1 DEF SendSize, RecvSize
      <3> QED
        BY <2>1, <3>1, <3>2 DEF Sizes
    <2>5. CASE turn.dir = "recv" /\ ~Last(turn)
      <3>1. turn'.dir = "send" /\ turn'.index = turn.index + 1 /\ pc' = "push"
        BY <2>1, <2>5 DEF Param
      <3> QED
        BY <1>0, <1>1, <2>1, <2>2, <2>5, <3>1 DEF Sizes, SendSize, RecvSize
    <2> QED
      BY <1>0, <1>1, <2>3, <2>4, <2>5
  <1>6. CASE CreateFails
    BY <1>6 DEF CreateFails, Sizes
  <1>7. CASE BeginShutdown \/ PushQuit
    <2>1. pc \in {"up", "quit"} /\ pc' \in {"quit", "join"} /\ UNCHANGED dataThreads
      BY <1>7 DEF BeginShutdown, PushQuit
    <2> QED
      BY <2>1 DEF Sizes
  <1>8. CASE JoinData
    <2>1. pc = "join" /\ pc' \in {"exit", "join"}
      BY <1>8 DEF JoinData
    <2>2. \A d \in Dirs : dataThreads'[d] = dataThreads[d] \/ dataThreads'[d] = <<>>
      BY <1>0, <1>1, <1>8 DEF JoinData
    <2>3. \A d \in Dirs : Len(dataThreads'[d]) \in {0, NetThreadCount}
      BY <2>1, <2>2 DEF Sizes
    <2> QED
      BY <2>1, <2>3 DEF Sizes
  <1>9. CASE WriteExit \/ JoinEPoll
    <2>1. /\ pc \in {"exit", "joinEpoll"} /\ pc' \in {"joinEpoll", "down"}
          /\ UNCHANGED dataThreads
      BY <1>9 DEF WriteExit, JoinEPoll
    <2> QED
      BY <2>1 DEF Sizes
  <1> QED
    BY <1>2, <1>3, <1>4, <1>5, <1>6, <1>7, <1>8, <1>9, OtherSteps DEF SetupStep, ShutdownStep

-----------------------------------------------------------------------------
(* The data threads.                                                       *)

(* What a step does to the data threads: one that has an element deleted   *)
(* or has not been created goes on only by being created.                  *)
LEMMA ThreadMoves ==
    ASSUME TypeOK, Next, NEW p \in Params
    PROVE  \/ thread'[p] = thread[p]
           \/ CreateThread /\ p = turn
           \/ thread[p] \notin {"none", "ended"} /\ UNCHANGED <<callerVars, deleted>>
  <1>0. thread \in [Params -> {"none", "starting", "running", "handling", "ended"}]
    BY DEF TypeOK
  <1>1. CASE CreateThread
    BY <1>0, <1>1 DEF CreateThread
  <1>2. CASE SetupStep /\ ~CreateThread
    BY <1>2 DEF SetupStep, SetupSelectors, StartEPoll, PushParam, CreateFails, dataVars
  <1>3. CASE BeginShutdown \/ ShutdownStep
    BY <1>3 DEF BeginShutdown, ShutdownStep, PushQuit, JoinData, WriteExit, JoinEPoll,
                dataVars
  <1>4. ASSUME NEW d \in Dirs, EPollStep(d) PROVE thread'[p] = thread[p]
    BY <1>4 DEF EPollStep, Fetch, EndEPoll, HandOver, dataVars
  <1>5. ASSUME NEW q \in Params, DataStep(q) \/ Answer(q)
        PROVE  \/ thread'[p] = thread[p]
               \/ thread[p] \notin {"none", "ended"} /\ UNCHANGED <<callerVars, deleted>>
    <2>1. CASE p # q
      BY <1>0, <1>5, <2>1 DEF DataStep, LookUp, Take, Handled, TakeQuit, Answer, dataVars
    <2>2. CASE p = q
      BY <1>0, <1>5, <2>2 DEF DataStep, LookUp, Take, Handled, TakeQuit, Answer, dataVars
    <2> QED
      BY <2>1, <2>2
  <1> QED
    BY <1>1, <1>2, <1>3, <1>4, <1>5 DEF Next

LEMMA UnstartedStep ==
    ASSUME TypeOK, Unstarted, Next, Sizes PROVE Unstarted'
  <1> USE DEF Starting
  <1> SUFFICES ASSUME pc' \in Starting, NEW p \in Params, ~Before(p, turn')
               PROVE  thread'[p] = "none"
    BY DEF Unstarted, Before
  <1>0. /\ turn \in Params /\ turn.dir \in Dirs /\ turn = Param(turn.dir, turn.index)
        /\ turn.index \in Nat /\ p.index \in Nat /\ p.dir \in Dirs
        /\ \A d \in Dirs : d = "send" \/ d = "recv"
    BY ParamFacts DEF TypeOK, Dirs
  <1>1. CASE CreateThread
    <2>1. /\ pc = "create" /\ pc' = (IF Last(turn) THEN "up" ELSE "push")
          /\ turn' = IF turn.dir = "send" THEN Param("recv", turn.index)
                     ELSE IF Last(turn) THEN turn ELSE Param("send", turn.index + 1)
      BY <1>1 DEF CreateThread
    <2>2. ~Last(turn)
      BY <2>1
    <2>3. /\ turn'.dir = IF turn.dir = "send" THEN "recv" ELSE "send"
          /\ turn'.index = IF turn.dir = "send" THEN turn.index ELSE turn.index + 1
      BY <2>1, <2>2 DEF Param
    <2>4. ~Before(p, turn)
      BY <1>0, <2>3 DEF Before
    <2>5. p # turn
      BY <1>0, <2>3 DEF Before
    <2>6. thread[p] = "none"
      BY <2>1, <2>4 DEF Unstarted
    <2> QED
      BY <1>1, <2>5, <2>6 DEF CreateThread, TypeOK
  <1>2. CASE ~CreateThread
    <2>1. pc \in Starting /\ turn' = turn
      <3>1. CASE SetupStep
        BY <1>2, <3>1 DEF SetupStep, SetupSelectors, StartEPoll, PushParam, CreateFails, Dirs
      <3>2. CASE BeginShutdown \/ ShutdownStep
        BY <3>2 DEF BeginShutdown, ShutdownStep, PushQuit, JoinData, WriteExit, JoinEPoll
      <3>3. CASE UNCHANGED <<callerVars, dataThreads, deleted>>
        BY <3>3 DEF callerVars
      <3> QED
        BY <3>1, <3>2, <3>3, OtherSteps
    <2>2. thread[p] = "none"
      BY <2>1 DEF Unstarted
    <2> QED
      BY <1>2, <2>2, ThreadMoves
  <1> QED
    BY <1>1, <1>2

LEMMA UndeletedStep ==
    ASSUME TypeOK, Unstarted, Undeleted, Next PROVE Undeleted'
  <1> USE DEF Starting
  <1>0. /\ turn \in Params /\ turn.index \in Nat
        /\ thread \in [Params -> {"none", "starting", "running", "handling", "ended"}]
    BY ParamFacts DEF TypeOK
  <1>1. ASSUME NEW p \in deleted PROVE thread'[p] \in {"none", "ended"}
    <2>1. p \in Params /\ thread[p] \in {"none", "ended"}
      BY <1>1 DEF TypeOK, Undeleted
    <2>2. ~CreateThread
      BY <1>1 DEF CreateThread, Undeleted
    <2> QED
      BY <2>1, <2>2, ThreadMoves
  <1>2. CASE CreateFails
    <2>1. ~Before(turn, turn)
      BY <1>0 DEF Before
    <2>2. thread[turn] = "none"
      BY <1>0, <1>2, <2>1 DEF CreateFails, Unstarted
    <2> QED
      BY <1>1, <1>2, <2>2 DEF CreateFails, Undeleted, dataVars
  <1>3. CASE JoinData
    BY <1>1, <1>3 DEF JoinData, Undeleted, dataVars
  <1>4. CASE ~CreateFails /\ ~JoinData
    <2>1. deleted' = deleted
          /\ (pc' \in Starting \cup {"up", "quit"} => pc \in Starting \cup {"up", "quit"})
      <3>1. CASE SetupStep
        BY <1>4, <3>1 DEF SetupStep, SetupSelectors, StartEPoll, PushParam, CreateThread, Dirs
      <3>2. CASE BeginShutdown \/ ShutdownStep
        BY <1>4, <3>2 DEF BeginShutdown, ShutdownStep, PushQuit, WriteExit, JoinEPoll
      <3>3. CASE UNCHANGED <<callerVars, dataThreads, deleted>>
        BY <3>3 DEF callerVars
      <3> QED
        BY <3>1, <3>2, <3>3, OtherSteps
    <2> QED
      BY <1>1, <2>1 DEF Undeleted
  <1> QED
    BY <1>2, <1>3, <1>4

LEMMA HandlingStep ==
    ASSUME TypeOK, Handling, Next PROVE Handling'
  <1> SUFFICES ASSUME NEW p \in Params, thread'[p] = "handling" PROVE current'[p] \in Socks
    BY DEF Handling
  <1>0. /\ thread \in [Params -> {"none", "starting", "running", "handling", "ended"}]
        /\ current \in [Params -> Socks \cup {Nobody}]
    BY DEF TypeOK
  <1>1. CASE thread'[p] = thread[p] /\ current'[p] = current[p]
    BY <1>1 DEF Handling
  <1>2. CASE SetupStep \/ BeginShutdown \/ ShutdownStep
    BY <1>0, <1>1, <1>2 DEF SetupStep, SetupSelectors, StartEPoll, PushParam, CreateThread,
         CreateFails, BeginShutdown, ShutdownStep, PushQuit, JoinData, WriteExit, JoinEPoll,
         dataVars
  <1>3. ASSUME NEW d \in Dirs, EPollStep(d) PROVE current'[p] \in Socks
    BY <1>1, <1>3 DEF EPollStep, Fetch, EndEPoll, HandOver, dataVars
  <1>4. ASSUME NEW q \in Params, DataStep(q) \/ Answer(q) PROVE current'[p] \in Socks
    <2>1. CASE LookUp(q) \/ TakeQuit(q) \/ Answer(q)
      BY <1>0, <1>1, <2>1 DEF LookUp, TakeQuit, Answer, dataVars
    <2>2. CASE Handled(q)
      BY <1>0, <1>1, <2>2 DEF Handled
    <2>3. CASE Take(q)
      <3>1. sockQ[q] \in Seq(Socks \cup {Quit}) /\ sockQ[q] # <<>> /\ Head(sockQ[q]) # Quit
        BY <2>3 DEF Take, TypeOK
      <3>2. Head(sockQ[q]) \in Socks
        BY <3>1, HoldsHead
      <3> QED
        BY <1>0, <1>1, <2>3, <3>2 DEF Take
    <2> QED
      BY <1>4, <2>1, <2>2, <2>3 DEF DataStep
  <1> QED
    BY <1>2, <1>3, <1>4 DEF Next

(* While Net is up every data thread's element is there.                   *)
LEMMA UpStep ==
    ASSUME ThreadsInv, Next PROVE "up" \notin crashed'
  <1>0. "up" \notin crashed /\ TypeOK /\ Elements
    BY DEF ThreadsInv
  <1>1. ASSUME NEW d \in Dirs, NEW s \in Socks, Prepare(d, s) PROVE "up" \notin crashed'
    <2>1. SUFFICES ASSUME Phase = "up", Missing(d, s) \/ Growing(d) PROVE FALSE
      BY <1>0, <1>1, PrepareCrash
    <2>2. pc = "up"
      BY <1>0, <2>1, Phases
    <2>3. ~Growing(d)
      BY <2>2 DEF Growing
    <2>4. Len(dataThreads[d]) = NetThreadCount /\ deleted = {}
      BY <2>2 DEF ThreadsInv, Sizes, Undeleted
    <2>5. dataThreads[d] # <<>>
      BY <2>4, ThreadsAssumption
    <2> QED
      BY <2>1, <2>3, <2>4, <2>5 DEF Missing
  <1>2. CASE SetupStep \/ BeginShutdown \/ ShutdownStep
    BY <1>0, <1>2 DEF SetupStep, SetupSelectors, StartEPoll, PushParam, CreateThread,
         CreateFails, BeginShutdown, ShutdownStep, PushQuit, JoinData, WriteExit, JoinEPoll
  <1>3. ASSUME NEW d \in Dirs, EPollStep(d) PROVE "up" \notin crashed'
    BY <1>0, <1>1, <1>3 DEF EPollStep, Fetch, EndEPoll, HandOver
  <1>4. ASSUME NEW p \in Params, DataStep(p) \/ Answer(p) PROVE "up" \notin crashed'
    <2>1. CASE LookUp(p)
      <3>1. crashed' = crashed \/ (pc = "push" /\ crashed' = crashed \cup {Phase})
        BY <2>1 DEF LookUp, Growing
      <3>2. pc = "push" => Phase # "up"
        BY <1>0, Phases
      <3> QED
        BY <1>0, <3>1, <3>2
    <2>2. CASE Take(p) \/ Handled(p) \/ TakeQuit(p)
      BY <1>0, <2>2 DEF Take, Handled, TakeQuit
    <2>3. CASE Answer(p)
      <3>1. current[p] \in Socks /\ "send" \in Dirs
        BY <2>3 DEF ThreadsInv, Handling, Answer, Dirs
      <3> QED
        BY <1>1, <2>3, <3>1 DEF Answer
    <2> QED
      BY <1>4, <2>1, <2>2, <2>3 DEF DataStep
  <1> QED
    BY <1>2, <1>3, <1>4 DEF Next

-----------------------------------------------------------------------------
(* Which data thread has a socket.                                         *)

(* A thread gets a socket by its being handed over.                        *)
LEMMA HasStep ==
    ASSUME ThreadsInv, Next, NEW p \in Params, NEW t \in Socks, Has(p, t)'
    PROVE  \/ Has(p, t)
           \/ \E d \in Dirs : /\ Prepare(d, t) /\ dataThreads[d] # <<>> /\ p = Taken(d, t)
                              /\ Taken(d, t) \in Params
                              /\ Index(d, t) \in 0..(Len(dataThreads[d]) - 1)
                              /\ UNCHANGED <<callerVars, dataThreads>>
  <1>0. TypeOK /\ Elements /\ Handling
    BY DEF ThreadsInv
  <1>1. /\ current \in [Params -> Socks \cup {Nobody}]
        /\ sockQ \in [Params -> Seq(Socks \cup {Quit})]
        /\ t \notin {Quit, Nobody}
    BY <1>0, SockFacts DEF TypeOK
  <1>2. Has(p, t) \/ ~(current'[p] = current[p] /\ sockQ'[p] = sockQ[p])
    BY DEF Has
  <1>3. ASSUME NEW d \in Dirs, NEW s \in Socks, Prepare(d, s), current' = current,
               UNCHANGED <<callerVars, dataThreads>>
        PROVE  \/ Has(p, t)
               \/ \E e \in Dirs : /\ Prepare(e, t) /\ dataThreads[e] # <<>> /\ p = Taken(e, t)
                                  /\ Taken(e, t) \in Params
                                  /\ Index(e, t) \in 0..(Len(dataThreads[e]) - 1)
                                  /\ UNCHANGED <<callerVars, dataThreads>>
    <2>1. CASE sockQ'[p] = sockQ[p]
      BY <1>2, <1>3, <2>1
    <2>2. CASE /\ dataThreads[d] # <<>> /\ Taken(d, s) \in Params
               /\ Index(d, s) \in 0..(Len(dataThreads[d]) - 1)
               /\ sockQ' = [sockQ EXCEPT ![Taken(d, s)] = Append(@, s)]
               /\ p = Taken(d, s)
      <3>1. sockQ'[p] = Append(sockQ[p], s)
        BY <1>1, <2>2
      <3>2. Has(p, t) \/ t = s
        <4>1. CASE t = current'[p]
          BY <1>3, <4>1 DEF Has
        <4>2. CASE Holds(sockQ'[p], t)
          <5>1. Holds(sockQ[p], t) \/ t = s
            BY <1>1, <3>1, <4>2, HoldsAppend
          <5> QED
            BY <5>1 DEF Has, Holds
        <4> QED
          BY <4>1, <4>2 DEF Has, Holds
      <3> QED
        BY <1>3, <2>2, <3>2
    <2>3. CASE sockQ' = [sockQ EXCEPT ![Taken(d, s)] = Append(@, s)] /\ p # Taken(d, s)
      BY <1>1, <1>2, <1>3, <2>3
    <2> QED
      BY <1>0, <1>3, <2>1, <2>2, <2>3, PrepareStep
  <1>4. CASE SetupStep \/ BeginShutdown
    BY <1>2, <1>4 DEF SetupStep, SetupSelectors, StartEPoll, PushParam, CreateThread,
         CreateFails, BeginShutdown, dataVars
  <1>5. CASE ShutdownStep
    <2>1. CASE JoinData \/ WriteExit \/ JoinEPoll
      BY <1>2, <2>1 DEF JoinData, WriteExit, JoinEPoll, dataVars
    <2>2. CASE PushQuit
      <3>1. current' = current /\ (sockQ'[p] = sockQ[p] \/ sockQ'[p] = Append(sockQ[p], Quit))
        BY <1>1, <2>2 DEF PushQuit, ToldToQuit, dataVars
      <3>2. sockQ[p] \in Seq(Socks \cup {Quit}) /\ Quit \in Socks \cup {Quit}
        BY <1>1
      <3>3. Holds(Append(sockQ[p], Quit), t) => Holds(sockQ[p], t) \/ t = Quit
        BY <3>2, HoldsAppend
      <3>4. Holds(sockQ'[p], t) => Holds(sockQ[p], t)
        BY <1>1, <3>1, <3>3
      <3> QED
        BY <3>1, <3>4 DEF Has, Holds
    <2> QED
      BY <1>5, <2>1, <2>2 DEF ShutdownStep
  <1>6. ASSUME NEW d \in Dirs, EPollStep(d), ~Has(p, t)
        PROVE  \E e \in Dirs : /\ Prepare(e, t) /\ dataThreads[e] # <<>> /\ p = Taken(e, t)
                               /\ Taken(e, t) \in Params
                               /\ Index(e, t) \in 0..(Len(dataThreads[e]) - 1)
                               /\ UNCHANGED <<callerVars, dataThreads>>
    <2>1. \A S \in SUBSET Socks : ~Fetch(d, S)
      BY <1>2, <1>6 DEF Fetch, dataVars
    <2>2. ~EndEPoll(d)
      BY <1>2, <1>6 DEF EndEPoll, dataVars
    <2>3. PICK s \in Socks : HandOver(d, s)
      BY <1>6, <2>1, <2>2 DEF EPollStep
    <2>4. Prepare(d, s) /\ current' = current /\ UNCHANGED <<callerVars, dataThreads>>
      BY <2>3 DEF HandOver, dataVars
    <2> QED
      BY <1>3, <1>6, <2>4
  <1>7. ASSUME NEW q \in Params, DataStep(q) \/ Answer(q), ~Has(p, t)
        PROVE  \E e \in Dirs : /\ Prepare(e, t) /\ dataThreads[e] # <<>> /\ p = Taken(e, t)
                               /\ Taken(e, t) \in Params
                               /\ Index(e, t) \in 0..(Len(dataThreads[e]) - 1)
                               /\ UNCHANGED <<callerVars, dataThreads>>
    <2>1. ~LookUp(q)
      BY <1>2, <1>7 DEF LookUp
    <2>2. ~Handled(q)
      <3> SUFFICES ASSUME Handled(q) PROVE FALSE
        OBVIOUS
      <3>1. sockQ' = sockQ /\ current'[p] \in {current[p], Nobody}
        BY <1>1 DEF Handled
      <3> QED
        BY <1>1, <1>7, <3>1 DEF Has
    <2>3. ~TakeQuit(q)
      <3> SUFFICES ASSUME TakeQuit(q) PROVE FALSE
        OBVIOUS
      <3>1. /\ current' = current /\ sockQ[q] # <<>>
            /\ sockQ'[p] = sockQ[p] \/ (p = q /\ sockQ'[p] = Tail(sockQ[p]))
        BY <1>1 DEF TakeQuit
      <3>2. Holds(sockQ'[p], t) => Holds(sockQ[p], t)
        BY <1>1, <3>1, HoldsTail
      <3> QED
        BY <1>7, <3>1, <3>2 DEF Has, Holds
    <2>4. ~Take(q)
      <3> SUFFICES ASSUME Take(q) PROVE FALSE
        OBVIOUS
      <3>1. /\ sockQ[q] # <<>>
            /\ \/ current'[p] = current[p] /\ sockQ'[p] = sockQ[p]
               \/ p = q /\ current'[p] = Head(sockQ[p]) /\ sockQ'[p] = Following(sockQ[p])
        BY <1>1 DEF Take
      <3>2. Holds(sockQ'[p], t) => Holds(sockQ[p], t)
        BY <1>1, <3>1, HoldsFollowing
      <3>3. current'[p] = t => Holds(sockQ[p], t) \/ current[p] = t
        BY <1>1, <3>1, HoldsHead
      <3> QED
        BY <1>7, <3>2, <3>3 DEF Has, Holds
    <2>5. Answer(q)
      BY <1>7, <2>1, <2>2, <2>3, <2>4 DEF DataStep
    <2>6. /\ "send" \in Dirs /\ current[q] \in Socks /\ Prepare("send", current[q])
          /\ current' = current /\ UNCHANGED <<callerVars, dataThreads>>
      BY <1>0, <2>5 DEF Answer, Handling, Dirs, dataVars
    <2> QED
      BY <1>3, <1>7, <2>6
  <1> QED
    BY <1>4, <1>5, <1>6, <1>7 DEF Next

(* Setup is over once, and a Net that has failed is left as it is.         *)
LEMMA SetupOnce ==
    ASSUME Next, pc \notin Starting
    PROVE  /\ pc' \notin Starting
           /\ pc' = "failed" <=> pc = "failed"
           /\ pc = "failed" => UNCHANGED dataThreads
  <1>1. CASE SetupStep
    BY <1>1 DEF SetupStep, SetupSelectors, StartEPoll, PushParam, CreateThread, CreateFails,
                Starting
  <1>2. CASE BeginShutdown \/ ShutdownStep
    BY <1>2 DEF BeginShutdown, ShutdownStep, PushQuit, JoinData, WriteExit, JoinEPoll,
                Starting
  <1>3. CASE UNCHANGED <<callerVars, dataThreads, deleted>>
    BY <1>3 DEF callerVars
  <1> QED
    BY <1>1, <1>2, <1>3, OtherSteps

LEMMA PlacedStep ==
    ASSUME ThreadsInv, Next PROVE Placed'
  <1> SUFFICES ASSUME ~early', NEW p \in Params, NEW s \in Socks, Has(p, s)'
               PROVE  pc' \notin Starting /\ p.index = s % Size(p.dir)'
    BY DEF Placed
  <1>0. TypeOK /\ Elements
    BY DEF ThreadsInv
  <1>1. ~early
    <2>1. \A d \in Dirs, t \in Socks : Prepare(d, t) => ~early
      BY DEF Prepare
    <2>2. CASE SetupStep \/ BeginShutdown \/ ShutdownStep
      BY <2>2 DEF SetupStep, SetupSelectors, StartEPoll, PushParam, CreateThread,
           CreateFails, BeginShutdown, ShutdownStep, PushQuit, JoinData, WriteExit, JoinEPoll
    <2>3. ASSUME NEW d \in Dirs, EPollStep(d) PROVE ~early
      BY <2>1, <2>3 DEF EPollStep, Fetch, EndEPoll, HandOver
    <2>4. ASSUME NEW q \in Params, DataStep(q) \/ Answer(q) PROVE ~early
      <3>1. Answer(q) => Prepare("send", current[q])
        BY DEF Answer
      <3> QED
        BY <2>4, <3>1 DEF DataStep, LookUp, Take, Handled, TakeQuit, Prepare
    <2> QED
      BY <2>2, <2>3, <2>4 DEF Next
  <1>2. CASE Has(p, s)
    <2>1. pc \notin Starting /\ p.index = s % Size(p.dir)
      BY <1>1, <1>2 DEF ThreadsInv, Placed
    <2>2. pc' \notin Starting /\ Size(p.dir)' = Size(p.dir)
      BY <2>1, SetupOnce DEF Size
    <2> QED
      BY <2>1, <2>2
  <1>3. ASSUME NEW d \in Dirs, Prepare(d, s), dataThreads[d] # <<>>, p = Taken(d, s),
               Taken(d, s) \in Params, Index(d, s) \in 0..(Len(dataThreads[d]) - 1),
               UNCHANGED <<callerVars, dataThreads>>
        PROVE  pc' \notin Starting /\ p.index = s % Size(p.dir)'
    <2>1. pc \notin Starting
      BY <1>0, <1>3, Phases DEF Prepare
    <2>2. pc' = pc /\ dataThreads' = dataThreads /\ p.dir = d /\ p.index = Index(d, s)
      BY <1>3 DEF callerVars, Taken, Param
    <2>3. Len(dataThreads[d]) = Size(d)
      <3>1. CASE pc = "failed"
        BY <3>1 DEF Size
      <3>2. CASE pc # "failed"
        <4>1. Len(dataThreads[d]) \in {0, NetThreadCount}
          BY <2>1, <3>2 DEF ThreadsInv, Sizes
        <4>2. dataThreads[d] \in Seq(Params)
          BY <1>0 DEF TypeOK
        <4>3. Len(dataThreads[d]) # 0
          BY <1>3, <4>2
        <4> QED
          BY <3>2, <4>1, <4>3 DEF Size
      <3> QED
        BY <3>1, <3>2
    <2>4. Size(p.dir)' = Size(d)
      BY <2>2 DEF Size
    <2> QED
      BY <2>1, <2>2, <2>3, <2>4 DEF Index
  <1> QED
    BY <1>2, <1>3, HasStep

-----------------------------------------------------------------------------
LEMMA ThreadsStep == ThreadsInv /\ [Next]_vars => ThreadsInv'
  <1> SUFFICES ASSUME ThreadsInv, [Next]_vars PROVE ThreadsInv'
    OBVIOUS
  <1>1. CASE Next
    <2>1. TypeOK /\ Elements /\ Sizes /\ Unstarted /\ Undeleted /\ Handling
      BY DEF ThreadsInv
    <2>2. TypeOK' /\ Elements' /\ Sizes'
      BY <1>1, <2>1, TypesStep, ElementsStep, SizesStep
    <2>3. Unstarted' /\ Undeleted' /\ Handling'
      BY <1>1, <2>1, UnstartedStep, UndeletedStep, HandlingStep
    <2>4. Placed' /\ "up" \notin crashed'
      BY <1>1, PlacedStep, UpStep
    <2> QED
      BY <2>2, <2>3, <2>4 DEF ThreadsInv
  <1>2. CASE UNCHANGED vars
    BY <1>2 DEF vars, callerVars, dataVars, epollVars, ThreadsInv, TypeOK, Elements, Sizes,
         SendSize, RecvSize, Unstarted, Undeleted, Handling, Placed, Has, Size
  <1> QED
    BY <1>1, <1>2

(* The inductive invariant of Net's threads, of startThreads and           *)
(* cleanupThreads with all that goes on beside them.                       *)
THEOREM NetThreadsInvariant == Spec => []ThreadsInv
  BY ThreadsInit, ThreadsStep, PTL DEF Spec

LEMMA SafeOfInv == ThreadsInv => SafeOnceUp
  <1> SUFFICES ASSUME ThreadsInv PROVE SafeOnceUp
    OBVIOUS
  <1>1. TypeOK /\ "up" \notin crashed /\ \A p \in deleted : thread[p] \in {"none", "ended"}
    BY DEF ThreadsInv, Undeleted
  <1>2. ASSUME ~early, NEW p \in Params, NEW q \in Params, NEW s \in Socks,
               p.dir = q.dir, Has(p, s), Has(q, s)
        PROVE  p = q
    <2>1. p.index = s % Size(p.dir) /\ q.index = s % Size(q.dir)
      BY <1>2 DEF ThreadsInv, Placed
    <2> QED
      BY <1>2, <2>1, ParamFacts
  <1> QED
    BY <1>1, <1>2 DEF SafeOnceUp, Has

(* From the end of setup to the begin of shutdown no thread meets a data   *)
(* thread that is not there, an element is deleted only when its thread    *)
(* has ended or was never created, and each socket is with one data thread *)
(* of a direction (Net::startThreads, prepareSend, prepareRecv,            *)
(* cleanupThreads), however many data threads and sockets there are.       *)
THEOREM UpIsSafe == Spec => []SafeOnceUp
  BY NetThreadsInvariant, SafeOfInv, PTL
=============================================================================
