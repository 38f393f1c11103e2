-------------------------- MODULE TimerStageProofs --------------------------
(***************************************************************************)
(* Theorems about TimerStage, for any number of timers and handlers.       *)
(***************************************************************************)
EXTENDS TimerStage, FiniteSetTheorems, TLAPS

-----------------------------------------------------------------------------
(* Finite sets under a strict total order R: each non-empty one has a      *)
(* first element, and each can be listed in order.  Both are shown by a    *)
(* smallest counterexample, set inclusion being well founded.              *)
StrictTotal(R, S) ==
    /\ \A x \in S : <<x, x>> \notin R
    /\ \A x, y, z \in S : <<x, y>> \in R /\ <<y, z>> \in R => <<x, z>> \in R
    /\ \A x, y \in S : x # y => <<x, y>> \in R \/ <<y, x>> \in R

LEMMA SmallestCounterexample ==
    ASSUME NEW S, IsFiniteSet(S), NEW Bad \in SUBSET (SUBSET S), Bad # {}
    PROVE  \E T \in Bad : \A U \in SUBSET T : U # T => U \notin Bad
  <1>1. IsWellFoundedOn(StrictSubsetOrdering(S), SUBSET S)
    BY FS_StrictSubsetOrderingWellFounded, FS_FiniteSubsetsOfFinite
  <1>2. PICK T \in Bad : \A U \in Bad : ~(<<U, T>> \in StrictSubsetOrdering(S))
    BY <1>1, WFMin
  <1> QED
    BY <1>2 DEF StrictSubsetOrdering

LEMMA FirstElement ==
    ASSUME NEW S, IsFiniteSet(S), NEW R, StrictTotal(R, S)
    PROVE  \A T \in SUBSET S :
             T # {} => \E x \in T : \A y \in T \ {x} : <<x, y>> \in R
  <1> DEFINE HasFirst(T) == \E x \in T : \A y \in T \ {x} : <<x, y>> \in R
             Bad == {T \in SUBSET S : T # {} /\ ~HasFirst(T)}
  <1> SUFFICES ASSUME Bad # {} PROVE FALSE
    OBVIOUS
  <1>0. Bad \in SUBSET (SUBSET S)
    OBVIOUS
  <1>1. PICK T \in Bad : \A U \in SUBSET T : U # T => U \notin Bad
    <2> HIDE DEF Bad
    <2> QED
      BY <1>0, SmallestCounterexample
  <1>2. PICK x \in T : TRUE
    OBVIOUS
  <1>3. T \ {x} = {} \/ HasFirst(T \ {x})
    <2>1. T \ {x} \in SUBSET T /\ T \ {x} # T
      OBVIOUS
    <2>2. T \ {x} \notin Bad
      BY <1>1, <2>1
    <2>3. T \ {x} \in SUBSET S
      OBVIOUS
    <2> QED
      BY <2>2, <2>3
  <1>4. CASE T \ {x} = {}
    BY <1>4
  <1>5. CASE HasFirst(T \ {x})
    <2>1. PICK y \in T \ {x} : \A z \in (T \ {x}) \ {y} : <<y, z>> \in R
      BY <1>5
    <2>2. CASE <<x, y>> \in R
      <3>1. \A z \in T \ {x} : <<x, z>> \in R
        BY <2>1, <2>2 DEF StrictTotal
      <3> QED
        BY <3>1
    <2>3. CASE <<y, x>> \in R
      BY <2>1, <2>3
    <2> QED
      BY <2>2, <2>3 DEF StrictTotal
  <1> QED
    BY <1>3, <1>4, <1>5

InOrder(q, R) == \A i, j \in DOMAIN q : i < j => <<q[i], q[j]>> \in R

LEMMA OrderedEnumeration ==
    ASSUME NEW S, IsFiniteSet(S), NEW R, StrictTotal(R, S)
    PROVE  \A T \in SUBSET S : \E q \in [1..Cardinality(T) -> T] : InOrder(q, R)
  <1> DEFINE Listed(T) == \E q \in [1..Cardinality(T) -> T] : InOrder(q, R)
             Bad == {T \in SUBSET S : ~Listed(T)}
  <1> SUFFICES ASSUME Bad # {} PROVE FALSE
    OBVIOUS
  <1>0. Bad \in SUBSET (SUBSET S)
    OBVIOUS
  <1>1. PICK T \in Bad : \A U \in SUBSET T : U # T => U \notin Bad
    <2> HIDE DEF Bad
    <2> QED
      BY <1>0, SmallestCounterexample
  <1>2. CASE T = {}
    <2>1. [i \in 1..0 |-> i] \in [1..Cardinality(T) -> T]
      BY <1>2, FS_EmptySet
    <2>2. InOrder([i \in 1..0 |-> i], R)
      BY DEF InOrder
    <2> QED
      BY <2>1, <2>2
  <1>3. CASE T # {}
    <2>1. PICK x \in T : \A y \in T \ {x} : <<x, y>> \in R
      BY <1>3, FirstElement
    <2>2. PICK q \in [1..Cardinality(T \ {x}) -> T \ {x}] : InOrder(q, R)
      <3>1. T \ {x} \in SUBSET T /\ T \ {x} # T
        OBVIOUS
      <3>2. T \ {x} \notin Bad
        BY <1>1, <3>1
      <3>3. T \ {x} \in SUBSET S
        OBVIOUS
      <3> QED
        BY <3>2, <3>3
    <2>3. /\ IsFiniteSet(T)
          /\ Cardinality(T) \in Nat
          /\ Cardinality(T \ {x}) = Cardinality(T) - 1
      BY FS_Subset, FS_RemoveElement, FS_CardinalityType
    <2> DEFINE p == [i \in 1..Cardinality(T) |-> IF i = 1 THEN x ELSE q[i - 1]]
    <2>4. \A i \in 1..Cardinality(T) :
            i # 1 => i - 1 \in 1..Cardinality(T \ {x}) /\ q[i - 1] \in T \ {x}
      <3>1. \A i \in 1..Cardinality(T) : i # 1 => i - 1 \in 1..Cardinality(T \ {x})
        BY <2>3
      <3> QED
        BY <3>1
    <2>5. p \in [1..Cardinality(T) -> T]
      BY <2>4
    <2>6. ASSUME NEW i \in DOMAIN p, NEW j \in DOMAIN p, i < j
          PROVE  <<p[i], p[j]>> \in R
      <3>1. j # 1 /\ j - 1 \in DOMAIN q /\ p[j] = q[j - 1] /\ p[j] \in T \ {x}
        BY <2>3, <2>4, <2>6
      <3>2. CASE i = 1
        BY <2>1, <3>1, <3>2
      <3>3. CASE i # 1
        <4>1. i - 1 \in DOMAIN q /\ p[i] = q[i - 1] /\ i - 1 < j - 1
          BY <2>3, <2>6, <3>3
        <4> QED
          BY <2>2, <3>1, <4>1 DEF InOrder
      <3> QED
        BY <3>2, <3>3
    <2>7. InOrder(p, R)
      BY <2>6 DEF InOrder
    <2> QED
      BY <2>5, <2>7
  <1> QED
    BY <1>2, <1>3

-----------------------------------------------------------------------------
(* The inductive invariant.  A timer is registered once; its registration  *)
(* is in one place until InsertTimer takes it from there.                  *)
RegReq(t) == [op |-> "register", timer |-> t]
Acc == accepted[Self]
Par == parked[Self]

(* TypeOK but for the bound on num_events, which follows from the rest.    *)
ThreadTypes ==
    /\ now \in 0..MaxTime
    /\ nonces \in Seq(Timers)
    /\ timer_queue \subseteq Timers
    /\ num_events \in Int
    /\ batch \in Seq(Timers)
    /\ tpc \in {"none", "check", "fire", "wait", "exited"}
    /\ wakeAt \in 0..MaxTime \cup {Never}

FlagTypes == shutdown \in BOOLEAN /\ joining \in BOOLEAN

HandlerTypes ==
    /\ hpc \in [Handlers -> {"idle", "handle", "insert", "reply", "trigger",
                             "release"}]
    /\ request \in [Handlers -> Requests \cup {NoRequest}]
    /\ check \in [Handlers -> BOOLEAN]

ClientTypes ==
    /\ deadline \in [Timers -> 0..MaxTime]
    /\ asked \in [Timers -> 0..MaxCancels + 1]
    /\ fired \in [Timers -> Nat]
    /\ cancelled \subseteq Timers /\ registered \subseteq Timers

QueueTypes ==
    /\ phase \in [{Self} -> {"open", "closing", "closed"}]
    /\ accepted \in [{Self} -> Seq(Requests)]
    /\ parked \in [{Self} -> Seq(Requests)]
    /\ busy \in [{Self} -> Int]

(* What a handler holds fits the place where it is.                        *)
HandlerFits ==
    \A h \in Handlers :
        /\ hpc[h] # "idle" => request[h] \in Requests
        /\ hpc[h] \in {"insert", "trigger"} => request[h].op = "register"
        /\ check[h] => hpc[h] \in {"reply", "trigger"}

RegIn(q, t) == \E i \in DOMAIN q : q[i] = RegReq(t)
OnceIn(q, t) ==
    \A i, j \in DOMAIN q : q[i] = RegReq(t) /\ q[j] = RegReq(t) => i = j

Registering(h, t) == hpc[h] \in {"handle", "insert"} /\ request[h] = RegReq(t)
Replying(h, t) == hpc[h] = "reply" /\ request[h] = RegReq(t)
Found(h, t) ==
    hpc[h] = "reply" /\ request[h] = [op |-> "cancel", timer |-> t] /\ check[h]

Pending(t) ==
    RegIn(Acc, t) \/ RegIn(Par, t) \/ \E h \in Handlers : Registering(h, t)

Once(t) ==
    /\ OnceIn(Acc, t) /\ OnceIn(Par, t) /\ ~(RegIn(Acc, t) /\ RegIn(Par, t))
    /\ \A h \in Handlers : Registering(h, t) =>
         /\ ~RegIn(Acc, t) /\ ~RegIn(Par, t)
         /\ \A k \in Handlers : Registering(k, t) => k = h

(* A timer that is neither in the queue nor in the batch and did not fire, *)
(* and one that has not even been inserted.                                *)
Out(t) == fired[t] = 0 /\ t \notin timer_queue /\ t \notin InBatch

Untouched(t) ==
    /\ Out(t)
    /\ t \notin cancelled
    /\ \A h \in Handlers : ~Replying(h, t) /\ ~Found(h, t)

Life(t) ==
    /\ asked[t] = 0 => ~Pending(t)
    /\ asked[t] = 0 \/ Pending(t) => Untouched(t)
    /\ t \in timer_queue \/ t \in InBatch => fired[t] = 0
    /\ fired[t] <= 1
    /\ ~(t \in timer_queue /\ t \in InBatch)
    /\ t \in cancelled => Out(t)
    /\ \A h \in Handlers : Found(h, t) => Out(t)

Lives == \A t \in Timers : Once(t) /\ Life(t)

(* The batch of the timer thread.                                          *)
BatchOnce ==
    /\ \A i, j \in DOMAIN batch : batch[i] = batch[j] => i = j
    /\ batch # <<>> => tpc = "fire"
    /\ phase[Self] # "open" => tpc \in {"none", "exited"}

(* A timer has its token before it is inserted, and one only.              *)
HasToken(t) == \E i \in DOMAIN nonces : nonces[i] = t
Inserting(h, t) == hpc[h] = "insert" /\ request[h] = RegReq(t)
Tokens ==
    /\ \A i, j \in DOMAIN nonces : nonces[i] = nonces[j] => i = j
    /\ \A t \in timer_queue \cup InBatch : HasToken(t)
    /\ \A h \in Handlers, t \in Timers : Inserting(h, t) => HasToken(t)
    /\ \A t \in Timers :
         HasToken(t) => /\ asked[t] # 0
                        /\ Pending(t) => \E h \in Handlers : Inserting(h, t)

(* The batch is due and in token order, and before all that is queued.     *)
BatchOrder ==
    /\ \A i \in DOMAIN batch : deadline[batch[i]] <= now
    /\ \A i, j \in DOMAIN batch : i < j => TokenLess(batch[i], batch[j])
    /\ \A i \in DOMAIN batch, u \in timer_queue : TokenLess(batch[i], u)

Count == num_events = Cardinality(timer_queue) + Len(batch)

Typed ==
    /\ ThreadTypes /\ FlagTypes /\ HandlerTypes /\ ClientTypes
    /\ QueueTypes /\ HandlerFits
TimerInv ==
    /\ Typed /\ Lives /\ BatchOnce /\ Count
    /\ Tokens /\ BatchOrder

-----------------------------------------------------------------------------
(* Types.                                                                  *)
LEMMA TypedInit == Init => Typed
  <1> SUFFICES ASSUME Init PROVE Typed
    OBVIOUS
  <1>1. 0 \in 0..MaxTime /\ 0 \in 0..MaxCancels + 1 /\ <<>> \in Seq(Timers)
    BY TimerAssumption
  <1>2. ThreadTypes
    BY <1>1 DEF Init, ThreadTypes
  <1>3. HandlerTypes
    BY DEF Init, HandlerTypes
  <1>4. ClientTypes
    BY <1>1 DEF Init, ClientTypes
  <1>5. QueueTypes
    BY DEF Init, Queue!Init, QueueTypes
  <1>6. HandlerFits
    BY DEF Init, HandlerFits
  <1>7. FlagTypes
    BY DEF Init, FlagTypes
  <1> QED
    BY <1>2, <1>3, <1>4, <1>5, <1>6, <1>7 DEF Typed

(* What the steps of the stage's queue do.                                 *)
LEMMA AddTypes ==
    ASSUME QueueTypes, NEW r \in Requests, Queue!Add(Self, r)
    PROVE  /\ QueueTypes' /\ phase' = phase
           /\ \/ Acc' = Append(Acc, r) /\ Par' = Par
              \/ Par' = Append(Par, r) /\ Acc' = Acc
  <1>1. Acc \in Seq(Requests) /\ Par \in Seq(Requests)
    BY DEF QueueTypes, Acc, Par
  <1>2. Append(Acc, r) \in Seq(Requests) /\ Append(Par, r) \in Seq(Requests)
    BY <1>1
  <1>3. /\ phase' = phase /\ busy' = busy
        /\ \/ /\ accepted' = [accepted EXCEPT ![Self] = Append(Acc, r)]
              /\ parked' = parked
           \/ /\ parked' = [parked EXCEPT ![Self] = Append(Par, r)]
              /\ accepted' = accepted
    BY DEF Queue!Add, Acc, Par
  <1> QED
    BY <1>2, <1>3 DEF QueueTypes, Acc, Par

LEMMA TakeTypes ==
    ASSUME QueueTypes, Queue!Take(Self)
    PROVE  /\ QueueTypes' /\ phase' = phase
           /\ Acc # <<>> /\ Acc' = Tail(Acc) /\ Par' = Par
           /\ Head(accepted[Self]) = Head(Acc) /\ Head(Acc) \in Requests
  <1>1. Acc \in Seq(Requests) /\ Acc # <<>>
    BY DEF QueueTypes, Queue!Take, Acc
  <1>2. Tail(Acc) \in Seq(Requests) /\ Head(Acc) \in Requests
    BY <1>1
  <1> QED
    BY <1>1, <1>2 DEF QueueTypes, Queue!Take, Acc, Par

LEMMA FinishTypes ==
    ASSUME QueueTypes, Queue!Finish(Self)
    PROVE  QueueTypes' /\ phase' = phase /\ Acc' = Acc /\ Par' = Par
  BY DEF QueueTypes, Queue!Finish, Acc, Par

LEMMA PhaseTypes ==
    ASSUME QueueTypes, Queue!Open(Self) \/ Queue!Close(Self) \/ Queue!Closed(Self)
    PROVE  /\ QueueTypes'
           /\ \/ Acc' = Par /\ Par' = <<>>
              \/ Acc' = Acc /\ Par' = Par
  <1>1. CASE Queue!Open(Self)
    <2>1. /\ phase' = [phase EXCEPT ![Self] = "open"] /\ busy' = busy
          /\ accepted' = [accepted EXCEPT ![Self] = Par]
          /\ parked' = [parked EXCEPT ![Self] = <<>>]
      BY <1>1 DEF Queue!Open, Par
    <2>2. Par \in Seq(Requests) /\ <<>> \in Seq(Requests)
      BY DEF QueueTypes, Par
    <2> QED
      BY <2>1, <2>2 DEF QueueTypes, Acc, Par
  <1>2. CASE Queue!Close(Self) \/ Queue!Closed(Self)
    BY <1>2 DEF QueueTypes, Queue!Close, Queue!Closed, Acc, Par
  <1> QED
    BY <1>1, <1>2

-----------------------------------------------------------------------------
(* The order of tokens.                                                    *)
TokenOrder == {p \in Timers \X Timers : TokenLess(p[1], p[2])}

LEMMA NonceOfProperties ==
    ASSUME NEW t, HasToken(t)
    PROVE  NonceOf(t) \in DOMAIN nonces /\ nonces[NonceOf(t)] = t
  BY DEF HasToken, NonceOf

LEMMA TokenOrderTotal ==
    ASSUME Typed, Tokens
    PROVE  StrictTotal(TokenOrder, {t \in Timers : HasToken(t)})
  <1> DEFINE S == {t \in Timers : HasToken(t)}
  <1>1. \A t \in S : /\ deadline[t] \in Nat /\ NonceOf(t) \in Nat
                     /\ nonces[NonceOf(t)] = t
    BY NonceOfProperties, TimerAssumption DEF Typed, ThreadTypes, ClientTypes
  <1>2. \A t, u \in S : <<t, u>> \in TokenOrder <=> TokenLess(t, u)
    BY DEF TokenOrder
  <1>3. \A t, u \in S : t # u => NonceOf(t) # NonceOf(u)
    BY <1>1
  <1> HIDE DEF S
  <1>4. \A t, u \in S : t # u => TokenLess(t, u) \/ TokenLess(u, t)
    BY <1>1, <1>3 DEF TokenLess
  <1>5. \A t \in S : ~TokenLess(t, t)
    BY <1>1 DEF TokenLess
  <1>6. \A t, u, v \in S : TokenLess(t, u) /\ TokenLess(u, v) => TokenLess(t, v)
    BY <1>1 DEF TokenLess
  <1>7. StrictTotal(TokenOrder, S)
    BY <1>2, <1>4, <1>5, <1>6 DEF StrictTotal
  <1> QED
    BY <1>7 DEF S

(* The batch that CollectDue makes lists the due timers, in token order.   *)
LEMMA BatchOfDue ==
    ASSUME Typed, Tokens
    PROVE  /\ InTokenOrder(Due) \in [1..Cardinality(Due) -> Due]
           /\ \A i, j \in 1..Cardinality(Due) :
                i < j => TokenLess(InTokenOrder(Due)[i], InTokenOrder(Due)[j])
  <1> DEFINE S == {t \in Timers : HasToken(t)}
  <1>1. IsFiniteSet(S) /\ Due \in SUBSET S
    BY FS_Subset, TimerAssumption
       DEF Typed, ThreadTypes, Tokens, HasToken, Due
  <1>2. PICK q \in [1..Cardinality(Due) -> Due] : InOrder(q, TokenOrder)
    BY <1>1, TokenOrderTotal, OrderedEnumeration
  <1>3. \A i, j \in DOMAIN q : i < j => TokenLess(q[i], q[j])
    BY <1>2 DEF InOrder, TokenOrder
  <1> QED
    BY <1>2, <1>3 DEF InTokenOrder

(* The deadline that checkTimer waits for is the earliest in the queue.    *)
LEMMA NextDeadlineIsMin ==
    ASSUME Typed, Tokens
    PROVE  /\ timer_queue = {} => NextDeadline = Never
           /\ timer_queue # {} =>
                /\ NextDeadline \in 0..MaxTime
                /\ \A t \in timer_queue : NextDeadline <= deadline[t]
  <1> DEFINE S == {t \in Timers : HasToken(t)}
  <1>1. IsFiniteSet(S) /\ timer_queue \in SUBSET S
    BY FS_Subset, TimerAssumption DEF Typed, ThreadTypes, Tokens, HasToken
  <1>2. ASSUME timer_queue # {}
        PROVE  /\ NextDeadline \in 0..MaxTime
               /\ \A t \in timer_queue : NextDeadline <= deadline[t]
    <2>1. PICK x \in timer_queue :
            \A y \in timer_queue \ {x} : <<x, y>> \in TokenOrder
      BY <1>1, <1>2, TokenOrderTotal, FirstElement
    <2>2. IsFirst(x, timer_queue)
      BY <2>1 DEF IsFirst, TokenOrder
    <2>3. PICK t \in timer_queue :
            IsFirst(t, timer_queue) /\ NextDeadline = deadline[t]
      BY <1>2, <2>2 DEF NextDeadline
    <2>4. \A u \in timer_queue : deadline[u] \in Nat
      BY TimerAssumption DEF Typed, ThreadTypes, ClientTypes
    <2>5. \A u \in timer_queue : deadline[t] <= deadline[u]
      BY <2>3, <2>4 DEF IsFirst, TokenLess
    <2>6. deadline[t] \in 0..MaxTime
      BY DEF Typed, ThreadTypes, ClientTypes
    <2> QED
      BY <2>3, <2>5, <2>6
  <1> QED
    BY <1>2 DEF NextDeadline

-----------------------------------------------------------------------------
(* Types, conjunct by conjunct.                                            *)
LEMMA HeldRequest ==
    ASSUME Typed, NEW h \in Handlers, hpc[h] # "idle"
    PROVE  /\ request[h] \in Requests
           /\ request[h].timer \in Timers
           /\ request[h].op \in {"register", "cancel"}
  BY DEF Typed, HandlerFits, Requests

LEMMA ThreadTypesNext ==
    ASSUME Typed, Tokens, [Next]_vars
    PROVE  ThreadTypes'
  <1> USE DEF ThreadTypes
  <1>0. ThreadTypes
    BY DEF Typed
  <1>1. CASE Tick
    BY <1>0, <1>1, TimerAssumption DEF Tick, timerVars, threadVars
  <1>2. ASSUME NEW h \in Handlers, MakeToken(h) PROVE ThreadTypes'
    <2>1. request[h].timer \in Timers
      BY <1>2, HeldRequest DEF MakeToken
    <2>2. Append(nonces, request[h].timer) \in Seq(Timers)
      BY <1>0, <2>1
    <2> QED
      BY <1>0, <1>2, <2>2 DEF MakeToken, timerVars, threadVars
  <1>3. ASSUME NEW h \in Handlers, InsertTimer(h) PROVE ThreadTypes'
    <2>1. request[h].timer \in Timers
      BY <1>3, HeldRequest DEF InsertTimer
    <2> QED
      BY <1>0, <1>3, <2>1 DEF InsertTimer, threadVars
  <1>4. ASSUME NEW h \in Handlers, TriggerTimerCheck(h) PROVE ThreadTypes'
    BY <1>0, <1>4 DEF TriggerTimerCheck, SignalTimer, timerVars
  <1>5. ASSUME NEW h \in Handlers, CancelTimer(h) PROVE ThreadTypes'
    BY <1>0, <1>5 DEF CancelTimer, NumAfterCancel, threadVars
  <1>6. CASE CollectDue
    <2>1. Due \subseteq Timers /\ IsFiniteSet(Due)
      BY <1>0, FS_Subset, TimerAssumption DEF Due
    <2>2. Cardinality(Due) \in Nat
      BY <2>1, FS_CardinalityType
    <2>3. InTokenOrder(Due) \in Seq(Timers)
      BY <2>1, <2>2, BatchOfDue
    <2> QED
      BY <1>0, <1>6, <2>3 DEF CollectDue
  <1>7. CASE FireOne
    <2>1. Tail(batch) \in Seq(Timers)
      BY <1>0, <1>7 DEF FireOne
    <2> QED
      BY <1>0, <1>7, <2>1 DEF FireOne
  <1>8. CASE ExitOrWait
    <2>1. wakeAt' \in 0..MaxTime \cup {Never} /\ tpc' \in {"exited", "wait"}
      BY <1>0, <1>8, NextDeadlineIsMin DEF ExitOrWait
    <2> QED
      BY <1>0, <1>8, <2>1 DEF ExitOrWait, timerVars
  <1>9. CASE TimeOut \/ SpuriousTimerWake \/ Connect
    BY <1>0, <1>9 DEF TimeOut, SpuriousTimerWake, Connect, timerVars
  <1>10. CASE DisconnectPrepare
    <2>1. tpc' = tpc \/ tpc' = "check"
      BY <1>10 DEF DisconnectPrepare, ShutdownSignal, SignalTimer
    <2> QED
      BY <1>0, <1>10, <2>1 DEF DisconnectPrepare, timerVars
  <1>11. CASE UNCHANGED <<now, nonces, timerVars, threadVars>>
    BY <1>0, <1>11 DEF timerVars, threadVars
  <1> QED
    BY <1>1, <1>2, <1>3, <1>4, <1>5, <1>6, <1>7, <1>8, <1>9, <1>10, <1>11
       DEF Next, HandlerStep, TimerThread, vars, timerVars, threadVars, Register,
           Cancel, HandleEvent, ReplyRegistered, ReplyCancelled, ReleaseEvent,
           DisconnectWait, DisconnectReturn

LEMMA FlagTypesNext == FlagTypes /\ [Next]_vars => FlagTypes'
  BY DEF FlagTypes, Next, HandlerStep, TimerThread, vars, Register, Cancel, Tick,
         HandleEvent, MakeToken, InsertTimer, ReplyRegistered, TriggerTimerCheck,
         CancelTimer, ReplyCancelled, ReleaseEvent, CollectDue, FireOne, ExitOrWait,
         TimeOut, SpuriousTimerWake, Connect, DisconnectPrepare, DisconnectWait,
         DisconnectReturn

LEMMA QueueTypesNext ==
    ASSUME QueueTypes, [Next]_vars
    PROVE  QueueTypes'
  <1>1. ASSUME NEW t \in Timers, NEW d \in 0..MaxTime, Register(t, d)
        PROVE  QueueTypes'
    <2>1. [op |-> "register", timer |-> t] \in Requests
      BY DEF Requests
    <2> QED
      BY <1>1, <2>1, AddTypes DEF Register
  <1>2. ASSUME NEW t \in Timers, Cancel(t) PROVE QueueTypes'
    <2>1. [op |-> "cancel", timer |-> t] \in Requests
      BY DEF Requests
    <2> QED
      BY <1>2, <2>1, AddTypes DEF Cancel
  <1>3. ASSUME NEW h \in Handlers, HandleEvent(h) \/ ReleaseEvent(h)
        PROVE  QueueTypes'
    BY <1>3, TakeTypes, FinishTypes DEF HandleEvent, ReleaseEvent
  <1>4. CASE Connect \/ DisconnectWait \/ DisconnectReturn
    BY <1>4, PhaseTypes DEF Connect, DisconnectWait, DisconnectReturn
  <1>5. CASE UNCHANGED stageVars
    BY <1>5 DEF QueueTypes, stageVars
  <1> QED
    BY <1>1, <1>2, <1>3, <1>4, <1>5
       DEF Next, HandlerStep, TimerThread, vars, stageVars, Tick, MakeToken,
           InsertTimer, ReplyRegistered, TriggerTimerCheck, CancelTimer,
           ReplyCancelled, CollectDue, FireOne, ExitOrWait, TimeOut,
           SpuriousTimerWake, DisconnectPrepare

LEMMA HandlerTypesNext ==
    ASSUME Typed, [Next]_vars
    PROVE  HandlerTypes' /\ HandlerFits'
  <1> USE DEF HandlerTypes, HandlerFits
  <1>0. HandlerTypes /\ HandlerFits
    BY DEF Typed
  <1>1. ASSUME NEW h \in Handlers, HandleEvent(h)
        PROVE  HandlerTypes' /\ HandlerFits'
    <2>1. Head(accepted[Self]) \in Requests
      BY <1>1, TakeTypes DEF Typed, HandleEvent
    <2>2. /\ hpc[h] = "idle" /\ check' = check
          /\ request' = [request EXCEPT ![h] = Head(accepted[Self])]
          /\ hpc' = [hpc EXCEPT ![h] = "handle"]
      BY <1>1 DEF HandleEvent
    <2> QED
      BY <1>0, <2>1, <2>2
  <1>2. ASSUME NEW h \in Handlers, MakeToken(h)
        PROVE  HandlerTypes' /\ HandlerFits'
    BY <1>0, <1>2 DEF MakeToken
  <1>3. ASSUME NEW h \in Handlers, InsertTimer(h)
        PROVE  HandlerTypes' /\ HandlerFits'
    <2>1. NeedsCheck(request[h].timer) \in BOOLEAN
      BY DEF NeedsCheck, IsFirst
    <2> HIDE DEF NeedsCheck
    <2> QED
      BY <1>0, <1>3, <2>1 DEF InsertTimer
  <1>4. ASSUME NEW h \in Handlers, ReplyRegistered(h)
        PROVE  HandlerTypes' /\ HandlerFits'
    BY <1>0, <1>4 DEF ReplyRegistered
  <1>5. ASSUME NEW h \in Handlers, TriggerTimerCheck(h)
        PROVE  HandlerTypes' /\ HandlerFits'
    BY <1>0, <1>5 DEF TriggerTimerCheck
  <1>6. ASSUME NEW h \in Handlers, CancelTimer(h)
        PROVE  HandlerTypes' /\ HandlerFits'
    <2>1. CancelFound(request[h].timer) \in BOOLEAN
      BY DEF CancelFound
    <2> QED
      BY <1>0, <1>6, <2>1 DEF CancelTimer
  <1>7. ASSUME NEW h \in Handlers, ReplyCancelled(h)
        PROVE  HandlerTypes' /\ HandlerFits'
    BY <1>0, <1>7 DEF ReplyCancelled
  <1>8. ASSUME NEW h \in Handlers, ReleaseEvent(h)
        PROVE  HandlerTypes' /\ HandlerFits'
    BY <1>0, <1>8 DEF ReleaseEvent
  <1>9. CASE UNCHANGED handVars
    BY <1>0, <1>9 DEF handVars
  <1> QED
    BY <1>1, <1>2, <1>3, <1>4, <1>5, <1>6, <1>7, <1>8, <1>9
       DEF Next, HandlerStep, TimerThread, vars, handVars, Register, Cancel, Tick,
           CollectDue, FireOne, ExitOrWait, TimeOut, SpuriousTimerWake, Connect,
           DisconnectPrepare, DisconnectWait, DisconnectReturn

LEMMA ClientTypesNext ==
    ASSUME Typed, [Next]_vars
    PROVE  ClientTypes'
  <1> USE DEF ClientTypes
  <1>0. ClientTypes
    BY DEF Typed
  <1>1. ASSUME NEW t \in Timers, NEW d \in 0..MaxTime, Register(t, d)
        PROVE  ClientTypes'
    BY <1>0, <1>1, TimerAssumption DEF Register
  <1>2. ASSUME NEW t \in Timers, Cancel(t) PROVE ClientTypes'
    BY <1>0, <1>2, TimerAssumption DEF Cancel
  <1>3. ASSUME NEW h \in Handlers, ReplyRegistered(h) \/ ReplyCancelled(h)
        PROVE  ClientTypes'
    <2>1. request[h].timer \in Timers
      BY <1>3, HeldRequest DEF ReplyRegistered, ReplyCancelled
    <2> QED
      BY <1>0, <1>3, <2>1 DEF ReplyRegistered, ReplyCancelled
  <1>4. CASE FireOne
    <2>1. Head(batch) \in Timers
      BY <1>4 DEF FireOne, Typed, ThreadTypes
    <2> QED
      BY <1>0, <1>4, <2>1 DEF FireOne
  <1>5. CASE UNCHANGED clientVars
    BY <1>0, <1>5 DEF clientVars
  <1> QED
    BY <1>1, <1>2, <1>3, <1>4, <1>5
       DEF Next, HandlerStep, TimerThread, vars, clientVars, Tick, HandleEvent,
           MakeToken, InsertTimer, TriggerTimerCheck, CancelTimer, ReleaseEvent,
           CollectDue, ExitOrWait, TimeOut, SpuriousTimerWake, Connect,
           DisconnectPrepare, DisconnectWait, DisconnectReturn

LEMMA TypedNext ==
    ASSUME Typed, Tokens, [Next]_vars
    PROVE  Typed'
  BY ThreadTypesNext, FlagTypesNext, QueueTypesNext, HandlerTypesNext,
     ClientTypesNext DEF Typed

-----------------------------------------------------------------------------
(* Where the registration of a timer is.                                   *)
LEMMA RegAppend ==
    ASSUME NEW q \in Seq(Requests), NEW r \in Requests, NEW t
    PROVE  /\ RegIn(Append(q, r), t) <=> RegIn(q, t) \/ r = RegReq(t)
           /\ OnceIn(q, t) /\ ~(RegIn(q, t) /\ r = RegReq(t))
                => OnceIn(Append(q, r), t)
  <1> DEFINE p == Append(q, r)
  <1>1. /\ DOMAIN p = 1..Len(q) + 1 /\ DOMAIN q = 1..Len(q) /\ Len(q) \in Nat
        /\ p[Len(q) + 1] = r /\ \A i \in 1..Len(q) : p[i] = q[i]
    OBVIOUS
  <1>2. \A i \in DOMAIN p : i = Len(q) + 1 \/ i \in DOMAIN q
    BY <1>1
  <1> HIDE DEF p
  <1>3. RegIn(p, t) <=> RegIn(q, t) \/ r = RegReq(t)
    BY <1>1, <1>2 DEF RegIn
  <1>4. OnceIn(q, t) /\ ~(RegIn(q, t) /\ r = RegReq(t)) => OnceIn(p, t)
    BY <1>1, <1>2 DEF RegIn, OnceIn
  <1> QED
    BY <1>3, <1>4 DEF p

LEMMA RegTail ==
    ASSUME NEW q \in Seq(Requests), q # <<>>, NEW t
    PROVE  /\ RegIn(Tail(q), t) => RegIn(q, t)
           /\ Head(q) = RegReq(t) => RegIn(q, t)
           /\ OnceIn(q, t) => OnceIn(Tail(q), t)
           /\ OnceIn(q, t) /\ Head(q) = RegReq(t) => ~RegIn(Tail(q), t)
  <1> DEFINE p == Tail(q)
  <1>1. /\ Len(q) \in Nat /\ DOMAIN q = 1..Len(q) /\ DOMAIN p = 1..Len(q) - 1
        /\ 1 \in DOMAIN q /\ q[1] = Head(q)
        /\ \A i \in DOMAIN p : i + 1 \in DOMAIN q /\ i + 1 # 1 /\ p[i] = q[i + 1]
    OBVIOUS
  <1>2. \A i, j \in DOMAIN p : i + 1 = j + 1 => i = j
    BY <1>1
  <1> HIDE DEF p
  <1> QED
    BY <1>1, <1>2 DEF RegIn, OnceIn, p

LEMMA RegEmpty == \A t : ~RegIn(<<>>, t) /\ OnceIn(<<>>, t)
  BY DEF RegIn, OnceIn

(* A step that adds no registration of t, nor brings a handler to t.       *)
LEMMA SamePlaces ==
    ASSUME NEW t, Once(t), Acc' = Acc, Par' = Par,
           \A h \in Handlers : Registering(h, t)' => Registering(h, t)
    PROVE  Once(t)' /\ (Pending(t)' => Pending(t))
  BY DEF Once, Pending

(* A registration is made when the timer has not been asked for, and then  *)
(* moves from the queue to a handler.                                      *)
LEMMA RegisterPlaces ==
    ASSUME Typed, Lives, NEW u \in Timers, NEW d \in 0..MaxTime, Register(u, d),
           NEW t \in Timers
    PROVE  Once(t)' /\ (Pending(t)' => Pending(t) \/ t = u)
  <1>1. /\ Acc \in Seq(Requests) /\ Par \in Seq(Requests)
        /\ Once(t) /\ RegReq(u) \in Requests
        /\ RegReq(t) = RegReq(u) <=> t = u
    BY DEF Typed, QueueTypes, Acc, Par, Lives, RegReq, Requests
  <1>2. \/ Acc' = Append(Acc, RegReq(u)) /\ Par' = Par
        \/ Par' = Append(Par, RegReq(u)) /\ Acc' = Acc
    BY <1>1, AddTypes DEF Typed, Register, RegReq
  <1>3. t = u => ~Pending(t)
    BY DEF Register, Lives, Life
  <1>4. \A h \in Handlers : Registering(h, t)' <=> Registering(h, t)
    BY DEF Register, handVars, Registering
  <1> DEFINE Added(q, p) ==
        /\ RegIn(p, t) <=> RegIn(q, t) \/ t = u
        /\ OnceIn(q, t) /\ ~(RegIn(q, t) /\ t = u) => OnceIn(p, t)
  <1>5. \/ Added(Acc, Acc') /\ Par' = Par
        \/ Added(Par, Par') /\ Acc' = Acc
    <2>1. Added(Acc, Append(Acc, RegReq(u))) /\ Added(Par, Append(Par, RegReq(u)))
      BY <1>1, RegAppend
    <2> QED
      BY <1>2, <2>1
  <1> QED
    BY <1>1, <1>3, <1>4, <1>5 DEF Once, Pending

LEMMA CancelPlaces ==
    ASSUME Typed, Lives, NEW u \in Timers, Cancel(u), NEW t \in Timers
    PROVE  Once(t)' /\ (Pending(t)' => Pending(t))
  <1> DEFINE r == [op |-> "cancel", timer |-> u]
  <1>1. /\ Acc \in Seq(Requests) /\ Par \in Seq(Requests)
        /\ Once(t) /\ r \in Requests /\ r # RegReq(t)
    BY DEF Typed, QueueTypes, Acc, Par, Lives, RegReq, Requests
  <1>2. \/ Acc' = Append(Acc, r) /\ Par' = Par
        \/ Par' = Append(Par, r) /\ Acc' = Acc
    BY <1>1, AddTypes DEF Typed, Cancel
  <1>3. \A h \in Handlers : Registering(h, t)' <=> Registering(h, t)
    BY DEF Cancel, handVars, Registering
  <1>4. /\ (RegIn(Acc', t) <=> RegIn(Acc, t)) /\ OnceIn(Acc', t)
        /\ (RegIn(Par', t) <=> RegIn(Par, t)) /\ OnceIn(Par', t)
    <2>1. CASE Acc' = Append(Acc, r) /\ Par' = Par
      BY <1>1, <2>1, RegAppend DEF Once
    <2>2. CASE Par' = Append(Par, r) /\ Acc' = Acc
      BY <1>1, <2>2, RegAppend DEF Once
    <2> QED
      BY <1>2, <2>1, <2>2
  <1> QED
    BY <1>1, <1>3, <1>4 DEF Once, Pending

LEMMA HandlePlaces ==
    ASSUME Typed, Lives, NEW h \in Handlers, HandleEvent(h), NEW t \in Timers
    PROVE  Once(t)' /\ (Pending(t)' => Pending(t))
  <1>1. Acc \in Seq(Requests) /\ Once(t)
    BY DEF Typed, QueueTypes, Acc, Lives
  <1>2. /\ Acc # <<>> /\ Acc' = Tail(Acc) /\ Par' = Par
        /\ request' = [request EXCEPT ![h] = Head(Acc)]
    BY TakeTypes DEF Typed, HandleEvent, Acc
  <1>3. /\ hpc[h] = "idle" /\ hpc' = [hpc EXCEPT ![h] = "handle"]
        /\ hpc \in [Handlers -> {"idle", "handle", "insert", "reply", "trigger",
                                 "release"}]
        /\ request \in [Handlers -> Requests \cup {NoRequest}]
    BY DEF HandleEvent, Typed, HandlerTypes
  <1>4. /\ ~Registering(h, t) /\ (Registering(h, t)' <=> Head(Acc) = RegReq(t))
        /\ \A k \in Handlers \ {h} : Registering(k, t)' <=> Registering(k, t)
    BY <1>2, <1>3 DEF Registering
  <1> QED
    BY <1>1, <1>2, <1>4, RegTail DEF Once, Pending

LEMMA PhasePlaces ==
    ASSUME Typed, Lives, Connect \/ DisconnectWait \/ DisconnectReturn,
           NEW t \in Timers
    PROVE  Once(t)' /\ (Pending(t)' => Pending(t))
  <1>1. \/ Acc' = Par /\ Par' = <<>>
        \/ Acc' = Acc /\ Par' = Par
    BY PhaseTypes DEF Typed, Connect, DisconnectWait, DisconnectReturn
  <1>2. \A h \in Handlers : Registering(h, t)' <=> Registering(h, t)
    BY DEF Connect, DisconnectWait, DisconnectReturn, handVars, Registering
  <1> QED
    BY <1>1, <1>2, RegEmpty DEF Lives, Once, Pending

LEMMA HandlerPlaces ==
    ASSUME Typed, Lives, NEW h \in Handlers, HandlerStep(h), ~HandleEvent(h),
           NEW t \in Timers
    PROVE  /\ Once(t)' /\ (Pending(t)' => Pending(t))
           /\ InsertTimer(h) /\ request[h].timer = t => ~Pending(t)'
  <1>1. /\ Once(t) /\ QueueTypes
        /\ hpc \in [Handlers -> {"idle", "handle", "insert", "reply", "trigger",
                                 "release"}]
        /\ request \in [Handlers -> Requests \cup {NoRequest}]
    BY DEF Typed, Lives, HandlerTypes
  <1>2. Acc' = Acc /\ Par' = Par
    <2>1. CASE ReleaseEvent(h)
      BY <1>1, <2>1, FinishTypes DEF ReleaseEvent
    <2>2. CASE UNCHANGED stageVars
      BY <2>2 DEF stageVars, Acc, Par
    <2> QED
      BY <2>1, <2>2
         DEF HandlerStep, MakeToken, InsertTimer, ReplyRegistered, CancelTimer,
             TriggerTimerCheck, ReplyCancelled
  <1>3. \A k \in Handlers : Registering(k, t)' => Registering(k, t)
    BY <1>1 DEF Registering, HandlerStep, MakeToken, InsertTimer, ReplyRegistered,
                CancelTimer, TriggerTimerCheck, ReplyCancelled, ReleaseEvent
  <1>4. ASSUME InsertTimer(h), request[h].timer = t PROVE ~Pending(t)'
    <2>1. request[h] = RegReq(t)
      BY <1>4, HeldRequest DEF InsertTimer, Typed, HandlerFits, RegReq, Requests
    <2>2. Registering(h, t) /\ ~Registering(h, t)'
      BY <1>1, <1>4, <2>1 DEF InsertTimer, Registering
    <2> QED
      BY <1>1, <1>2, <1>3, <2>2 DEF Once, Pending
  <1> QED
    BY <1>1, <1>2, <1>3, <1>4, SamePlaces

LEMMA PlacesNext ==
    ASSUME Typed, Lives, [Next]_vars, NEW t \in Timers
    PROVE  /\ Once(t)'
           /\ Pending(t)' => Pending(t) \/ (asked[t] = 0 /\ asked'[t] # 0)
           /\ asked'[t] = 0 => asked[t] = 0
  <1> DEFINE Goal == /\ Once(t)'
                     /\ Pending(t)' => Pending(t) \/ (asked[t] = 0 /\ asked'[t] # 0)
                     /\ asked'[t] = 0 => asked[t] = 0
  <1>0. asked \in [Timers -> 0..MaxCancels + 1] /\ Once(t)
    BY DEF Typed, ClientTypes, Lives
  <1>1. ASSUME NEW u \in Timers, NEW d \in 0..MaxTime, Register(u, d) PROVE Goal
    <2>1. Once(t)' /\ (Pending(t)' => Pending(t) \/ t = u)
      BY <1>1, RegisterPlaces
    <2>2. asked[u] = 0 /\ asked' = [asked EXCEPT ![u] = 1]
      BY <1>1 DEF Register
    <2> QED
      BY <1>0, <2>1, <2>2
  <1>2. ASSUME NEW u \in Timers, Cancel(u) PROVE Goal
    <2>1. asked'[t] = 0 => asked[t] = 0
      BY <1>0, <1>2, TimerAssumption DEF Cancel
    <2> QED
      BY <1>2, <2>1, CancelPlaces
  <1>3. ASSUME NEW h \in Handlers, HandleEvent(h) PROVE Goal
    BY <1>3, HandlePlaces DEF HandleEvent, clientVars
  <1>4. ASSUME NEW h \in Handlers, HandlerStep(h), ~HandleEvent(h) PROVE Goal
    <2>1. asked' = asked
      BY <1>4 DEF HandlerStep, MakeToken, InsertTimer, ReplyRegistered, CancelTimer,
                  TriggerTimerCheck, ReplyCancelled, ReleaseEvent, clientVars
    <2> QED
      BY <1>4, <2>1, HandlerPlaces
  <1>5. CASE Connect \/ DisconnectWait \/ DisconnectReturn
    <2>1. asked' = asked
      BY <1>5 DEF Connect, DisconnectWait, DisconnectReturn, clientVars
    <2> QED
      BY <1>5, <2>1, PhasePlaces
  <1>6. CASE UNCHANGED <<handVars, stageVars, asked>>
    <2>1. Acc' = Acc /\ Par' = Par /\ asked' = asked
      BY <1>6 DEF stageVars, Acc, Par
    <2>2. \A h \in Handlers : Registering(h, t)' => Registering(h, t)
      BY <1>6 DEF handVars, Registering
    <2> QED
      BY <1>0, <2>1, <2>2, SamePlaces
  <1> QED
    BY <1>1, <1>2, <1>3, <1>4, <1>5, <1>6
       DEF Next, TimerThread, vars, handVars, stageVars, clientVars, Tick,
           CollectDue, FireOne, ExitOrWait, TimeOut, SpuriousTimerWake,
           DisconnectPrepare

-----------------------------------------------------------------------------
(* The life of a timer.                                                    *)
LEMMA SameLife ==
    ASSUME Typed, Lives, [Next]_vars, NEW t \in Timers,
           UNCHANGED <<timer_queue, batch, fired, cancelled>>,
           \A h \in Handlers : /\ Replying(h, t)' => Replying(h, t)
                               /\ Found(h, t)' => Found(h, t)
    PROVE  Life(t)'
  <1>1. Life(t) /\ InBatch' = InBatch
    BY DEF Lives, InBatch
  <1>2. Out(t)' <=> Out(t)
    BY <1>1 DEF Out
  <1>3. Untouched(t) => Untouched(t)'
    BY <1>2 DEF Untouched
  <1>4. /\ asked'[t] = 0 => ~Pending(t)'
        /\ asked'[t] = 0 \/ Pending(t)' => asked[t] = 0 \/ Pending(t)
    BY <1>1, PlacesNext DEF Life
  <1> QED
    BY <1>1, <1>2, <1>3, <1>4 DEF Life

LEMMA LifeInsert ==
    ASSUME Typed, Lives, [Next]_vars, NEW h \in Handlers, InsertTimer(h),
           NEW t \in Timers
    PROVE  Life(t)'
  <1>1. /\ Life(t) /\ InBatch' = InBatch
        /\ fired' = fired /\ cancelled' = cancelled
        /\ hpc \in [Handlers -> {"idle", "handle", "insert", "reply", "trigger",
                                 "release"}]
    BY DEF Lives, InBatch, InsertTimer, threadVars, clientVars, Typed, HandlerTypes
  <1>2. /\ request' = request /\ hpc' = [hpc EXCEPT ![h] = "reply"]
        /\ timer_queue' = timer_queue \cup {request[h].timer}
        /\ request[h] = RegReq(request[h].timer) /\ hpc[h] = "insert"
    BY HeldRequest DEF InsertTimer, Typed, HandlerFits, RegReq, Requests
  <1>3. \A k \in Handlers : Found(k, t)' => Found(k, t)
    <2>1. \A k \in Handlers : k # h => check'[k] = check[k]
      BY DEF InsertTimer, Typed, HandlerTypes
    <2> QED
      BY <1>1, <1>2, <2>1 DEF Found, RegReq
  <1>4. /\ asked'[t] = 0 => ~Pending(t)'
        /\ asked'[t] = 0 \/ Pending(t)' => asked[t] = 0 \/ Pending(t)
    BY <1>1, PlacesNext DEF Life
  <1>5. CASE t # request[h].timer
    <2>1. Out(t)' <=> Out(t)
      BY <1>1, <1>2, <1>5 DEF Out
    <2>2. \A k \in Handlers : Replying(k, t)' => Replying(k, t)
      BY <1>1, <1>2, <1>5 DEF Replying, RegReq
    <2>3. Untouched(t) => Untouched(t)'
      BY <1>1, <1>3, <2>1, <2>2 DEF Untouched
    <2> QED
      BY <1>1, <1>2, <1>3, <1>4, <1>5, <2>1, <2>3 DEF Life
  <1>6. CASE t = request[h].timer
    <2>1. Pending(t)
      BY <1>2, <1>6 DEF Pending, Registering
    <2>2. ~Pending(t)' /\ asked'[t] # 0
      <3>1. asked[t] # 0
        BY <1>1, <2>1 DEF Life
      <3> QED
        BY <1>6, <3>1, HandlerPlaces, PlacesNext DEF HandlerStep, InsertTimer, HandleEvent
    <2>3. Untouched(t)
      BY <1>1, <2>1 DEF Life
    <2> QED
      BY <1>1, <1>3, <2>2, <2>3 DEF Life, Untouched, Out
  <1> QED
    BY <1>5, <1>6

LEMMA LifeCancel ==
    ASSUME Typed, Lives, BatchOnce, [Next]_vars, NEW h \in Handlers, CancelTimer(h),
           NEW t \in Timers
    PROVE  Life(t)'
  <1>1. /\ Life(t) /\ InBatch' = InBatch /\ (t \in InBatch => tpc = "fire")
        /\ fired' = fired /\ cancelled' = cancelled
    BY DEF Lives, BatchOnce, InBatch, CancelTimer, threadVars, clientVars
  <1>2. /\ request' = request /\ hpc' = [hpc EXCEPT ![h] = "reply"]
        /\ timer_queue' = timer_queue \ {request[h].timer}
        /\ check' = [check EXCEPT ![h] = request[h].timer \in timer_queue]
        /\ request[h].op = "cancel" /\ tpc # "fire"
        /\ hpc \in [Handlers -> {"idle", "handle", "insert", "reply", "trigger",
                                 "release"}]
    BY DEF CancelTimer, CancelFound, MutexFree, Typed, HandlerTypes
  <1>3. \A k \in Handlers : Replying(k, t)' => Replying(k, t)
    BY <1>2 DEF Replying, RegReq
  <1>4. ASSUME NEW k \in Handlers, Found(k, t)'
        PROVE  Found(k, t) \/ (t = request[h].timer /\ t \in timer_queue)
    <2>0. check \in [Handlers -> BOOLEAN]
      BY DEF Typed, HandlerTypes
    <2>1. CASE k = h
      <3>1. check'[h] /\ request[h] = [op |-> "cancel", timer |-> t]
        BY <1>2, <1>4, <2>1 DEF Found
      <3>2. request[h].timer \in timer_queue
        BY <1>2, <2>0, <3>1
      <3> QED
        BY <3>1, <3>2
    <2>2. CASE k # h
      BY <1>2, <1>4, <2>2 DEF Found, Typed, HandlerTypes
    <2> QED
      BY <2>1, <2>2
  <1>5. /\ asked'[t] = 0 => ~Pending(t)'
        /\ asked'[t] = 0 \/ Pending(t)' => asked[t] = 0 \/ Pending(t)
    BY <1>1, PlacesNext DEF Life
  <1>6. Out(t) => Out(t)'
    BY <1>1, <1>2 DEF Out
  <1>7. ASSUME NEW k \in Handlers, Found(k, t)' PROVE Out(t)'
    BY <1>1, <1>2, <1>4, <1>6, <1>7 DEF Life, Out
  <1>8. Untouched(t) => Untouched(t)'
    BY <1>1, <1>3, <1>4, <1>6 DEF Untouched, Out
  <1> QED
    BY <1>1, <1>2, <1>5, <1>6, <1>7, <1>8 DEF Life

LEMMA LifeReplyCancelled ==
    ASSUME Typed, Lives, [Next]_vars, NEW h \in Handlers, ReplyCancelled(h),
           NEW t \in Timers
    PROVE  Life(t)'
  <1>1. /\ Life(t) /\ InBatch' = InBatch
        /\ fired' = fired /\ timer_queue' = timer_queue
    BY DEF Lives, InBatch, ReplyCancelled, threadVars, timerVars
  <1>2. /\ request' = request /\ hpc' = [hpc EXCEPT ![h] = "release"]
        /\ hpc \in [Handlers -> {"idle", "handle", "insert", "reply", "trigger",
                                 "release"}]
    BY DEF ReplyCancelled, Typed, HandlerTypes
  <1>3. \A k \in Handlers : /\ Replying(k, t)' => Replying(k, t)
                            /\ Found(k, t)' => Found(k, t)
    <2>1. \A k \in Handlers : k # h => check'[k] = check[k]
      BY DEF ReplyCancelled, Typed, HandlerTypes
    <2> QED
      BY <1>2, <2>1 DEF Replying, Found
  <1>4. t \in cancelled' => t \in cancelled \/ Found(h, t)
    <2>1. request[h].timer = t /\ request[h].op = "cancel"
            => request[h] = [op |-> "cancel", timer |-> t]
      BY HeldRequest DEF ReplyCancelled, Requests
    <2> QED
      BY <2>1 DEF ReplyCancelled, Found
  <1>5. /\ asked'[t] = 0 => ~Pending(t)'
        /\ asked'[t] = 0 \/ Pending(t)' => asked[t] = 0 \/ Pending(t)
    BY <1>1, PlacesNext DEF Life
  <1>6. Out(t)' <=> Out(t)
    BY <1>1 DEF Out
  <1>7. Untouched(t) => Untouched(t)'
    BY <1>3, <1>4, <1>6 DEF Untouched
  <1> QED
    BY <1>1, <1>3, <1>4, <1>5, <1>6, <1>7 DEF Life

(* Exactly the due timers move to the batch.                               *)
LEMMA CollectMoves ==
    ASSUME Typed, Tokens, CollectDue
    PROVE  /\ InBatch' = Due /\ Due \subseteq timer_queue
           /\ timer_queue' = timer_queue \ Due
           /\ batch' \in [1..Cardinality(Due) -> Due]
           /\ DOMAIN batch' = 1..Cardinality(Due)
           /\ \A i, j \in DOMAIN batch' : batch'[i] = batch'[j] => i = j
  <1> DEFINE n == Cardinality(Due)
  <1>1. Due \subseteq Timers /\ IsFiniteSet(Due) /\ n \in Nat
    BY FS_Subset, FS_CardinalityType, TimerAssumption
       DEF Due, Typed, ThreadTypes
  <1>2. /\ batch' = InTokenOrder(Due)
        /\ batch' \in [1..n -> Due]
        /\ \A i, j \in 1..n : i < j => TokenLess(batch'[i], batch'[j])
    BY BatchOfDue DEF CollectDue
  <1>3. \A t \in Due : ~TokenLess(t, t)
    <2>1. \A t \in Due : deadline[t] \in Nat /\ NonceOf(t) \in Nat
      BY SMTT(30), <1>1, NonceOfProperties, TimerAssumption
         DEF Due, Tokens, Typed, ThreadTypes, ClientTypes
    <2> QED
      BY <2>1 DEF TokenLess
  <1>4. \A i, j \in 1..n : i # j => batch'[i] # batch'[j]
    <2> SUFFICES ASSUME NEW i \in 1..n, NEW j \in 1..n, i < j
                 PROVE  batch'[i] # batch'[j]
      BY <1>1
    <2> QED
      BY <1>2, <1>3
  <1>5. batch' \in Injection(1..n, Due)
    BY <1>2, <1>4 DEF Injection, IsInjective
  <1>6. batch' \in Surjection(1..n, Due)
    <2>1. IsFiniteSet(1..n) /\ Cardinality(1..n) = n
      BY <1>1, FS_Interval
    <2> QED
      BY <1>1, <1>5, <2>1, FS_Injection
  <1>7. InBatch' = Due
    <2>1. DOMAIN batch' = 1..n /\ \A i \in 1..n : batch'[i] \in Due
      BY <1>2
    <2>2. \A t \in Due : \E i \in 1..n : batch'[i] = t
      BY <1>6 DEF Surjection
    <2> HIDE DEF n
    <2> QED
      BY <2>1, <2>2 DEF InBatch
  <1> QED
    BY <1>2, <1>4, <1>7 DEF CollectDue, Due

LEMMA FireMoves ==
    ASSUME Typed, BatchOnce, FireOne
    PROVE  /\ Head(batch) \in InBatch /\ Head(batch) \in Timers
           /\ InBatch' = InBatch \ {Head(batch)}
           /\ Len(batch) \in Nat /\ Len(batch') = Len(batch) - 1
           /\ \A i \in DOMAIN batch' :
                i + 1 \in DOMAIN batch /\ batch'[i] = batch[i + 1]
           /\ \A i, j \in DOMAIN batch' : batch'[i] = batch'[j] => i = j
  <1>1. /\ batch \in Seq(Timers) /\ batch # <<>> /\ batch' = Tail(batch)
        /\ \A i, j \in DOMAIN batch : batch[i] = batch[j] => i = j
    BY DEF Typed, ThreadTypes, BatchOnce, FireOne
  <1>2. /\ Len(batch) \in Nat /\ DOMAIN batch = 1..Len(batch)
        /\ 1 \in DOMAIN batch /\ Head(batch) = batch[1] /\ batch[1] \in Timers
        /\ DOMAIN batch' = 1..Len(batch) - 1 /\ Len(batch') = Len(batch) - 1
        /\ \A i \in DOMAIN batch' : i + 1 \in DOMAIN batch /\ batch'[i] = batch[i + 1]
    BY <1>1
  <1>3. \A i \in DOMAIN batch : i # 1 => i - 1 \in DOMAIN batch' /\ batch'[i - 1] = batch[i]
    <2> SUFFICES ASSUME NEW i \in DOMAIN batch, i # 1
                 PROVE  i - 1 \in DOMAIN batch' /\ batch'[i - 1] = batch[i]
      OBVIOUS
    <2>1. i - 1 \in DOMAIN batch' /\ (i - 1) + 1 = i
      BY <1>2
    <2> QED
      BY <1>2, <2>1
  <1>4. \A i \in DOMAIN batch' : i + 1 # 1
    BY <1>2
  <1>5. InBatch' = InBatch \ {Head(batch)}
    <2>1. ASSUME NEW t \in InBatch' PROVE t \in InBatch \ {Head(batch)}
      BY <1>1, <1>2, <1>4, <2>1 DEF InBatch
    <2>2. ASSUME NEW t \in InBatch, t # Head(batch) PROVE t \in InBatch'
      BY <1>2, <1>3, <2>2 DEF InBatch
    <2> QED
      BY <2>1, <2>2
  <1>6. \A i, j \in DOMAIN batch' : batch'[i] = batch'[j] => i = j
    BY <1>1, <1>2
  <1> QED
    BY <1>2, <1>5, <1>6 DEF InBatch

LEMMA LifeCollect ==
    ASSUME Typed, Lives, Tokens, BatchOnce, [Next]_vars, CollectDue, NEW t \in Timers
    PROVE  Life(t)'
  <1>1. /\ Life(t) /\ fired' = fired /\ cancelled' = cancelled
        /\ InBatch' \subseteq timer_queue
        /\ timer_queue' = timer_queue \ InBatch'
        /\ InBatch = {}
    BY CollectMoves DEF Lives, BatchOnce, InBatch, CollectDue, clientVars
  <1>2. \A h \in Handlers : /\ Replying(h, t)' <=> Replying(h, t)
                            /\ Found(h, t)' <=> Found(h, t)
    BY DEF CollectDue, handVars, Replying, Found
  <1>3. /\ asked'[t] = 0 => ~Pending(t)'
        /\ asked'[t] = 0 \/ Pending(t)' => asked[t] = 0 \/ Pending(t)
    BY <1>1, PlacesNext DEF Life
  <1>4. Out(t) => Out(t)'
    BY <1>1 DEF Out
  <1>5. Untouched(t) => Untouched(t)'
    BY <1>1, <1>2, <1>4 DEF Untouched
  <1> QED
    BY <1>1, <1>2, <1>3, <1>4, <1>5 DEF Life

LEMMA LifeFire ==
    ASSUME Typed, Lives, BatchOnce, [Next]_vars, FireOne, NEW t \in Timers
    PROVE  Life(t)'
  <1>1. /\ Life(t) /\ cancelled' = cancelled /\ timer_queue' = timer_queue
        /\ Head(batch) \in InBatch
        /\ InBatch' = InBatch \ {Head(batch)}
    BY FireMoves DEF Lives, FireOne
  <1>2. fired'[t] = IF t = Head(batch) THEN fired[t] + 1 ELSE fired[t]
    BY DEF FireOne, Typed, ClientTypes
  <1>3. \A h \in Handlers : /\ Replying(h, t)' <=> Replying(h, t)
                            /\ Found(h, t)' <=> Found(h, t)
    BY DEF FireOne, handVars, Replying, Found
  <1>4. /\ asked'[t] = 0 => ~Pending(t)'
        /\ asked'[t] = 0 \/ Pending(t)' => asked[t] = 0 \/ Pending(t)
    BY <1>1, PlacesNext DEF Life
  <1>5. Out(t) => Out(t)'
    BY <1>1, <1>2 DEF Out
  <1>6. Untouched(t) => Untouched(t)'
    BY <1>1, <1>3, <1>5 DEF Untouched
  <1>7. /\ t \in timer_queue' \/ t \in InBatch' => fired'[t] = 0
        /\ fired'[t] <= 1
        /\ ~(t \in timer_queue' /\ t \in InBatch')
    BY <1>1, <1>2 DEF Life
  <1> QED
    BY <1>1, <1>3, <1>4, <1>5, <1>6, <1>7 DEF Life

LEMMA LivesNext ==
    ASSUME Typed, Lives, Tokens, BatchOnce, [Next]_vars
    PROVE  Lives'
  <1> SUFFICES ASSUME NEW t \in Timers PROVE Life(t)'
    BY PlacesNext DEF Lives
  <1>1. ASSUME NEW h \in Handlers, InsertTimer(h) PROVE Life(t)'
    BY <1>1, LifeInsert
  <1>2. ASSUME NEW h \in Handlers, CancelTimer(h) PROVE Life(t)'
    BY <1>2, LifeCancel
  <1>3. ASSUME NEW h \in Handlers, ReplyCancelled(h) PROVE Life(t)'
    BY <1>3, LifeReplyCancelled
  <1>4. CASE CollectDue
    BY <1>4, LifeCollect
  <1>5. CASE FireOne
    BY <1>5, LifeFire
  <1>6. ASSUME NEW h \in Handlers,
               HandleEvent(h) \/ MakeToken(h) \/ ReplyRegistered(h)
                 \/ TriggerTimerCheck(h) \/ ReleaseEvent(h)
        PROVE  Life(t)'
    <2>1. UNCHANGED <<timer_queue, batch, fired, cancelled>>
      BY <1>6 DEF HandleEvent, MakeToken, ReplyRegistered, TriggerTimerCheck,
                  ReleaseEvent, timerVars, threadVars, clientVars
    <2>2. /\ \A k \in Handlers : k # h => /\ hpc'[k] = hpc[k]
                                          /\ request'[k] = request[k]
                                          /\ check'[k] = check[k]
          /\ hpc'[h] # "reply"
      BY <1>6 DEF HandleEvent, MakeToken, ReplyRegistered, TriggerTimerCheck,
                  ReleaseEvent, Typed, HandlerTypes
    <2>3. \A k \in Handlers : /\ Replying(k, t)' => Replying(k, t)
                              /\ Found(k, t)' => Found(k, t)
      BY <2>2 DEF Replying, Found
    <2> QED
      BY <2>1, <2>3, SameLife
  <1>7. CASE UNCHANGED <<handVars, timer_queue, batch, fired, cancelled>>
    <2>1. \A k \in Handlers : /\ Replying(k, t)' <=> Replying(k, t)
                              /\ Found(k, t)' <=> Found(k, t)
      BY <1>7 DEF Replying, Found, handVars
    <2> QED
      BY <1>7, <2>1, SameLife
  <1> QED
    BY <1>1, <1>2, <1>3, <1>4, <1>5, <1>6, <1>7
       DEF Next, HandlerStep, TimerThread, vars, handVars, timerVars, threadVars,
           clientVars, Register, Cancel, Tick, ExitOrWait, TimeOut,
           SpuriousTimerWake, Connect, DisconnectPrepare, DisconnectWait,
           DisconnectReturn

-----------------------------------------------------------------------------
(* The timer thread's batch, and num_events.                               *)
LEMMA BatchOnceNext ==
    ASSUME Typed, Tokens, BatchOnce, [Next]_vars
    PROVE  BatchOnce'
  <1>0. phase \in [{Self} -> {"open", "closing", "closed"}]
    BY DEF Typed, QueueTypes
  <1>1. CASE CollectDue
    BY <1>1, CollectMoves DEF BatchOnce, CollectDue, stageVars
  <1>2. CASE FireOne
    BY <1>2, FireMoves DEF BatchOnce, FireOne, stageVars
  <1>3. CASE ExitOrWait
    BY <1>3 DEF BatchOnce, ExitOrWait, stageVars
  <1>4. CASE TimeOut \/ SpuriousTimerWake
    BY <1>4 DEF BatchOnce, TimeOut, SpuriousTimerWake, stageVars
  <1>5. CASE Connect
    BY <1>0, <1>5 DEF BatchOnce, Connect, Queue!Open
  <1>6. CASE DisconnectPrepare
    BY <1>6 DEF BatchOnce, DisconnectPrepare, ShutdownSignal, SignalTimer,
                MutexFree, stageVars
  <1>7. CASE DisconnectWait \/ DisconnectReturn
    BY <1>0, <1>7 DEF BatchOnce, DisconnectWait, DisconnectReturn, Queue!Close,
                      Queue!Closed, threadVars
  <1>8. ASSUME NEW h \in Handlers, TriggerTimerCheck(h) PROVE BatchOnce'
    BY <1>8 DEF BatchOnce, TriggerTimerCheck, SignalTimer, stageVars, MutexFree
  <1>9. CASE UNCHANGED <<threadVars, phase>>
    BY <1>9 DEF BatchOnce, threadVars
  <1> QED
    BY <1>1, <1>2, <1>3, <1>4, <1>5, <1>6, <1>7, <1>8, <1>9
       DEF Next, HandlerStep, TimerThread, vars, threadVars, stageVars, Register,
           Cancel, Tick, HandleEvent, MakeToken, InsertTimer, ReplyRegistered,
           CancelTimer, ReplyCancelled, ReleaseEvent, Queue!Add, Queue!Take,
           Queue!Finish

LEMMA CountNext ==
    ASSUME Typed, Lives, BatchOnce, Tokens, Count, [Next]_vars
    PROVE  Count'
  <1>0. /\ num_events \in Int /\ Len(batch) \in Nat
        /\ IsFiniteSet(timer_queue) /\ Cardinality(timer_queue) \in Nat
        /\ num_events = Cardinality(timer_queue) + Len(batch)
    BY FS_Subset, FS_CardinalityType, TimerAssumption DEF Typed, ThreadTypes, Count
  <1>1. ASSUME NEW h \in Handlers, InsertTimer(h) PROVE Count'
    <2> DEFINE t == request[h].timer
    <2>1. t \in Timers /\ request[h] = RegReq(t)
      BY <1>1, HeldRequest DEF InsertTimer, Typed, HandlerFits, RegReq, Requests
    <2>2. Pending(t)
      BY <1>1, <2>1 DEF InsertTimer, Pending, Registering
    <2>3. t \notin timer_queue
      BY <2>1, <2>2 DEF Lives, Life, Untouched, Out
    <2>4. Cardinality(timer_queue \cup {t}) = Cardinality(timer_queue) + 1
      BY <1>0, <2>3, FS_AddElement
    <2>5. /\ timer_queue' = timer_queue \cup {t} /\ num_events' = num_events + 1
          /\ batch' = batch
      BY <1>1 DEF InsertTimer, threadVars
    <2> QED
      BY <1>0, <2>4, <2>5 DEF Count
  <1>2. ASSUME NEW h \in Handlers, CancelTimer(h) PROVE Count'
    <2> DEFINE t == request[h].timer
    <2>1. Cardinality(timer_queue \ {t}) =
            IF t \in timer_queue THEN Cardinality(timer_queue) - 1
                                 ELSE Cardinality(timer_queue)
      BY <1>0, FS_RemoveElement
    <2>2. /\ timer_queue' = timer_queue \ {t} /\ batch' = batch
          /\ num_events' = IF t \in timer_queue THEN num_events - 1 ELSE num_events
      BY <1>2 DEF CancelTimer, NumAfterCancel, threadVars
    <2> QED
      BY <1>0, <2>1, <2>2 DEF Count
  <1>3. CASE CollectDue
    <2>1. /\ IsFiniteSet(Due) /\ Cardinality(Due) \in Nat
          /\ Cardinality(timer_queue \ Due) = Cardinality(timer_queue) - Cardinality(Due)
      <3>1. Due \subseteq timer_queue
        BY DEF Due
      <3>2. timer_queue \cap Due = Due
        BY <3>1
      <3> QED
        BY ZenonT(30), <1>0, <3>1, <3>2, FS_Subset, FS_CardinalityType, FS_Difference
    <2>2. batch = <<>> /\ num_events' = num_events
      BY <1>3 DEF BatchOnce, CollectDue
    <2>3. batch' \in Seq(Due) /\ Len(batch') = Cardinality(Due)
      BY <1>3, <2>1, CollectMoves
    <2>4. Len(batch) = 0 /\ timer_queue' = timer_queue \ Due
      BY <1>3, <2>2, CollectMoves
    <2> QED
      BY <1>0, <2>1, <2>2, <2>3, <2>4 DEF Count
  <1>4. CASE FireOne
    BY <1>0, <1>4, FireMoves DEF FireOne, Count
  <1>5. CASE UNCHANGED <<timer_queue, num_events, batch>>
    BY <1>5 DEF Count
  <1> QED
    BY <1>1, <1>2, <1>3, <1>4, <1>5
       DEF Next, HandlerStep, TimerThread, vars, timerVars, threadVars, Register,
           Cancel, Tick, HandleEvent, MakeToken, ReplyRegistered,
           TriggerTimerCheck, ReplyCancelled, ReleaseEvent, ExitOrWait, TimeOut,
           SpuriousTimerWake, Connect, DisconnectPrepare, DisconnectWait,
           DisconnectReturn

-----------------------------------------------------------------------------
(* Tokens.  A token is made for a timer that has none, and is kept.        *)
LEMMA MakeTokenMakes ==
    ASSUME Typed, Lives, Tokens, NEW h \in Handlers, MakeToken(h)
    PROVE  LET u == request[h].timer IN
           /\ u \in Timers /\ request[h] = RegReq(u) /\ ~HasToken(u)
           /\ asked[u] # 0
           /\ Len(nonces) \in Nat /\ DOMAIN nonces = 1..Len(nonces)
           /\ DOMAIN nonces' = 1..Len(nonces) + 1
           /\ nonces'[Len(nonces) + 1] = u
           /\ \A i \in DOMAIN nonces : i \in DOMAIN nonces' /\ nonces'[i] = nonces[i]
  <1> DEFINE u == request[h].timer
  <1>1. /\ nonces \in Seq(Timers) /\ nonces' = Append(nonces, u)
        /\ u \in Timers /\ request[h] = RegReq(u) /\ hpc[h] = "handle"
    BY HeldRequest DEF MakeToken, Typed, ThreadTypes, RegReq, Requests
  <1>2. /\ Len(nonces) \in Nat /\ DOMAIN nonces = 1..Len(nonces)
        /\ DOMAIN nonces' = 1..Len(nonces) + 1
        /\ nonces'[Len(nonces) + 1] = u
        /\ \A i \in DOMAIN nonces : i \in DOMAIN nonces' /\ nonces'[i] = nonces[i]
    BY <1>1
  <1>3. Registering(h, u) /\ Pending(u)
    BY <1>1 DEF Registering, Pending
  <1>4. ~HasToken(u)
    <2> SUFFICES ASSUME HasToken(u) PROVE FALSE
      OBVIOUS
    <2>1. PICK k \in Handlers : Inserting(k, u)
      BY <1>1, <1>3 DEF Tokens
    <2>2. k = h
      BY <1>1, <1>3, <2>1 DEF Lives, Once, Registering, Inserting
    <2> QED
      BY <1>1, <2>1, <2>2 DEF Inserting
  <1>5. asked[u] # 0
    BY <1>1, <1>3 DEF Lives, Life
  <1> QED
    BY <1>1, <1>2, <1>4, <1>5

LEMMA TokensKept ==
    ASSUME Typed, Lives, Tokens, [Next]_vars
    PROVE  /\ \A i, j \in DOMAIN nonces' : nonces'[i] = nonces'[j] => i = j
           /\ \A t : HasToken(t) => HasToken(t)' /\ NonceOf(t)' = NonceOf(t)
  <1>0. \A i, j \in DOMAIN nonces : nonces[i] = nonces[j] => i = j
    BY DEF Tokens
  <1>1. ASSUME NEW h \in Handlers, MakeToken(h)
        PROVE  /\ \A i, j \in DOMAIN nonces' : nonces'[i] = nonces'[j] => i = j
               /\ \A t : HasToken(t) => HasToken(t)' /\ NonceOf(t)' = NonceOf(t)
    <2> DEFINE u == request[h].timer
               n == Len(nonces)
    <2>1. /\ ~HasToken(u) /\ n \in Nat /\ DOMAIN nonces = 1..n
          /\ DOMAIN nonces' = 1..n + 1 /\ nonces'[n + 1] = u
          /\ \A i \in DOMAIN nonces : i \in DOMAIN nonces' /\ nonces'[i] = nonces[i]
      BY <1>1, MakeTokenMakes
    <2>2. \A i \in DOMAIN nonces' : i = n + 1 \/ i \in DOMAIN nonces
      BY <2>1
    <2> HIDE DEF u, n
    <2>3. \A i \in DOMAIN nonces : nonces[i] # u
      BY <2>1 DEF HasToken
    <2>4. \A i, j \in DOMAIN nonces' : nonces'[i] = nonces'[j] => i = j
      BY <1>0, <2>1, <2>2, <2>3
    <2>5. ASSUME NEW t, HasToken(t) PROVE HasToken(t)' /\ NonceOf(t)' = NonceOf(t)
      <3>1. NonceOf(t) \in DOMAIN nonces /\ nonces[NonceOf(t)] = t
        BY <2>5, NonceOfProperties
      <3>2. NonceOf(t) \in DOMAIN nonces' /\ nonces'[NonceOf(t)] = t
        BY <2>1, <3>1
      <3>3. \A i \in DOMAIN nonces' : nonces'[i] = t <=> i = NonceOf(t)
        BY <2>4, <3>2
      <3> QED
        BY <3>2, <3>3 DEF HasToken, NonceOf
    <2> QED
      BY <2>4, <2>5
  <1>2. CASE UNCHANGED nonces
    BY <1>0, <1>2 DEF HasToken, NonceOf
  <1> QED
    BY <1>1, <1>2
       DEF Next, HandlerStep, TimerThread, vars, Register,
           Cancel, Tick, HandleEvent, InsertTimer, ReplyRegistered,
           TriggerTimerCheck, CancelTimer, ReplyCancelled, ReleaseEvent,
           CollectDue, FireOne, ExitOrWait, TimeOut, SpuriousTimerWake, Connect,
           DisconnectPrepare, DisconnectWait, DisconnectReturn

LEMMA HandlersInserting ==
    ASSUME Typed, [Next]_vars, NEW k \in Handlers, NEW t
    PROVE  /\ Inserting(k, t)' =>
                Inserting(k, t) \/ (MakeToken(k) /\ request[k] = RegReq(t))
           /\ Inserting(k, t) => Inserting(k, t)' \/ InsertTimer(k)
  <1> DEFINE Goal == /\ Inserting(k, t)' =>
                          Inserting(k, t) \/ (MakeToken(k) /\ request[k] = RegReq(t))
                     /\ Inserting(k, t) => Inserting(k, t)' \/ InsertTimer(k)
  <1>0. /\ hpc \in [Handlers -> {"idle", "handle", "insert", "reply", "trigger",
                                 "release"}]
        /\ request \in [Handlers -> Requests \cup {NoRequest}]
    BY DEF Typed, HandlerTypes
  <1>1. ASSUME NEW h \in Handlers, HandlerStep(h), h = k PROVE Goal
    BY <1>0, <1>1
       DEF Inserting, HandlerStep, HandleEvent, MakeToken, InsertTimer,
           ReplyRegistered, TriggerTimerCheck, CancelTimer, ReplyCancelled,
           ReleaseEvent
  <1>2. ASSUME NEW h \in Handlers, HandlerStep(h), h # k PROVE Goal
    <2>1. hpc'[k] = hpc[k] /\ request'[k] = request[k]
      BY <1>0, <1>2
         DEF HandlerStep, HandleEvent, MakeToken, InsertTimer, ReplyRegistered,
             TriggerTimerCheck, CancelTimer, ReplyCancelled, ReleaseEvent
    <2> QED
      BY <2>1 DEF Inserting
  <1>3. CASE UNCHANGED handVars
    BY <1>3 DEF Inserting, handVars
  <1> QED
    BY <1>1, <1>2, <1>3
       DEF Next, TimerThread, vars, handVars, Register, Cancel, Tick,
           CollectDue, FireOne, ExitOrWait, TimeOut, SpuriousTimerWake, Connect,
           DisconnectPrepare, DisconnectWait, DisconnectReturn

(* The registered timers are queued ones, or those of the batch, or the one *)
(* that InsertTimer inserts.                                               *)
LEMMA HeldTimers ==
    ASSUME Typed, Tokens, BatchOnce, [Next]_vars,
           NEW t \in timer_queue' \cup InBatch'
    PROVE  \/ t \in timer_queue \cup InBatch
           \/ \E h \in Handlers : InsertTimer(h) /\ Inserting(h, t)
  <1>1. ASSUME NEW h \in Handlers, InsertTimer(h)
        PROVE  t \in timer_queue \cup InBatch \/ Inserting(h, t)
    <2>1. request[h] = RegReq(request[h].timer)
      BY <1>1, HeldRequest DEF InsertTimer, Typed, HandlerFits, RegReq, Requests
    <2>2. /\ timer_queue' = timer_queue \cup {request[h].timer}
          /\ InBatch' = InBatch /\ hpc[h] = "insert"
      BY <1>1 DEF InsertTimer, threadVars, InBatch
    <2> QED
      BY <2>1, <2>2 DEF Inserting
  <1>2. ASSUME NEW h \in Handlers, CancelTimer(h)
        PROVE  t \in timer_queue \cup InBatch
    BY <1>2 DEF CancelTimer, threadVars, InBatch
  <1>3. CASE CollectDue
    BY <1>3, CollectMoves
  <1>4. CASE FireOne
    BY <1>4, FireMoves DEF FireOne
  <1>5. CASE UNCHANGED <<timer_queue, batch>>
    BY <1>5 DEF InBatch
  <1> QED
    BY <1>1, <1>2, <1>3, <1>4, <1>5
       DEF Next, HandlerStep, TimerThread, vars, timerVars, threadVars, Register,
           Cancel, Tick, HandleEvent, MakeToken, ReplyRegistered,
           TriggerTimerCheck, ReplyCancelled, ReleaseEvent, ExitOrWait, TimeOut,
           SpuriousTimerWake, Connect, DisconnectPrepare, DisconnectWait,
           DisconnectReturn

(* A timer that gets its token in this step.                               *)
LEMMA NewTokens ==
    ASSUME Typed, Lives, Tokens, [Next]_vars, NEW t, HasToken(t)', ~HasToken(t)
    PROVE  \E h \in Handlers : MakeToken(h) /\ request[h] = RegReq(t)
  <1>1. ASSUME NEW h \in Handlers, MakeToken(h) PROVE request[h] = RegReq(t)
    <2> DEFINE u == request[h].timer
               n == Len(nonces)
    <2>1. /\ request[h] = RegReq(u) /\ n \in Nat /\ DOMAIN nonces = 1..n
          /\ DOMAIN nonces' = 1..n + 1 /\ nonces'[n + 1] = u
          /\ \A i \in DOMAIN nonces : nonces'[i] = nonces[i]
      BY <1>1, MakeTokenMakes
    <2>2. \A i \in DOMAIN nonces' : i = n + 1 \/ i \in DOMAIN nonces
      BY <2>1
    <2> HIDE DEF u, n
    <2>3. t = u
      BY <2>1, <2>2 DEF HasToken
    <2> QED
      BY <2>1, <2>3
  <1>2. CASE UNCHANGED nonces
    BY <1>2 DEF HasToken
  <1> QED
    BY <1>1, <1>2
       DEF Next, HandlerStep, TimerThread, vars, Register,
           Cancel, Tick, HandleEvent, InsertTimer, ReplyRegistered,
           TriggerTimerCheck, CancelTimer, ReplyCancelled, ReleaseEvent,
           CollectDue, FireOne, ExitOrWait, TimeOut, SpuriousTimerWake, Connect,
           DisconnectPrepare, DisconnectWait, DisconnectReturn

LEMMA TokensNext ==
    ASSUME Typed, Lives, Tokens, BatchOnce, [Next]_vars
    PROVE  Tokens'
  <1>1. ASSUME NEW h \in Handlers, NEW t, MakeToken(h), request[h] = RegReq(t)
        PROVE  HasToken(t)' /\ Inserting(h, t)' /\ asked'[t] # 0
    <2>1. request[h].timer = t
      BY <1>1 DEF RegReq
    <2>2. HasToken(t)' /\ asked[t] # 0
      <3>1. /\ Len(nonces) \in Nat /\ nonces'[Len(nonces) + 1] = t
            /\ DOMAIN nonces' = 1..Len(nonces) + 1 /\ asked[t] # 0
        BY <1>1, <2>1, MakeTokenMakes
      <3>2. Len(nonces) + 1 \in DOMAIN nonces'
        BY <3>1
      <3> QED
        BY <3>1, <3>2 DEF HasToken
    <2>3. Inserting(h, t)'
      BY <1>1 DEF MakeToken, Inserting, Typed, HandlerTypes
    <2>4. asked' = asked
      BY <1>1 DEF MakeToken, clientVars
    <2> QED
      BY <2>2, <2>3, <2>4
  <1>2. ASSUME NEW h \in Handlers, NEW t \in Timers, Inserting(h, t)' PROVE HasToken(t)'
    <2>1. Inserting(h, t) \/ (MakeToken(h) /\ request[h] = RegReq(t))
      BY <1>2, HandlersInserting
    <2> QED
      BY <1>1, <2>1, TokensKept DEF Tokens
  <1>3. ASSUME NEW t \in timer_queue' \cup InBatch' PROVE HasToken(t)'
    <2>1. CASE t \in timer_queue \cup InBatch
      BY <2>1, TokensKept DEF Tokens
    <2>2. ASSUME NEW h \in Handlers, InsertTimer(h), Inserting(h, t) PROVE HasToken(t)'
      <3>1. t \in Timers
        BY <2>2, HeldRequest DEF InsertTimer, Inserting, RegReq
      <3> QED
        BY <2>2, <3>1, TokensKept DEF Tokens
    <2> QED
      BY <2>1, <2>2, HeldTimers
  <1>4. ASSUME NEW t \in Timers, HasToken(t)'
        PROVE  asked'[t] # 0 /\ (Pending(t)' => \E h \in Handlers : Inserting(h, t)')
    <2>1. CASE HasToken(t)
      <3>1. asked[t] # 0 /\ asked'[t] # 0
        BY <2>1, PlacesNext DEF Tokens
      <3>2. ASSUME Pending(t)' PROVE \E h \in Handlers : Inserting(h, t)'
        <4>1. Pending(t)
          BY <3>1, <3>2, PlacesNext
        <4>2. PICK h \in Handlers : Inserting(h, t)
          BY <2>1, <4>1 DEF Tokens
        <4>3. ~InsertTimer(h)
          <5>1. request[h].timer = t
            BY <4>2 DEF Inserting, RegReq
          <5> QED
            BY <3>2, <5>1, HandlerPlaces DEF HandlerStep, InsertTimer, HandleEvent
        <4> QED
          BY <4>2, <4>3, HandlersInserting
      <3> QED
        BY <3>1, <3>2
    <2>2. CASE ~HasToken(t)
      BY <1>1, <1>4, <2>2, NewTokens
    <2> QED
      BY <2>1, <2>2
  <1> QED
    BY <1>2, <1>3, <1>4, TokensKept DEF Tokens

-----------------------------------------------------------------------------
(* The order of the batch.  The order of two timers that have their tokens *)
(* is settled: a deadline is written before the timer is asked for.        *)
LEMMA OrderKept ==
    ASSUME Typed, Lives, Tokens, [Next]_vars,
           NEW t \in Timers, NEW u \in Timers, HasToken(t), HasToken(u)
    PROVE  deadline'[t] = deadline[t] /\ (TokenLess(t, u)' <=> TokenLess(t, u))
  <1>1. \A x \in Timers : HasToken(x) => deadline'[x] = deadline[x]
    <2>1. ASSUME NEW y \in Timers, NEW d \in 0..MaxTime, Register(y, d),
                 NEW x \in Timers, HasToken(x)
          PROVE  deadline'[x] = deadline[x]
      <3>1. asked[x] # 0
        BY <2>1 DEF Tokens
      <3> QED
        BY <2>1, <3>1 DEF Register, Typed, ClientTypes
    <2>2. CASE UNCHANGED deadline
      BY <2>2
    <2> QED
      BY <2>1, <2>2
         DEF Next, HandlerStep, TimerThread, vars, clientVars,
             Cancel, Tick, HandleEvent, MakeToken, InsertTimer, ReplyRegistered,
             TriggerTimerCheck, CancelTimer, ReplyCancelled, ReleaseEvent,
             CollectDue, FireOne, ExitOrWait, TimeOut, SpuriousTimerWake, Connect,
             DisconnectPrepare, DisconnectWait, DisconnectReturn
  <1> QED
    BY <1>1, TokensKept DEF TokenLess

LEMMA TimeGoesOn ==
    ASSUME Typed, [Next]_vars
    PROVE  now \in Nat /\ now' \in Nat /\ now <= now'
  <1>1. now \in Nat
    BY TimerAssumption DEF Typed, ThreadTypes
  <1>2. CASE Tick
    BY <1>1, <1>2 DEF Tick
  <1>3. CASE UNCHANGED now
    BY <1>1, <1>3
  <1> QED
    BY <1>2, <1>3
       DEF Next, HandlerStep, TimerThread, vars, Register,
           Cancel, HandleEvent, MakeToken, InsertTimer, ReplyRegistered,
           TriggerTimerCheck, CancelTimer, ReplyCancelled, ReleaseEvent,
           CollectDue, FireOne, ExitOrWait, TimeOut, SpuriousTimerWake, Connect,
           DisconnectPrepare, DisconnectWait, DisconnectReturn

LEMMA BatchOrderNext ==
    ASSUME Typed, Lives, Tokens, BatchOnce, BatchOrder, [Next]_vars
    PROVE  BatchOrder'
  <1>1. \A t \in timer_queue \cup InBatch : t \in Timers /\ HasToken(t)
    BY DEF Tokens, InBatch, Typed, ThreadTypes
  <1>2. /\ \A t, u \in timer_queue \cup InBatch :
             deadline'[t] = deadline[t] /\ (TokenLess(t, u)' <=> TokenLess(t, u))
        /\ \A t \in timer_queue \cup InBatch : deadline[t] \in Nat
    BY <1>1, OrderKept, TimerAssumption DEF Typed, ClientTypes
  <1>3. CASE CollectDue
    <2>1. /\ now \in Nat /\ now' = now /\ Due \subseteq timer_queue
          /\ \A t \in Due : deadline[t] <= now
          /\ \A t \in timer_queue \ Due : now < deadline[t]
      BY <1>2, <1>3, TimeGoesOn DEF CollectDue, Due
    <2>2. /\ DOMAIN batch' = 1..Cardinality(Due)
          /\ timer_queue' = timer_queue \ Due
          /\ \A i \in DOMAIN batch' : batch'[i] \in Due
          /\ \A i, j \in DOMAIN batch' : i < j => TokenLess(batch'[i], batch'[j])
      BY <1>3, CollectMoves, BatchOfDue DEF CollectDue
    <2>3. \A t \in Due, u \in timer_queue \ Due : TokenLess(t, u)
      BY <1>2, <2>1 DEF TokenLess
    <2>4. \A i, j \in DOMAIN batch' : i < j => TokenLess(batch[i], batch[j])'
      <3>1. UNCHANGED <<deadline, nonces>>
        BY <1>3 DEF CollectDue, clientVars
      <3> QED
        BY SMTT(30), <2>2, <3>1 DEF TokenLess, NonceOf
    <2>5. \A i \in DOMAIN batch', u \in timer_queue' : TokenLess(batch[i], u)'
      <3>1. UNCHANGED <<deadline, nonces>>
        BY <1>3 DEF CollectDue, clientVars
      <3> QED
        BY <2>2, <2>3, <3>1 DEF TokenLess, NonceOf
    <2>6. \A i \in DOMAIN batch' : deadline'[batch'[i]] <= now'
      BY <1>2, <2>1, <2>2
    <2> QED
      BY <2>4, <2>5, <2>6 DEF BatchOrder
  <1>4. CASE FireOne
    <2>1. \A i \in DOMAIN batch' : i + 1 \in DOMAIN batch /\ batch'[i] = batch[i + 1]
      BY <1>4, FireMoves
    <2>2. \A i, j \in DOMAIN batch' : i < j => i + 1 < j + 1
      <3>1. DOMAIN batch' \subseteq Int
        BY <1>4, ThreadTypesNext DEF ThreadTypes
      <3> QED
        BY <3>1
    <2>3. UNCHANGED <<timer_queue, now, deadline, nonces>>
      BY <1>4 DEF FireOne
    <2> QED
      BY <2>1, <2>2, <2>3 DEF BatchOrder, TokenLess, NonceOf
  <1>5. CASE batch' = <<>>
    BY <1>5 DEF BatchOrder
  <1>6. CASE batch' = batch /\ timer_queue' \subseteq timer_queue
    <2>1. \A i \in DOMAIN batch : batch[i] \in InBatch
      BY DEF InBatch
    <2>2. /\ \A i \in DOMAIN batch' : deadline'[batch'[i]] <= now'
          /\ \A i, j \in DOMAIN batch' : i < j => TokenLess(batch[i], batch[j])'
          /\ \A i \in DOMAIN batch', u \in timer_queue' : TokenLess(batch[i], u)'
      BY <1>2, <1>6, <2>1, TimeGoesOn DEF BatchOrder
    <2> QED
      BY <1>6, <2>2 DEF BatchOrder
  <1>7. ASSUME NEW h \in Handlers, InsertTimer(h) PROVE batch' = <<>>
    BY <1>7 DEF InsertTimer, MutexFree, BatchOnce, threadVars
  <1> QED
    BY <1>3, <1>4, <1>5, <1>6, <1>7
       DEF Next, HandlerStep, TimerThread, vars, timerVars, threadVars, Register,
           Cancel, Tick, HandleEvent, MakeToken, ReplyRegistered, CancelTimer,
           TriggerTimerCheck, ReplyCancelled, ReleaseEvent, ExitOrWait, TimeOut,
           SpuriousTimerWake, Connect, DisconnectPrepare, DisconnectWait,
           DisconnectReturn

-----------------------------------------------------------------------------
(* The invariant.                                                          *)
LEMMA TimerInvInit == Init => TimerInv
  <1> SUFFICES ASSUME Init PROVE TimerInv
    OBVIOUS
  <1>1. /\ Acc = <<>> /\ Par = <<>> /\ \A h \in Handlers : hpc[h] = "idle"
        /\ InBatch = {} /\ timer_queue = {} /\ cancelled = {}
        /\ \A t \in Timers : fired[t] = 0
    BY DEF Init, Queue!Init, Acc, Par, InBatch
  <1>2. Lives
    BY <1>1, RegEmpty
       DEF Lives, Once, Life, Pending, Untouched, Out, Registering, Replying, Found
  <1>3. BatchOnce
    BY DEF Init, BatchOnce
  <1>4. Count
    BY FS_EmptySet DEF Init, Count
  <1>5. Tokens
    <2>1. \A t : ~HasToken(t)
      BY DEF Init, HasToken
    <2> QED
      BY <1>1, <2>1 DEF Tokens, Inserting, Init
  <1>6. BatchOrder
    BY DEF Init, BatchOrder
  <1> QED
    BY <1>2, <1>3, <1>4, <1>5, <1>6, TypedInit DEF TimerInv

LEMMA TimerInvNext == TimerInv /\ [Next]_vars => TimerInv'
  BY TypedNext, LivesNext, BatchOnceNext, CountNext, TokensNext, BatchOrderNext
     DEF TimerInv

(* The inductive invariant holds: each registration is in one place until   *)
(* it is inserted, each timer has one token and one life, and the batch and *)
(* the queue are ordered.                                                  *)
THEOREM TimerInvariant == Spec => []TimerInv
  BY TimerInvInit, TimerInvNext, PTL DEF Spec

LEMMA TypesAndCount == TimerInv => NumEventsExact
  <1> SUFFICES ASSUME TimerInv PROVE NumEventsExact
    OBVIOUS
  <1>1. /\ batch \in Seq(Timers) /\ timer_queue \subseteq Timers
        /\ InBatch \subseteq Timers
        /\ \A i, j \in DOMAIN batch : batch[i] = batch[j] => i = j
    BY DEF TimerInv, Typed, ThreadTypes, BatchOnce, InBatch
  <1>2. Cardinality(InBatch) = Len(batch) /\ IsFiniteSet(InBatch)
    <2>1. Len(batch) \in Nat /\ batch \in [1..Len(batch) -> InBatch]
      BY <1>1 DEF InBatch
    <2>2. batch \in Bijection(1..Len(batch), InBatch)
      BY <1>1, <2>1 DEF Bijection, Injection, Surjection, IsInjective, InBatch
    <2>3. IsFiniteSet(1..Len(batch)) /\ Cardinality(1..Len(batch)) = Len(batch)
      BY <2>1, FS_Interval
    <2> QED
      BY <2>2, <2>3, FS_Bijection DEF ExistsBijection
  <1>3. timer_queue \cap InBatch = {}
    BY <1>1 DEF TimerInv, Lives, Life
  <1>4. num_events \in 0..Cardinality(Timers)
    <2>1. /\ IsFiniteSet(timer_queue)
          /\ timer_queue \cup InBatch \subseteq Timers
      BY <1>1, FS_Subset, TimerAssumption
    <2>2. /\ Cardinality(timer_queue \cup InBatch)
               = Cardinality(timer_queue) + Cardinality(InBatch)
          /\ Cardinality(timer_queue \cup InBatch) <= Cardinality(Timers)
      <3>1. Cardinality(timer_queue \cap InBatch) = 0
        BY <1>3, FS_EmptySet
      <3>2. /\ Cardinality(timer_queue) \in Nat /\ Cardinality(InBatch) \in Nat
            /\ Cardinality(timer_queue \cup InBatch)
                 = Cardinality(timer_queue) + Cardinality(InBatch)
                     - Cardinality(timer_queue \cap InBatch)
        BY <1>2, <2>1, FS_Union, FS_CardinalityType
      <3> QED
        BY <2>1, <3>1, <3>2, FS_Subset, TimerAssumption
    <2>3. /\ Cardinality(timer_queue) \in Nat /\ Cardinality(InBatch) \in Nat
          /\ Cardinality(Timers) \in Nat
      BY <1>2, <2>1, FS_CardinalityType, TimerAssumption
    <2>4. num_events = Cardinality(timer_queue) + Cardinality(InBatch)
      BY <1>2 DEF TimerInv, Count
    <2> QED
      BY <2>2, <2>3, <2>4
  <1>5. TypeOK
    <2>1. shutdown \in BOOLEAN /\ joining \in BOOLEAN
      BY DEF TimerInv, Typed, FlagTypes
    <2>2. HandlerTypes /\ ThreadTypes /\ ClientTypes
      BY DEF TimerInv, Typed
    <2> QED
      BY <1>4, <2>1, <2>2 DEF TypeOK, HandlerTypes, ThreadTypes, ClientTypes
  <1> QED
    BY <1>5 DEF NumEventsExact, TimerInv, Count

(* TimerStage::num_events, which getNumEvents reports, counts the timers   *)
(* that are registered and neither triggered nor cancelled, also while     *)
(* checkTimer is half way through its batch; and the types hold.           *)
THEOREM NumEventsAreExact == Spec => []NumEventsExact
  BY TimerInvariant, TypesAndCount, PTL

(* Once a TimerCancelEvent reported success the timer never fires, however *)
(* cancelTimer, checkTimer and the late reply of registerTimer interleave; *)
(* and no timer fires twice.                                               *)
THEOREM CancelledForGood == Spec => []CancelIsFinal
  <1>1. TimerInv => CancelIsFinal
    BY DEF TimerInv, Lives, Life, Out, CancelIsFinal
  <1> QED
    BY <1>1, TimerInvariant, PTL

(* checkTimer triggers a timer only when it is due, and before every other *)
(* registered timer: the order of the tokens is the order of the callbacks.*)
THEOREM TimersFireInOrder == Spec => FiresInOrder
  <1>1. ASSUME TimerInv, [Next]_vars, NEW t \in Timers, fired'[t] # fired[t]
        PROVE  /\ deadline[t] <= now
               /\ \A u \in timer_queue \cup InBatch : u = t \/ TokenLess(t, u)
    <2>1. FireOne
      BY <1>1 DEF Next, HandlerStep, TimerThread, vars, clientVars, Register,
           Cancel, Tick, HandleEvent, MakeToken, InsertTimer, ReplyRegistered,
           TriggerTimerCheck, CancelTimer, ReplyCancelled, ReleaseEvent,
           CollectDue, ExitOrWait, TimeOut, SpuriousTimerWake, Connect,
           DisconnectPrepare, DisconnectWait, DisconnectReturn
    <2>2. /\ batch \in Seq(Timers) /\ batch # <<>>
          /\ fired \in [Timers -> Nat]
          /\ fired' = [fired EXCEPT ![Head(batch)] = @ + 1]
      BY <1>1, <2>1 DEF FireOne, TimerInv, Typed, ThreadTypes, ClientTypes
    <2>3. 1 \in DOMAIN batch /\ batch[1] = t /\ DOMAIN batch = 1..Len(batch)
          /\ Len(batch) \in Nat
      BY <1>1, <2>2
    <2>4. \A u \in InBatch : u = t \/ TokenLess(t, u)
      <3>1. \A i \in DOMAIN batch : i = 1 \/ 1 < i
        BY <2>3
      <3> QED
        BY <1>1, <2>3, <3>1 DEF InBatch, TimerInv, BatchOrder
    <2> QED
      BY <1>1, <2>3, <2>4 DEF TimerInv, BatchOrder
  <1>2. TimerInv /\ [Next]_vars =>
          [\A t \in Timers :
             fired'[t] # fired[t] =>
               /\ deadline[t] <= now
               /\ \A u \in timer_queue \cup InBatch : u = t \/ TokenLess(t, u)]_vars
    BY <1>1
  <1> QED
    BY <1>2, TimerInvariant, PTL DEF Spec, FiresInOrder

-----------------------------------------------------------------------------
(* The wait of the timer thread.                                           *)
InTime == \A t \in timer_queue : wakeAt # Never /\ wakeAt <= deadline[t]
Signals(h) == request[h].op = "register" /\ check[h]

(* A handler that is about to signal stays so until it has.                *)
LEMMA SignalsKept ==
    ASSUME Typed, [Next]_vars, NEW k \in Handlers, Signals(k), ~TriggerTimerCheck(k)
    PROVE  Signals(k)'
  <1>0. HandlerTypes /\ hpc[k] \in {"reply", "trigger"}
    BY DEF Typed, HandlerFits, Signals
  <1>1. ASSUME NEW h \in Handlers, HandlerStep(h), h = k PROVE Signals(k)'
    BY <1>0, <1>1
       DEF HandlerTypes, Signals, HandlerStep, HandleEvent, MakeToken, InsertTimer,
           ReplyRegistered, CancelTimer, ReplyCancelled, ReleaseEvent
  <1>2. ASSUME NEW h \in Handlers, HandlerStep(h), h # k PROVE Signals(k)'
    <2>1. check'[k] = check[k] /\ request'[k] = request[k]
      BY <1>0, <1>2
         DEF HandlerTypes, HandlerStep, HandleEvent, MakeToken, InsertTimer,
             ReplyRegistered, TriggerTimerCheck, CancelTimer, ReplyCancelled,
             ReleaseEvent
    <2> QED
      BY <2>1 DEF Signals
  <1>3. CASE UNCHANGED handVars
    BY <1>3 DEF Signals, handVars
  <1> QED
    BY <1>1, <1>2, <1>3
       DEF Next, TimerThread, vars, handVars, Register, Cancel, Tick,
           CollectDue, FireOne, ExitOrWait, TimeOut, SpuriousTimerWake, Connect,
           DisconnectPrepare, DisconnectWait, DisconnectReturn

(* The timer thread comes to wait, or goes on waiting, with a timeout that *)
(* is early enough for every queued timer but one just inserted first.     *)
LEMMA InTimeNext ==
    ASSUME TimerInv, [Next]_vars, tpc' = "wait", tpc = "wait" => InTime
    PROVE  InTime' \/ \E h \in Handlers : Signals(h)'
  <1>0. /\ deadline \in [Timers -> Nat] /\ timer_queue \subseteq Timers
        /\ \A t \in timer_queue : HasToken(t)
        /\ wakeAt \in 0..MaxTime \cup {Never} /\ MaxTime \in Nat
    BY TimerAssumption DEF TimerInv, Typed, ThreadTypes, ClientTypes, Tokens
  <1>1. ASSUME NEW h \in Handlers, InsertTimer(h) PROVE InTime' \/ Signals(h)'
    <2> DEFINE t == request[h].timer
    <2>1. /\ request[h] = RegReq(t) /\ t \in Timers
          /\ timer_queue' = timer_queue \cup {t} /\ UNCHANGED <<wakeAt, deadline, request>>
          /\ check' = [check EXCEPT ![h] = NeedsCheck(t)] /\ tpc = "wait"
          /\ Inserting(h, t)
      BY <1>1, HeldRequest
         DEF InsertTimer, TimerInv, Typed, HandlerFits, RegReq, Requests,
             threadVars, clientVars, Inserting
    <2>2. CASE NeedsCheck(t)
      <3>1. check'[h]
        BY <2>1, <2>2 DEF TimerInv, Typed, HandlerTypes
      <3> QED
        BY <2>1, <3>1 DEF Signals, RegReq
    <2>3. CASE ~NeedsCheck(t)
      <3>1. PICK u \in timer_queue \ {t} : ~TokenLess(t, u)
        BY <2>3 DEF NeedsCheck, IsFirst
      <3>2. HasToken(t) /\ HasToken(u)
        BY <1>0, <2>1 DEF TimerInv, Tokens
      <3>3. <<t, u>> \in TokenOrder \/ <<u, t>> \in TokenOrder
        BY <1>0, <2>1, <3>2, TokenOrderTotal DEF StrictTotal, TimerInv
      <3>4. TokenLess(u, t)
        BY <3>1, <3>3 DEF TokenOrder
      <3>5. deadline[u] <= deadline[t]
        BY <1>0, <2>1, <3>4 DEF TokenLess
      <3>6. wakeAt # Never /\ wakeAt <= deadline[u] /\ wakeAt \in Nat
        BY <1>0, <2>1, <3>1 DEF InTime
      <3>7. deadline[u] \in Nat /\ deadline[t] \in Nat
        BY <1>0, <2>1
      <3>8. wakeAt <= deadline[t]
        BY <3>5, <3>6, <3>7
      <3> QED
        BY <2>1, <3>6, <3>8 DEF InTime
    <2> QED
      BY <2>2, <2>3
  <1>2. CASE ExitOrWait
    <2>1. wakeAt' = NextDeadline /\ UNCHANGED <<timer_queue, deadline>>
      BY <1>2 DEF ExitOrWait, timerVars, clientVars
    <2>2. Never \notin 0..MaxTime
      BY TimerAssumption
    <2>3. \A t \in timer_queue : NextDeadline # Never /\ NextDeadline <= deadline[t]
      BY <2>2, NextDeadlineIsMin DEF TimerInv
    <2> QED
      BY <2>1, <2>3 DEF InTime
  <1>3. ASSUME NEW t \in Timers, NEW d \in 0..MaxTime, Register(t, d) PROVE InTime'
    <2>1. asked[t] = 0 /\ t \notin timer_queue
      BY <1>3 DEF Register, TimerInv, Lives, Life, Untouched, Out
    <2>2. /\ deadline' = [deadline EXCEPT ![t] = d]
          /\ UNCHANGED <<timer_queue, wakeAt, tpc>>
      BY <1>3 DEF Register, timerVars, threadVars
    <2> QED
      BY <1>0, <2>1, <2>2 DEF InTime
  <1>4. CASE tpc = "wait" /\ timer_queue' \subseteq timer_queue /\ UNCHANGED <<wakeAt, deadline>>
    BY <1>4 DEF InTime
  <1> QED
    BY <1>1, <1>2, <1>3, <1>4
       DEF Next, HandlerStep, TimerThread, vars, timerVars, threadVars, clientVars,
           Cancel, Tick, HandleEvent, MakeToken, ReplyRegistered, CancelTimer,
           TriggerTimerCheck, ReplyCancelled, ReleaseEvent, CollectDue, FireOne,
           TimeOut, SpuriousTimerWake, Connect, DisconnectPrepare, DisconnectWait,
           DisconnectReturn, SignalTimer, ShutdownSignal

LEMMA SleepNext ==
    ASSUME TimerInv, NeverOversleeps, [Next]_vars
    PROVE  NeverOversleeps'
  <1> SUFFICES ASSUME tpc' = "wait" PROVE NeverOversleeps'
    BY DEF NeverOversleeps
  <1>1. ~shutdown'
    <2>1. CASE ExitOrWait
      BY <2>1 DEF ExitOrWait
    <2>2. CASE DisconnectPrepare
      BY <2>2 DEF DisconnectPrepare, ShutdownSignal, SignalTimer
    <2>3. CASE UNCHANGED shutdown /\ tpc = "wait"
      BY <2>3 DEF NeverOversleeps
    <2> QED
      BY <2>1, <2>2, <2>3
         DEF Next, HandlerStep, TimerThread, vars, threadVars, Register, Cancel,
             Tick, HandleEvent, MakeToken, InsertTimer, ReplyRegistered,
             TriggerTimerCheck, SignalTimer, CancelTimer, ReplyCancelled,
             ReleaseEvent, CollectDue, FireOne, TimeOut, SpuriousTimerWake,
             Connect, DisconnectWait, DisconnectReturn
  <1>2. InTime' \/ \E h \in Handlers : Signals(h)'
    <2>1. CASE tpc = "wait" => InTime
      BY <2>1, InTimeNext
    <2>2. ASSUME tpc = "wait", NEW k \in Handlers, Signals(k) PROVE Signals(k)'
      <3>1. ~TriggerTimerCheck(k)
        BY <2>2 DEF TriggerTimerCheck, SignalTimer
      <3> QED
        BY <2>2, <3>1, SignalsKept DEF TimerInv
    <2> QED
      BY <2>1, <2>2 DEF NeverOversleeps, InTime, Signals
  <1> QED
    BY <1>1, <1>2 DEF NeverOversleeps, InTime, Signals

(* While the timer thread waits, its timeout is not later than any         *)
(* registered deadline unless registerTimer's signal is on its way, and a  *)
(* shutdown never finds it asleep: no wake-up of checkTimer is lost.       *)
THEOREM NoOversleeping == Spec => []NeverOversleeps
  <1>1. Init => NeverOversleeps
    BY DEF Init, NeverOversleeps
  <1>2. TimerInv /\ NeverOversleeps /\ [Next]_vars => NeverOversleeps'
    BY SleepNext
  <1> QED
    BY <1>1, <1>2, TimerInvariant, PTL DEF Spec
=============================================================================
