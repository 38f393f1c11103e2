----------------------------- MODULE TimerStage -----------------------------
(***************************************************************************)
(* TimerStage: requests to register and to cancel timers are handled by    *)
(* pool threads, and the timer maintenance thread triggers what is due.    *)
(*                                                                         *)
(* The stage's event queue is StagePromise, which SedaPool implements: a   *)
(* request is taken by a handler thread in arrival order.  An action is    *)
(* one critical section of timer_mutex or one step between two of them.    *)
(***************************************************************************)
EXTENDS Naturals, Sequences, FiniteSets

CONSTANTS
    Timers,      \* one registration each
    Handlers,    \* pool threads that run handleEvent
    MaxTime,     \* bound: the clock stops there
    MaxCancels,  \* bound: cancel requests per timer
    Never        \* the deadline of a wait without timeout

ASSUME TimerAssumption ==
    /\ IsFiniteSet(Timers) /\ MaxTime \in Nat /\ MaxCancels \in Nat
    /\ Never \notin 0..MaxTime

VARIABLES
    now,          \* CLOCK_MONOTONIC
    deadline,     \* TimerRegisterEvent::timer_when
    nonces,       \* the timers in the order their tokens were made
    timer_queue,  \* the registered timers, a map ordered by token
    num_events,   \* TimerStage::num_events
    shutdown,     \* TimerStage::shutdown
    batch,        \* checkTimer's done_events
    tpc,          \* the timer thread
    wakeAt,       \* the timeout of its wait
    hpc,          \* where a handler thread is
    request,      \* the request it handles
    check,        \* its check_timer flag
    asked,        \* client: cancel requests made for a timer
    cancelled,    \* client: timers a TimerCancelEvent reported cancelled
    fired,        \* client: how often a timer's callback event was completed
    registered,   \* client: timers whose cancel token has arrived
    joining,      \* disconnectPrepare is joining the timer thread
    phase, accepted, parked, busy   \* the stage's queue: see StagePromise

timerVars  == <<timer_queue, num_events>>
threadVars == <<batch, tpc, wakeAt>>
handVars   == <<hpc, request, check>>
clientVars == <<deadline, asked, cancelled, fired, registered>>
stageVars  == <<phase, accepted, parked, busy>>
vars == <<now, deadline, nonces, timer_queue, num_events, shutdown, batch, tpc,
          wakeAt, hpc, request, check, asked, cancelled, fired, registered,
          joining, phase, accepted, parked, busy>>

Requests == [op : {"register", "cancel"}, timer : Timers]
NoRequest == [op |-> "none"]
Self == "TimerStage"

Queue == INSTANCE StagePromise WITH Stage <- {Self}, Event <- Requests

-----------------------------------------------------------------------------
NonceOf(t) == CHOOSE i \in DOMAIN nonces : nonces[i] = t

(* TimerToken::operator<.                                                  *)
TokenLess(t, u) ==
    \/ deadline[t] < deadline[u]
    \/ deadline[t] = deadline[u] /\ NonceOf(t) < NonceOf(u)

IsFirst(t, S) == \A u \in S \ {t} : TokenLess(t, u)

(* Threads hold timer_mutex within one action, but for checkTimer while it *)
(* triggers a batch.                                                       *)
MutexFree == tpc # "fire"

TypeOK ==
    /\ now \in 0..MaxTime
    /\ deadline \in [Timers -> 0..MaxTime]
    /\ nonces \in Seq(Timers)
    /\ timer_queue \subseteq Timers
    /\ num_events \in 0..Cardinality(Timers)
    /\ shutdown \in BOOLEAN
    /\ batch \in Seq(Timers)
    /\ tpc \in {"none", "check", "fire", "wait", "exited"}
    /\ wakeAt \in 0..MaxTime \cup {Never}
    /\ hpc \in [Handlers -> {"idle", "handle", "insert", "reply", "trigger",
                             "release"}]
    /\ request \in [Handlers -> Requests \cup {NoRequest}]
    /\ check \in [Handlers -> BOOLEAN]
    /\ asked \in [Timers -> 0..MaxCancels + 1]
    /\ fired \in [Timers -> Nat]
    /\ cancelled \subseteq Timers /\ registered \subseteq Timers
    /\ joining \in BOOLEAN

Init ==
    /\ now = 0
    /\ deadline = [t \in Timers |-> 0]
    /\ nonces = <<>>
    /\ timer_queue = {}
    /\ num_events = 0
    /\ shutdown = FALSE
    /\ batch = <<>>
    /\ tpc = "none"
    /\ wakeAt = Never
    /\ hpc = [h \in Handlers |-> "idle"]
    /\ request = [h \in Handlers |-> NoRequest]
    /\ check = [h \in Handlers |-> FALSE]
    /\ asked = [t \in Timers |-> 0]
    /\ cancelled = {}
    /\ fired = [t \in Timers |-> 0]
    /\ registered = {}
    /\ joining = FALSE
    /\ Queue!Init

-----------------------------------------------------------------------------
(* Clients.  The stage's listMutex is held while disconnectPrepare joins   *)
(* the timer thread: nobody can add, take or release an event until then.  *)

(* A client makes a TimerRegisterEvent for time d, relative or absolute    *)
(* (then possibly in the past), and adds it to the stage.                  *)
Register(t, d) ==
    /\ ~joining
    /\ asked[t] = 0
    /\ asked' = [asked EXCEPT ![t] = 1]
    /\ deadline' = [deadline EXCEPT ![t] = d]
    /\ Queue!Add(Self, [op |-> "register", timer |-> t])
    /\ UNCHANGED <<now, nonces, timerVars, shutdown, threadVars, handVars,
                   cancelled, fired, registered, joining>>

(* A client that has the cancel token asks to cancel, perhaps repeatedly.  *)
Cancel(t) ==
    /\ ~joining
    /\ t \in registered
    /\ asked[t] <= MaxCancels
    /\ asked' = [asked EXCEPT ![t] = @ + 1]
    /\ Queue!Add(Self, [op |-> "cancel", timer |-> t])
    /\ UNCHANGED <<now, deadline, nonces, timerVars, shutdown, threadVars,
                   handVars, cancelled, fired, registered, joining>>

Tick ==
    /\ now < MaxTime
    /\ now' = now + 1
    /\ UNCHANGED <<nonces, timerVars, shutdown, threadVars, handVars,
                   clientVars, joining, stageVars>>

-----------------------------------------------------------------------------
(* Handler threads.                                                        *)
HandleEvent(h) ==
    /\ ~joining
    /\ hpc[h] = "idle"
    /\ Queue!Take(Self)
    /\ request' = [request EXCEPT ![h] = Head(accepted[Self])]
    /\ hpc' = [hpc EXCEPT ![h] = "handle"]
    /\ UNCHANGED <<now, nonces, timerVars, shutdown, threadVars, check,
                   clientVars, joining>>

(* registerTimer: the token is made before timer_mutex is taken.           *)
MakeToken(h) ==
    /\ hpc[h] = "handle" /\ request[h].op = "register"
    /\ nonces' = Append(nonces, request[h].timer)
    /\ hpc' = [hpc EXCEPT ![h] = "insert"]
    /\ UNCHANGED <<now, timerVars, shutdown, threadVars, request, check,
                   clientVars, joining, stageVars>>

(* A registration at the head of the queue asks for a timer check.  (Here  *)
(* and below, the forms that come before a definition are mutations of it, *)
(* used to see that the properties depend on it.)                          *)
NeedsCheckNever(t) == FALSE
NeedsCheckOnce(t)  == timer_queue = {}
NeedsCheck(t)      == IsFirst(t, timer_queue)

InsertTimer(h) ==
    LET t == request[h].timer IN
    /\ hpc[h] = "insert" /\ MutexFree
    /\ timer_queue' = timer_queue \cup {t}
    /\ num_events' = num_events + 1
    /\ check' = [check EXCEPT ![h] = NeedsCheck(t)]
    /\ hpc' = [hpc EXCEPT ![h] = "reply"]
    /\ UNCHANGED <<now, nonces, shutdown, threadVars, request, clientVars,
                   joining, stageVars>>

(* setCancelToken and reg_ev.done(), after timer_mutex is released: the    *)
(* timer may fire before the client has the token.                         *)
ReplyRegistered(h) ==
    /\ hpc[h] = "reply" /\ request[h].op = "register"
    /\ registered' = registered \cup {request[h].timer}
    /\ hpc' = [hpc EXCEPT ![h] = IF check[h] THEN "trigger" ELSE "release"]
    /\ UNCHANGED <<now, nonces, timerVars, shutdown, threadVars, request, check,
                   deadline, asked, cancelled, fired, joining, stageVars>>

(* pthread_cond_signal(&timer_condv).                                      *)
SignalTimer == tpc' = IF tpc = "wait" THEN "check" ELSE tpc

TriggerTimerCheck(h) ==
    /\ hpc[h] = "trigger" /\ MutexFree
    /\ SignalTimer
    /\ check' = [check EXCEPT ![h] = FALSE]
    /\ hpc' = [hpc EXCEPT ![h] = "release"]
    /\ UNCHANGED <<now, nonces, timerVars, shutdown, batch, wakeAt, request,
                   clientVars, joining, stageVars>>

(* cancelTimer finds the token in the queue or not; the outcome is kept    *)
(* in the check flag until the reply.                                      *)
CancelFoundMissed(t) == t \in registered
CancelFound(t)       == t \in timer_queue
NumAfterCancelAlways(t) == num_events - 1
NumAfterCancel(t)       ==
    IF t \in timer_queue THEN num_events - 1 ELSE num_events

CancelTimer(h) ==
    LET t == request[h].timer IN
    /\ hpc[h] = "handle" /\ request[h].op = "cancel" /\ MutexFree
    /\ check' = [check EXCEPT ![h] = CancelFound(t)]
    /\ timer_queue' = timer_queue \ {t}
    /\ num_events' = NumAfterCancel(t)
    /\ hpc' = [hpc EXCEPT ![h] = "reply"]
    /\ UNCHANGED <<now, nonces, shutdown, threadVars, request, clientVars,
                   joining, stageVars>>

ReplyCancelled(h) ==
    /\ hpc[h] = "reply" /\ request[h].op = "cancel"
    /\ cancelled' = IF check[h] THEN cancelled \cup {request[h].timer}
                                ELSE cancelled
    /\ check' = [check EXCEPT ![h] = FALSE]
    /\ hpc' = [hpc EXCEPT ![h] = "release"]
    /\ UNCHANGED <<now, nonces, timerVars, shutdown, threadVars, request,
                   deadline, asked, fired, registered, joining, stageVars>>

ReleaseEvent(h) ==
    /\ ~joining
    /\ hpc[h] = "release"
    /\ Queue!Finish(Self)
    /\ hpc' = [hpc EXCEPT ![h] = "idle"]
    /\ request' = [request EXCEPT ![h] = NoRequest]
    /\ UNCHANGED <<now, nonces, timerVars, shutdown, threadVars, check,
                   clientVars, joining>>

-----------------------------------------------------------------------------
(* The timer thread, TimerStage::checkTimer.                               *)

(* Timers whose time has come: those up to the first in the queue with     *)
(* now < time.                                                             *)
Due == {t \in timer_queue : deadline[t] <= now}

InTokenOrderNot(S) ==
    CHOOSE q \in [1..Cardinality(S) -> S] :
        \A i, j \in DOMAIN q : i < j => TokenLess(q[j], q[i])
InTokenOrder(S) ==
    CHOOSE q \in [1..Cardinality(S) -> S] :
        \A i, j \in DOMAIN q : i < j => TokenLess(q[i], q[j])

(* The due timers leave the queue; their events are completed one by one   *)
(* with timer_mutex held.                                                  *)
CollectDue ==
    /\ tpc = "check"
    /\ tpc' = "fire"
    /\ batch' = InTokenOrder(Due)
    /\ timer_queue' = timer_queue \ Due
    /\ UNCHANGED <<now, nonces, num_events, shutdown, wakeAt, handVars,
                   clientVars, joining, stageVars>>

FireOne ==
    /\ tpc = "fire"
    /\ batch # <<>>
    /\ fired' = [fired EXCEPT ![Head(batch)] = @ + 1]
    /\ num_events' = num_events - 1
    /\ batch' = Tail(batch)
    /\ UNCHANGED <<now, nonces, timer_queue, shutdown, tpc, wakeAt, handVars,
                   deadline, asked, cancelled, registered, joining, stageVars>>

(* The deadline of the first timer in the queue.                           *)
NextDeadline ==
    IF timer_queue = {} THEN Never
    ELSE deadline[CHOOSE t \in timer_queue : IsFirst(t, timer_queue)]

(* The batch is done: the thread ends if the stage is shutting down, and   *)
(* otherwise waits for the next deadline or a signal.                      *)
ExitOrWait ==
    /\ tpc = "fire"
    /\ batch = <<>>
    /\ IF shutdown
         THEN tpc' = "exited" /\ UNCHANGED wakeAt
         ELSE tpc' = "wait" /\ wakeAt' = NextDeadline
    /\ UNCHANGED <<now, nonces, timerVars, shutdown, batch, handVars,
                   clientVars, joining, stageVars>>

(* pthread_cond_timedwait ends at its deadline, or spuriously.             *)
TimeOut ==
    /\ tpc = "wait"
    /\ wakeAt # Never /\ wakeAt <= now
    /\ tpc' = "check"
    /\ UNCHANGED <<now, nonces, timerVars, shutdown, batch, wakeAt, handVars,
                   clientVars, joining, stageVars>>

SpuriousTimerWake ==
    /\ tpc = "wait"
    /\ tpc' = "check"
    /\ UNCHANGED <<now, nonces, timerVars, shutdown, batch, wakeAt, handVars,
                   clientVars, joining, stageVars>>

-----------------------------------------------------------------------------
(* Stage::connect with TimerStage::initialize, which starts the thread.    *)
Connect ==
    /\ Queue!Open(Self)
    /\ tpc' = "check"
    /\ UNCHANGED <<now, nonces, timerVars, shutdown, batch, wakeAt, handVars,
                   clientVars, joining>>

(* Stage::disconnect up to pthread_join in disconnectPrepare; listMutex is *)
(* held until the join returns.                                            *)
ShutdownSignalLost == UNCHANGED tpc
ShutdownSignal     == SignalTimer

DisconnectPrepare ==
    /\ phase[Self] = "open" /\ ~joining
    /\ MutexFree
    /\ shutdown' = TRUE
    /\ ShutdownSignal
    /\ joining' = TRUE
    /\ UNCHANGED <<now, nonces, timerVars, batch, wakeAt, handVars, clientVars,
                   stageVars>>

DisconnectWait ==
    /\ joining
    /\ tpc = "exited"
    /\ joining' = FALSE
    /\ Queue!Close(Self)
    /\ UNCHANGED <<now, nonces, timerVars, shutdown, threadVars, handVars,
                   clientVars>>

DisconnectReturn ==
    /\ phase[Self] = "closing"
    /\ Queue!Closed(Self)
    /\ UNCHANGED <<now, nonces, timerVars, shutdown, threadVars, handVars,
                   clientVars, joining>>

-----------------------------------------------------------------------------
HandlerStep(h) ==
    \/ HandleEvent(h) \/ MakeToken(h) \/ InsertTimer(h) \/ ReplyRegistered(h)
    \/ TriggerTimerCheck(h) \/ CancelTimer(h) \/ ReplyCancelled(h)
    \/ ReleaseEvent(h)

TimerThread == CollectDue \/ FireOne \/ ExitOrWait \/ TimeOut

Next ==
    \/ \E t \in Timers, d \in 0..MaxTime : Register(t, d)
    \/ \E t \in Timers : Cancel(t)
    \/ Tick
    \/ \E h \in Handlers : HandlerStep(h)
    \/ TimerThread \/ SpuriousTimerWake
    \/ Connect \/ DisconnectPrepare \/ DisconnectWait \/ DisconnectReturn

Spec == Init /\ [][Next]_vars

(* The clock runs, runnable threads go on (SF where timer_mutex, listMutex *)
(* or another handler can come first), and a disconnect that has begun is  *)
(* not abandoned.  Clients need not ask, connect or disconnect.            *)
Fairness ==
    /\ WF_vars(Tick)
    /\ WF_vars(TimerThread)
    /\ \A h \in Handlers : SF_vars(HandlerStep(h))
    /\ WF_vars(DisconnectWait) /\ WF_vars(DisconnectReturn)

FairSpec == Spec /\ Fairness

-----------------------------------------------------------------------------
InBatch == {batch[i] : i \in DOMAIN batch}

(* TimerCancelEvent (timerstage.h): once the stage reports that an event   *)
(* is cancelled, it will not trigger the associated callback event,        *)
(* whichever of handler and timer thread comes first; nor fire one twice.  *)
CancelIsFinal ==
    \A t \in Timers :
        /\ fired[t] <= 1
        /\ t \in cancelled => fired[t] = 0 /\ t \notin timer_queue \cup InBatch

(* getNumEvents: num_events is what is registered and not yet triggered or *)
(* cancelled, also while checkTimer is half way through its batch.         *)
(* The types are checked along.                                            *)
NumEventsExact ==
    /\ TypeOK
    /\ num_events = Cardinality(timer_queue) + Len(batch)

(* A callback is never triggered before its time, and timers that are due  *)
(* together are triggered in token order: no registered timer is passed    *)
(* over by a later one.                                                    *)
FiresInOrder ==
    [][\A t \in Timers :
         fired'[t] # fired[t] =>
            /\ deadline[t] <= now
            /\ \A u \in timer_queue \cup InBatch : u = t \/ TokenLess(t, u)]_vars

(* The timer thread never oversleeps: while it waits, its timeout is not   *)
(* later than any registered deadline unless a handler is about to signal  *)
(* it, and it cannot be asleep with a shutdown pending.                    *)
NeverOversleeps ==
    tpc = "wait" =>
        /\ ~shutdown
        /\ \/ \A t \in timer_queue : wakeAt # Never /\ wakeAt <= deadline[t]
           \/ \E h \in Handlers : request[h].op = "register" /\ check[h]

(* A registered timer fires or is cancelled, unless the stage is shut down.*)
(* Then Stage::disconnect returns: the timer thread hears of the shutdown  *)
(* and ends, though handlers and clients wait for listMutex meanwhile.     *)
TimerFires ==
    /\ \A t \in Timers :
         (t \in timer_queue /\ ~shutdown)
             ~> (t \notin timer_queue \cup InBatch \/ shutdown)
    /\ joining ~> phase[Self] = "closed"
=============================================================================
