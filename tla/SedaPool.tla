------------------------------ MODULE SedaPool ------------------------------
(***************************************************************************)
(* The scheduling core of the SEDA framework: Stage, StageEvent with its   *)
(* CompletionCallback stack, Threadpool and KillThreadStage, for one pool. *)
(*                                                                         *)
(* A stage owns a FIFO of events and asks the pool to be scheduled once    *)
(* per event; a pool thread takes the stage at the head of the run queue,  *)
(* removes that stage's first event and handles it.  An action is one      *)
(* critical section (of runMutex, of one stage's listMutex, or of          *)
(* threadMutex) or one stretch of a handler between two of them.           *)
(*                                                                         *)
(* Threads: Workers belong to the pool; Producers are any other threads    *)
(* that call addEvent (network threads, timer thread, threads of another   *)
(* pool); Controllers connect and disconnect stages (SedaConfig); Reapers  *)
(* resize the pool with addThreads and killThreads.                        *)
(***************************************************************************)
EXTENDS Integers, Sequences, FiniteSets

CONSTANTS
    Stages,              \* the stages connected to this pool
    Events,              \* StageEvent objects the program may allocate
    Workers,             \* identities for pool threads
    Producers,           \* threads outside the pool that call addEvent
    Controllers,         \* threads that call connect and disconnect
    Reapers,             \* threads that call addThreads and killThreads
    InitThreads,         \* the workers the constructor starts
    KillSizes,           \* arguments killThreads is called with
    MaxCallbacks,        \* bound: depth of a callback stack
    SpuriousThreadCond,  \* may threadCond be woken without a signal?
    Killer,              \* the pool's KillThreadStage
    KillEvent,           \* a kill event (they are interchangeable)
    Nil                  \* the null pointer

Procs     == Workers \cup Producers \cup Controllers \cup Reapers
AllStages == Stages \cup {Killer}

ASSUME ThreadsAssumption ==
    /\ IsFiniteSet(Procs)
    /\ InitThreads \subseteq Workers
    /\ Workers \cap (Producers \cup Controllers \cup Reapers) = {}
    /\ Producers \cap (Controllers \cup Reapers) = {}
    /\ Controllers \cap Reapers = {}
    /\ Nil \notin Procs \cup AllStages \cup Events \cup {KillEvent}

ASSUME DataAssumption ==
    /\ Killer \notin Stages
    /\ KillEvent \notin Events
    /\ KillSizes \subseteq Nat
    /\ MaxCallbacks \in Nat
    /\ SpuriousThreadCond \in BOOLEAN

VARIABLES
    eventList,      \* Stage::eventList, the FIFO of each stage
    connected,      \* Stage::connected
    eventRef,       \* Stage::eventRef, outstanding events of each stage
    compCB,         \* StageEvent::compCB: stages to call back, top first
    cbFlag,         \* StageEvent::cbFlag: is the event a callback in transit?
    fresh,          \* event objects that are not allocated
    runQueue,       \* Threadpool::runQueue
    nIdles,         \* Threadpool::nIdles
    nthreads,       \* Threadpool::nthreads
    threadsToKill,  \* Threadpool::threadsToKill
    threadMutex,    \* holder of Threadpool::threadMutex across actions
    killAsked,      \* killThreads: victims of the current transaction
    killLeft,       \* genKillThreadEvents: kill events still to generate
    pc,             \* where each thread is
    runStage,       \* runThread's runStage
    event,          \* runThread's event while the handler owns it
    target,         \* the stage a thread is scheduling or disconnecting
    owed            \* schedule() calls a thread still owes its target

stageVars == <<eventList, connected, eventRef>>
eventVars == <<compCB, cbFlag, fresh>>
runVars   == <<runQueue, nIdles>>
killVars  == <<nthreads, threadsToKill, threadMutex, killAsked, killLeft>>
handVars  == <<runStage, event>>
callVars  == <<target, owed>>
vars == <<eventList, connected, eventRef, compCB, cbFlag, fresh, runQueue,
          nIdles, nthreads, threadsToKill, threadMutex, killAsked, killLeft,
          pc, runStage, event, target, owed>>

-----------------------------------------------------------------------------
WorkerPCs == {"none", "loop", "wait", "woken", "popped", "handle", "sched",
              "release", "kill", "killrel"}
ClientPCs == {"idle", "sched", "gen", "killwait", "killwoken", "discwait",
              "discwoken", "abort"}

(* Threads blocked on runCond that no signal has reached yet.              *)
Waiting == {w \in Workers : pc[w] = "wait"}

(* Threads inside COND_WAIT on runCond, signalled or not.                  *)
Idle == {w \in Workers : pc[w] \in {"wait", "woken"}}

(* Schedule calls owed to s, one element per call.                         *)
Owing(s) == UNION {{p} \X (1..owed[p]) : p \in {q \in Procs : target[q] = s}}

(* Places of s in the run queue.                                           *)
QueuedRuns(s) == {i \in DOMAIN runQueue : runQueue[i] = s}

(* Threads that took s off the run queue but not yet its event, and all    *)
(* threads working for s.                                                  *)
Popped(s)  == {w \in Workers : pc[w] = "popped" /\ runStage[w] = s}
Serving(s) == {w \in Workers : runStage[w] = s}

(* The counters are unsigned in the code: that none of them goes below 0   *)
(* follows from the invariants that say what each of them counts.          *)
StageTypes ==
    /\ eventList \in [AllStages -> Seq(Events \cup {KillEvent})]
    /\ \A s \in Stages : eventList[s] \in Seq(Events)
    /\ connected \in [AllStages -> BOOLEAN]
    /\ eventRef \in [AllStages -> Int]
    /\ compCB \in [Events -> Seq(Stages)]
    /\ cbFlag \in [Events -> BOOLEAN]
    /\ \A e \in Events : cbFlag[e] => compCB[e] # <<>>
    /\ fresh \subseteq Events

PoolTypes ==
    /\ runQueue \in Seq(AllStages)
    /\ nIdles \in Int /\ nthreads \in Int
    /\ threadsToKill \in Int /\ killAsked \in Int /\ killLeft \in Int
    /\ threadMutex \in Reapers \cup {Nil}

(* The stage s and event e that a worker holds fit the place it is at.     *)
Fits(at, s, e) ==
    /\ at \in WorkerPCs
    /\ at \in {"none", "loop", "wait", "woken"} => s = Nil
    /\ at = "popped" => s \in AllStages
    /\ at \in {"handle", "sched", "release"} => s \in Stages
    /\ at = "handle" => e \in Events
    /\ at = "sched" => e \in Events \cup {Nil}
    /\ at \in {"kill", "killrel"} => s = Killer

ThreadTypes ==
    /\ pc \in [Procs -> WorkerPCs \cup ClientPCs]
    /\ runStage \in [Workers -> AllStages \cup {Nil}]
    /\ event \in [Workers -> Events \cup {KillEvent, Nil}]
    /\ target \in [Procs -> AllStages \cup {Nil}]
    /\ owed \in [Procs -> Int]
    /\ \A w \in Workers : Fits(pc[w], runStage[w], event[w])
    /\ \A p \in Procs \ Workers : pc[p] \in ClientPCs
    /\ \A p \in Procs :
         pc[p] \in {"sched", "discwait", "discwoken"} => target[p] \in AllStages

(* The type invariant.                                                     *)
TypeOK == StageTypes /\ PoolTypes /\ ThreadTypes

Init ==
    /\ eventList = [s \in AllStages |-> <<>>]
    /\ connected = [s \in AllStages |-> FALSE]
    /\ eventRef = [s \in AllStages |-> 0]
    /\ compCB = [e \in Events |-> <<>>]
    /\ cbFlag = [e \in Events |-> FALSE]
    /\ fresh = Events
    /\ runQueue = <<>>
    /\ nIdles = 0
    /\ nthreads = Cardinality(InitThreads)
    /\ threadsToKill = 0
    /\ threadMutex = Nil
    /\ killAsked = 0
    /\ killLeft = 0
    /\ pc = [p \in Procs |-> IF p \in InitThreads THEN "loop"
                             ELSE IF p \in Workers THEN "none" ELSE "idle"]
    /\ runStage = [w \in Workers |-> Nil]
    /\ event = [w \in Workers |-> Nil]
    /\ target = [p \in Procs |-> Nil]
    /\ owed = [p \in Procs |-> 0]

-----------------------------------------------------------------------------
(* Stage::addEvent up to the unlock of listMutex, by thread p, which goes  *)
(* on at `next`: a connected stage still has to be scheduled.              *)
AddEvent(p, s, e, next) ==
    /\ eventList' = [eventList EXCEPT ![s] = Append(@, e)]
    /\ IF connected[s]
         THEN /\ eventRef' = [eventRef EXCEPT ![s] = @ + 1]
              /\ target' = [target EXCEPT ![p] = s]
              /\ owed' = [owed EXCEPT ![p] = 1]
              /\ pc' = [pc EXCEPT ![p] = "sched"]
         ELSE /\ pc' = [pc EXCEPT ![p] = next]
              /\ UNCHANGED <<eventRef, target, owed>>
    /\ UNCHANGED connected

(* Where a thread continues when its schedule calls are made (the first    *)
(* form, mutated, lets a worker return as if it were a client).            *)
AfterScheduleClient(p) == IF p \in Reapers THEN "gen" ELSE "idle"
AfterSchedule(p) ==
    IF p \in Workers THEN IF event[p] = Nil THEN "release" ELSE "handle"
    ELSE IF p \in Reapers THEN "gen" ELSE "idle"

(* COND_SIGNAL(&runCond) by p, which moves on to `next`: one of the        *)
(* threads blocked on the condition, if there is any, becomes runnable.    *)
SignalRunCond(p, next) ==
    IF Waiting = {}
      THEN pc' = [pc EXCEPT ![p] = next]
      ELSE \E w \in Waiting : pc' = [pc EXCEPT ![p] = next, ![w] = "woken"]

(* No signal when the caller is a thread of this pool and the queue was    *)
(* empty, since that thread will come back for it.  (Here and below, the   *)
(* forms that come before a definition are mutations of it, used to see    *)
(* that the properties depend on it.)                                      *)
SignalsAlwaysQuiet(p) == runQueue # <<>> /\ nIdles > 0
SignalsFirstOnly(p)   == runQueue = <<>> /\ p \notin Workers /\ nIdles > 0
Signals(p)            == (runQueue # <<>> \/ p \notin Workers) /\ nIdles > 0

(* Threadpool::schedule.                                                   *)
Schedule(p) ==
    /\ pc[p] = "sched"
    /\ runQueue' = Append(runQueue, target[p])
    /\ owed' = [owed EXCEPT ![p] = @ - 1]
    /\ LET next == IF owed[p] = 1 THEN AfterSchedule(p) ELSE "sched"
       IN  IF Signals(p)
             THEN SignalRunCond(p, next)
             ELSE pc' = [pc EXCEPT ![p] = next]
    /\ UNCHANGED <<stageVars, eventVars, nIdles, killVars, handVars, target>>

-----------------------------------------------------------------------------
(* nIdles is incremented before COND_WAIT and decremented after it.        *)
IdlesAtSleepAgain(w) == nIdles + 1
IdlesAtSleep(w)      == IF pc[w] = "loop" THEN nIdles + 1 ELSE nIdles
IdlesAtPop(w)        == IF pc[w] = "woken" THEN nIdles - 1 ELSE nIdles

(* Threadpool::runThread.  A thread that finds the run queue empty sleeps, *)
(* also when it was woken but another thread was faster.                   *)
Sleep(w) ==
    /\ pc[w] \in {"loop", "woken"}
    /\ runQueue = <<>>
    /\ nIdles' = IdlesAtSleep(w)
    /\ pc' = [pc EXCEPT ![w] = "wait"]
    /\ UNCHANGED <<stageVars, eventVars, runQueue, killVars, handVars, callVars>>

(* pthread_cond_wait may return without a signal.                          *)
SpuriousRunWake(w) ==
    /\ pc[w] = "wait"
    /\ pc' = [pc EXCEPT ![w] = "woken"]
    /\ UNCHANGED <<stageVars, eventVars, runVars, killVars, handVars, callVars>>

PopStage(w) ==
    /\ pc[w] \in {"loop", "woken"}
    /\ runQueue # <<>>
    /\ runStage' = [runStage EXCEPT ![w] = Head(runQueue)]
    /\ runQueue' = Tail(runQueue)
    /\ nIdles' = IdlesAtPop(w)
    /\ pc' = [pc EXCEPT ![w] = "popped"]
    /\ UNCHANGED <<stageVars, eventVars, killVars, event, callVars>>

(* StageEvent::clearCallback.                                              *)
ClearCallbackNot(e) == cbFlag
ClearCallback(e)    == [cbFlag EXCEPT ![e] = FALSE]

(* Stage::removeEvent, and the dispatch on isCallback(): a callback in     *)
(* transit is unmarked and popped (doneImmediate) before callbackEvent.    *)
RemoveEvent(w) ==
    LET s == runStage[w]
        e == Head(eventList[s])
    IN  /\ pc[w] = "popped"
        /\ eventList[s] # <<>>
        /\ eventList' = [eventList EXCEPT ![s] = Tail(@)]
        /\ event' = [event EXCEPT ![w] = e]
        /\ IF s = Killer
             THEN /\ pc' = [pc EXCEPT ![w] = "kill"]
                  /\ UNCHANGED <<compCB, cbFlag>>
             ELSE /\ pc' = [pc EXCEPT ![w] = "handle"]
                  /\ compCB' = IF cbFlag[e]
                                 THEN [compCB EXCEPT ![e] = Tail(@)] ELSE compCB
                  /\ cbFlag' = ClearCallback(e)
        /\ UNCHANGED <<connected, eventRef, fresh, runVars, killVars, runStage,
                       callVars>>

(* The test of releaseEvent, on eventRef as it is before the decrement.    *)
LastReleaseLate(s) == ~connected[s] /\ eventRef[s] = 0
LastRelease(s)     == ~connected[s] /\ eventRef[s] = 1

(* Stage::releaseEvent, after the handler returned.                        *)
ReleaseRef(w, next) ==
    LET s == runStage[w]
        sleepers == {p \in Procs : pc[p] = "discwait" /\ target[p] = s}
    IN  /\ eventRef' = [eventRef EXCEPT ![s] = @ - 1]
        /\ IF LastRelease(s) /\ sleepers # {}
             THEN \E p \in sleepers :
                    pc' = [pc EXCEPT ![w] = next, ![p] = "discwoken"]
             ELSE pc' = [pc EXCEPT ![w] = next]
        /\ runStage' = [runStage EXCEPT ![w] = Nil]

ReleaseEvent(w) ==
    /\ pc[w] = "release"
    /\ ReleaseRef(w, "loop")
    /\ UNCHANGED <<eventList, connected, eventVars, runVars, killVars, event,
                   callVars>>

-----------------------------------------------------------------------------
(* What handleEvent and callbackEvent of a stage may do with the event     *)
(* they own: pass it on, complete it, or create another event first.       *)

(* Pushing a completion callback of stage s on event e, or not.            *)
MayPushCallback(e, s) ==
    \/ UNCHANGED compCB
    \/ /\ Len(compCB[e]) < MaxCallbacks
       /\ compCB' = [compCB EXCEPT ![e] = <<s>> \o @]

Forward(w, s) ==
    /\ pc[w] = "handle"
    /\ MayPushCallback(event[w], runStage[w])
    /\ AddEvent(w, s, event[w], "release")
    /\ event' = [event EXCEPT ![w] = Nil]
    /\ UNCHANGED <<cbFlag, fresh, runVars, killVars, runStage>>

(* StageEvent::done with a callback pending: the event is marked and sent  *)
(* back to the stage on top of its stack (eventReschedule).                *)
DoneReschedule(w) ==
    LET e == event[w] IN
    /\ pc[w] = "handle"
    /\ compCB[e] # <<>>
    /\ cbFlag' = [cbFlag EXCEPT ![e] = TRUE]
    /\ AddEvent(w, Head(compCB[e]), e, "release")
    /\ event' = [event EXCEPT ![w] = Nil]
    /\ UNCHANGED <<compCB, fresh, runVars, killVars, runStage>>

(* StageEvent::done without a callback: the event is deleted.              *)
DoneDelete(w) ==
    /\ pc[w] = "handle"
    /\ compCB[event[w]] = <<>>
    /\ fresh' = fresh \cup {event[w]}
    /\ event' = [event EXCEPT ![w] = Nil]
    /\ pc' = [pc EXCEPT ![w] = "release"]
    /\ UNCHANGED <<stageVars, compCB, cbFlag, runVars, killVars, runStage,
                   callVars>>

(* The handler creates event e, possibly with a callback to its own stage, *)
(* and adds it to s; it goes on with its own event afterwards.             *)
Spawn(w, e, s) ==
    /\ pc[w] = "handle"
    /\ e \in fresh
    /\ fresh' = fresh \ {e}
    /\ MayPushCallback(e, runStage[w])
    /\ AddEvent(w, s, e, "handle")
    /\ UNCHANGED <<cbFlag, runVars, killVars, handVars>>

(* A thread outside the pool creates e, possibly with a callback to some   *)
(* stage b, and adds it to s (Conn::eventDone, Stage tests, timers).       *)
Produce(p, e, s) ==
    /\ pc[p] = "idle"
    /\ e \in fresh
    /\ fresh' = fresh \ {e}
    /\ \E b \in Stages : MayPushCallback(e, b)
    /\ AddEvent(p, s, e, "idle")
    /\ UNCHANGED <<cbFlag, runVars, killVars, handVars>>

-----------------------------------------------------------------------------
(* What connect counts as outstanding, and what it schedules.              *)
RefAtConnectKept(s)   == eventRef[s]
RefAtConnect(s)       == Len(eventList[s])
RunsAtConnectNone(s)  == 0
RunsAtConnect(s)      == Len(eventList[s])

(* Stage::connect, called with the stage disconnected (its precondition).  *)
(* Events that arrived meanwhile are scheduled once the lock is released.  *)
Connect(c, s) ==
    /\ pc[c] = "idle"
    /\ ~connected[s]
    /\ ~\E d \in Controllers : pc[d] # "idle" /\ target[d] = s
    /\ connected' = [connected EXCEPT ![s] = TRUE]
    /\ eventRef' = [eventRef EXCEPT ![s] = RefAtConnect(s)]
    /\ target' = [target EXCEPT ![c] = s]
    /\ owed' = [owed EXCEPT ![c] = RunsAtConnect(s)]
    /\ pc' = [pc EXCEPT ![c] = IF RunsAtConnect(s) = 0 THEN "idle" ELSE "sched"]
    /\ UNCHANGED <<eventList, eventVars, runVars, killVars, handVars>>

(* The condition of the wait loop of Stage::disconnect.                    *)
OutstandingIgnored(s) == FALSE
Outstanding(s)        == eventRef[s] > 0

(* Stage::disconnect, called with the stage connected (its precondition).  *)
Disconnect(c, s) ==
    /\ pc[c] = "idle"
    /\ connected[s]
    /\ ~\E d \in Controllers : pc[d] # "idle" /\ target[d] = s
    /\ connected' = [connected EXCEPT ![s] = FALSE]
    /\ target' = [target EXCEPT ![c] = s]
    /\ pc' = [pc EXCEPT ![c] = IF Outstanding(s) THEN "discwait" ELSE "idle"]
    /\ UNCHANGED <<eventList, eventRef, eventVars, runVars, killVars, handVars,
                   owed>>

SpuriousDiscWake(p) ==
    /\ pc[p] = "discwait"
    /\ pc' = [pc EXCEPT ![p] = "discwoken"]
    /\ UNCHANGED <<stageVars, eventVars, runVars, killVars, handVars, callVars>>

(* The wait loop of Stage::disconnect is left when no event is outstanding;*)
(* for the killer stage killThreads then returns and unlocks threadMutex.  *)
DisconnectResume(p) ==
    /\ pc[p] = "discwoken"
    /\ IF Outstanding(target[p])
         THEN pc' = [pc EXCEPT ![p] = "discwait"] /\ UNCHANGED threadMutex
         ELSE /\ pc' = [pc EXCEPT ![p] = "idle"]
              /\ threadMutex' = IF p \in Reapers THEN Nil ELSE threadMutex
    /\ UNCHANGED <<stageVars, eventVars, runVars, nthreads, threadsToKill,
                   killAsked, killLeft, handVars, callVars>>

-----------------------------------------------------------------------------
ThreadsWithAssigned(W) == Cardinality(W)
ThreadsWith(W)         == nthreads + Cardinality(W)

(* Threadpool::addThreads; pthread_create may fail for some of them.       *)
AddThreads(r, W) ==
    /\ pc[r] = "idle"
    /\ threadMutex = Nil
    /\ W # {} /\ \A w \in W : pc[w] = "none"
    /\ nthreads' = ThreadsWith(W)
    /\ pc' = [p \in Procs |-> IF p \in W THEN "loop" ELSE pc[p]]
    /\ UNCHANGED <<stageVars, eventVars, runVars, threadsToKill, threadMutex,
                   killAsked, killLeft, handVars, callVars>>

(* killThreads never kills more threads than the pool has.                 *)
ClampNot(n) == n
Clamp(n)    == IF n > nthreads THEN nthreads ELSE n

(* Threadpool::killThreads(n) up to genKillThreadEvents.  A call that      *)
(* finds threadsToKill > 0 returns 0 and changes nothing.                  *)
BeginKill(r, n) ==
    /\ pc[r] = "idle"
    /\ threadMutex = Nil
    /\ threadsToKill = 0
    /\ ~connected[Killer]
    /\ threadMutex' = r
    /\ killAsked' = Clamp(n)
    /\ killLeft' = killAsked'
    /\ connected' = [connected EXCEPT ![Killer] = TRUE]
    /\ eventRef' = [eventRef EXCEPT ![Killer] = Len(eventList[Killer])]
    /\ pc' = [pc EXCEPT ![r] = "gen"]
    /\ UNCHANGED <<eventList, eventVars, runVars, nthreads, threadsToKill,
                   handVars, callVars>>

(* The same call while the previous transaction has not disconnected the   *)
(* killer stage: the assertions of setPool and connect abort the process.  *)
AbortKill(r) ==
    /\ pc[r] = "idle"
    /\ threadMutex = Nil
    /\ threadsToKill = 0
    /\ connected[Killer]
    /\ pc' = [pc EXCEPT ![r] = "abort"]
    /\ UNCHANGED <<stageVars, eventVars, runVars, killVars, handVars, callVars>>

(* Threadpool::genKillThreadEvents, one iteration.                         *)
GenKillEvent(r) ==
    /\ pc[r] = "gen"
    /\ killLeft > 0
    /\ killLeft' = killLeft - 1
    /\ AddEvent(r, Killer, KillEvent, "gen")
    /\ UNCHANGED <<eventVars, runVars, nthreads, threadsToKill, threadMutex,
                   killAsked, handVars>>

(* killThreads sets the counter and waits, which releases threadMutex.     *)
AwaitKills(r) ==
    /\ pc[r] = "gen"
    /\ killLeft = 0
    /\ threadsToKill' = killAsked
    /\ threadMutex' = Nil
    /\ pc' = [pc EXCEPT ![r] = "killwait"]
    /\ UNCHANGED <<stageVars, eventVars, runVars, nthreads, killAsked, killLeft,
                   handVars, callVars>>

SpuriousKillWake(r) ==
    /\ SpuriousThreadCond
    /\ pc[r] = "killwait"
    /\ pc' = [pc EXCEPT ![r] = "killwoken"]
    /\ UNCHANGED <<stageVars, eventVars, runVars, killVars, handVars, callVars>>

(* killThreads has threadMutex again and disconnects the killer stage,     *)
(* keeping threadMutex while it waits there.                               *)
DisconnectKiller(r) ==
    /\ pc[r] = "killwoken"
    /\ threadMutex = Nil
    /\ connected' = [connected EXCEPT ![Killer] = FALSE]
    /\ target' = [target EXCEPT ![r] = Killer]
    /\ IF Outstanding(Killer)
         THEN pc' = [pc EXCEPT ![r] = "discwait"] /\ threadMutex' = r
         ELSE pc' = [pc EXCEPT ![r] = "idle"] /\ UNCHANGED threadMutex
    /\ UNCHANGED <<eventList, eventRef, eventVars, runVars, nthreads,
                   threadsToKill, killAsked, killLeft, handVars, owed>>

(* The test of threadKill, on the counter as it is before the decrement.   *)
LastKillLate == threadsToKill = 0
LastKill     == threadsToKill = 1

(* KillThreadStage::handleEvent: Threadpool::threadKill, ...               *)
ThreadKill(w) ==
    LET sleepers == {r \in Reapers : pc[r] = "killwait"} IN
    /\ pc[w] = "kill"
    /\ threadMutex = Nil
    /\ nthreads' = nthreads - 1
    /\ threadsToKill' = threadsToKill - 1
    /\ event' = [event EXCEPT ![w] = Nil]
    /\ IF LastKill /\ sleepers # {}
         THEN \E r \in sleepers :
                pc' = [pc EXCEPT ![w] = "killrel", ![r] = "killwoken"]
         ELSE pc' = [pc EXCEPT ![w] = "killrel"]
    /\ UNCHANGED <<stageVars, eventVars, runVars, threadMutex, killAsked,
                   killLeft, runStage, callVars>>

(* ... then releaseEvent and pthread_exit.                                 *)
ThreadExit(w) ==
    /\ pc[w] = "killrel"
    /\ ReleaseRef(w, "none")
    /\ UNCHANGED <<eventList, connected, eventVars, runVars, killVars, event,
                   callVars>>

-----------------------------------------------------------------------------
Running == \A r \in Reapers : pc[r] # "abort"

Handler(w) ==
    \/ DoneReschedule(w) \/ DoneDelete(w)
    \/ \E s \in Stages : Forward(w, s)

WorkerStep(w) ==
    \/ Sleep(w) \/ SpuriousRunWake(w) \/ PopStage(w) \/ RemoveEvent(w)
    \/ Handler(w) \/ (\E e \in Events, s \in Stages : Spawn(w, e, s))
    \/ ReleaseEvent(w) \/ ThreadKill(w) \/ ThreadExit(w)

ControlStep(c) ==
    \/ \E s \in Stages : Connect(c, s)
    \/ \E s \in Stages : Disconnect(c, s)

ReaperStep(r) ==
    \/ \E W \in SUBSET Workers : AddThreads(r, W)
    \/ \E n \in KillSizes : BeginKill(r, n)
    \/ AbortKill(r) \/ GenKillEvent(r) \/ AwaitKills(r) \/ SpuriousKillWake(r)
    \/ DisconnectKiller(r)

Next ==
    /\ Running
    /\ \/ \E p \in Procs : Schedule(p)
       \/ \E w \in Workers : WorkerStep(w)
       \/ \E p \in Producers, e \in Events, s \in Stages : Produce(p, e, s)
       \/ \E c \in Controllers : ControlStep(c)
       \/ \E r \in Reapers : ReaperStep(r)
       \/ \E p \in Controllers \cup Reapers :
            SpuriousDiscWake(p) \/ DisconnectResume(p)

Spec == Init /\ [][Next]_vars

-----------------------------------------------------------------------------
(* Live threads that will come back to the run queue before they can sleep *)
(* or exit.                                                                *)
Available ==
    {w \in Workers : /\ pc[w] \in {"loop", "woken", "popped", "handle", "sched",
                                   "release"}
                     /\ runStage[w] # Killer}

Holders(e) ==
    {h \in UNION {{s} \X DOMAIN eventList[s] : s \in AllStages} :
        eventList[h[1]][h[2]] = e}

(* Dying threads that have not yet been counted by threadKill.             *)
Victims == {w \in Workers : runStage[w] = Killer /\ pc[w] \in {"popped", "kill"}}

(* Stage::eventRef counts the outstanding events exactly: one for every    *)
(* schedule() still to be made, every place in the run queue and every     *)
(* thread between removeEvent and releaseEvent.  disconnect() sets thPool  *)
(* to NULL when the count is 0, so an undercount is a use of a NULL pool   *)
(* and an overcount a disconnect that never returns.  Those not yet spent  *)
(* on removeEvent have an event of their own in the queue (the assertions  *)
(* of Threadpool::schedule and Stage::removeEvent), and a connected stage  *)
(* has no event beyond those, so none is forgotten.  A thread asleep in    *)
(* Stage::disconnect has an outstanding event whose releaseEvent will      *)
(* signal it: the count cannot reach 0 behind its back.                    *)
RefBalance ==
    /\ \A s \in AllStages :
         LET claims == Cardinality(QueuedRuns(s)) + Cardinality(Owing(s))
                       + Cardinality(Popped(s))
         IN  /\ eventRef[s] = Cardinality(QueuedRuns(s)) + Cardinality(Owing(s))
                               + Cardinality(Serving(s))
             /\ claims <= Len(eventList[s])
             /\ connected[s] => claims = Len(eventList[s])
    /\ \A p \in Controllers \cup Reapers :
         pc[p] = "discwait" => eventRef[target[p]] > 0 /\ ~connected[target[p]]

(* nIdles is the number of threads inside COND_WAIT on runCond, also when  *)
(* they have been signalled but do not have runMutex back yet.             *)
IdleCount == nIdles = Cardinality(Idle)

(* The signal that Threadpool::schedule leaves out when one of the pool's  *)
(* own threads finds the queue empty is never missed: while a thread       *)
(* sleeps, every entry of the run queue has an awake thread coming for it, *)
(* also when some of the awake threads die on the way.                     *)
NoLostWakeup ==
    Waiting # {} => Len(runQueue) <= Cardinality(Available)

(* An event marked as a callback in transit is in the queue of the stage   *)
(* whose callback is on top of its stack, so doneImmediate in that stage's *)
(* runThread calls the right callbackEvent; and no event is at once in two *)
(* queues, in a queue and in a handler, or in a queue and deleted.         *)
CallbackAtOwner ==
    \A e \in Events :
        /\ Cardinality(Holders(e)) + Cardinality({w \in Workers : event[w] = e})
             = IF e \in fresh THEN 0 ELSE 1
        /\ cbFlag[e] =>
             \A h \in Holders(e) : compCB[e] # <<>> /\ Head(compCB[e]) = h[1]

(* numThreads(): between addThreads, killThreads and threadKill, nthreads  *)
(* is the number of threads that will still take work.                     *)
ThreadsExact ==
    nthreads = Cardinality({w \in Workers : pc[w] \notin {"none", "killrel"}})

(* threadsToKill is the number of kill events whose thread has not called  *)
(* threadKill, once genKillThreadEvents has finished, and there are threads*)
(* enough to take them all: otherwise killThreads could never return.      *)
KillAccounting ==
    /\ (\A r \in Reapers : pc[r] \notin {"gen", "sched"}) =>
         threadsToKill = Cardinality(QueuedRuns(Killer)) + Cardinality(Victims)
    /\ Cardinality(QueuedRuns(Killer)) + Cardinality(Victims) <= nthreads

(* killThreads returns only when every victim has passed its releaseEvent  *)
(* on the killer stage: ~Threadpool frees pool and killer right after it.  *)
(* The kills under way are counted exactly all the time.                   *)
KillReturnsDrained ==
    /\ []KillAccounting
    /\ [][\A r \in Reapers :
            pc[r] \in {"killwoken", "discwoken"} /\ pc'[r] = "idle" =>
              /\ threadsToKill = 0
              /\ Serving(Killer) = {} /\ QueuedRuns(Killer) = {}
              /\ eventList[Killer] = <<>>]_vars

(* What a client of stage s sees of it, in the terms of StagePromise: the  *)
(* events taken by a handler, or by a thread about to be killed, ...       *)
InHand(s) == Cardinality(Serving(s) \ Popped(s))

(* ... the part of its list that was accepted, and is counted in eventRef, *)
(* before the part that waits for the next connect, ...                    *)
AcceptedLen(s) == eventRef[s] - InHand(s)
AcceptedOf(s) == SubSeq(eventList[s], 1, AcceptedLen(s))
ParkedOf(s) == SubSeq(eventList[s], AcceptedLen(s) + 1, Len(eventList[s]))

(* ... and whether some thread is inside Stage::disconnect.                *)
Leaving(p, s) == pc[p] \in {"discwait", "discwoken"} /\ target[p] = s
PhaseOf(s) ==
    IF connected[s] THEN "open"
    ELSE IF \E p \in Controllers \cup Reapers : Leaving(p, s) THEN "closing"
    ELSE "closed"

Promise ==
    INSTANCE StagePromise WITH
        Stage <- AllStages,
        Event <- Events \cup {KillEvent},
        phase <- [s \in AllStages |-> PhaseOf(s)],
        accepted <- [s \in AllStages |-> AcceptedOf(s)],
        parked <- [s \in AllStages |-> ParkedOf(s)],
        busy <- [s \in AllStages |-> InHand(s)]

(* Stage and Threadpool together keep the promise of StagePromise: events  *)
(* are dispatched in the order of addEvent, and disconnect returns only    *)
(* after the accepted ones have been handled.                              *)
KeepsPromise == Promise!Spec

-----------------------------------------------------------------------------
(* Fairness the code justifies: a runnable thread goes on, a handler ends  *)
(* (SF: it may create events before it does), and a thread that asks for   *)
(* threadMutex again and again gets it (SF).  Nothing is assumed of the    *)
(* callers of addEvent, connect, disconnect, addThreads and killThreads.   *)
WorkerFairness(w) ==
    /\ WF_vars(Running /\ PopStage(w))
    /\ WF_vars(Running /\ RemoveEvent(w))
    /\ WF_vars(Running /\ ReleaseEvent(w))
    /\ WF_vars(Running /\ ThreadExit(w))
    /\ SF_vars(Running /\ Handler(w))
    /\ SF_vars(Running /\ ThreadKill(w))

ReaperFairness(r) ==
    /\ WF_vars(Running /\ GenKillEvent(r))
    /\ WF_vars(Running /\ AwaitKills(r))
    /\ SF_vars(Running /\ DisconnectKiller(r))

Fairness ==
    /\ \A p \in Procs : WF_vars(Running /\ Schedule(p))
    /\ \A w \in Workers : WorkerFairness(w)
    /\ \A r \in Reapers : ReaperFairness(r)
    /\ \A p \in Controllers \cup Reapers : WF_vars(Running /\ DisconnectResume(p))

FairSpec == Spec /\ Fairness

(* Every event a connected stage holds is handed to a handler of that      *)
(* stage, unless the pool is left without threads for good.                *)
EventServed ==
    []<>(nthreads > 0) =>
        \A e \in Events, s \in Stages :
            (connected[s] /\ \E h \in Holders(e) : h[1] = s)
                ~> (\E w \in Workers : event[w] = e /\ runStage[w] = s)

(* Stage::disconnect returns, unless the pool is left without threads:     *)
(* events that arrive while it waits are parked and do not prolong it.     *)
DisconnectReturns ==
    []<>(nthreads > 0) =>
        \A c \in Controllers : (pc[c] = "discwait") ~> (pc[c] = "idle")

(* A killThreads that has victims returns.                                 *)
KillReturns ==
    \A r \in Reapers : (pc[r] = "killwait" /\ killAsked > 0) ~> (pc[r] = "idle")

=============================================================================
