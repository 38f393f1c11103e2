----------------------------- MODULE SedaConfig -----------------------------
(***************************************************************************)
(* The life of a configuration of stages: SedaConfig builds thread pools   *)
(* and stages, connects the stages one by one, and takes them all down     *)
(* again, while events are on their way from stage to stage and back to    *)
(* the stages whose callbacks they carry.  Some stages are dispatchers     *)
(* (EventDispatcher), which keep events until they are woken up.           *)
(*                                                                         *)
(* One stage is Stage as SedaPool describes it, with the steps of its pool *)
(* threads joined: an event is taken, and later passed on and released.    *)
(* mStages is ordered by name, so names are numbers.  A configuration      *)
(* names only pools and stages that it lists.                              *)
(***************************************************************************)
EXTENDS Naturals, Sequences, FiniteSets

CONSTANTS
    Names,
    STAGES,           \* the stages in the order in which the configuration lists them
    NextStages,       \* the stages listed as next of a stage
    ThreadPools,      \* how many pools it lists
    Dispatchers,      \* the stages that are EventDispatchers
    Events,
    MaxInits          \* bound: how often the configuration is initialized

ASSUME ConfigAssumption ==
    /\ Names \subseteq Nat /\ IsFiniteSet(Names)
    /\ STAGES \in Seq(Names) /\ NextStages \in [Names -> Seq(Names)]
    /\ \A i \in DOMAIN STAGES : \A j \in DOMAIN NextStages[STAGES[i]] :
         \E k \in DOMAIN STAGES : STAGES[k] = NextStages[STAGES[i]][j]
    /\ Dispatchers \subseteq Names /\ IsFiniteSet(Events)
    /\ ThreadPools \in Nat \ {0} /\ MaxInits \in Nat \ {0}

VARIABLES
    mThreadPools,     \* how many exist
    mStageNames, mStages,
    nextStageList, eventList, eventRef,
    eventStore,       \* of a dispatcher: one chain of stored events
    handling,         \* pairs of a stage and an event a thread of its pool has taken
    callbacks,        \* CompletionCallbacks of an event: the stages they lead to
    returning,        \* events with cbFlag: the next callback is to run
    fate,             \* what has become of an event
    late,             \* history: events added to a stage that is not connected
    pc, inits

buildVars == <<mThreadPools, mStageNames>>
stageVars == <<mStages, nextStageList>>
queueVars == <<eventList, eventRef>>
eventVars == <<callbacks, returning, fate>>
controlVars == <<pc, inits>>
vars == <<buildVars, stageVars, queueVars, eventStore, handling, eventVars,
          late, controlVars>>

TypeOK ==
    /\ mThreadPools \in 0..ThreadPools
    /\ mStageNames \in Seq(Names)
    /\ mStages \in [Names -> {"none", "made", "connected", "stopping", "stopped"}]
    /\ nextStageList \in [Names -> Seq(Names)]
    /\ eventList \in [Names -> Seq(Events)]
    /\ eventRef \in [Names -> 0..Cardinality(Events)]
    /\ eventStore \in [Names -> Seq(Events)]
    /\ handling \subseteq Names \X Events
    /\ callbacks \in [Events -> Seq(Names)]
    /\ returning \subseteq Events
    /\ fate \in [Events -> {"new", "alive", "done", "deleted"}]
    /\ late \subseteq Events
    /\ pc \in {"empty", "stages", "next", "start", "running", "cleanup", "drain",
               "clear", "failed"}
    /\ inits \in 0..MaxInits

Init ==
    /\ mThreadPools = 0 /\ mStageNames = <<>>
    /\ mStages = [n \in Names |-> "none"]
    /\ nextStageList = [n \in Names |-> <<>>]
    /\ eventList = [n \in Names |-> <<>>] /\ eventRef = [n \in Names |-> 0]
    /\ eventStore = [n \in Names |-> <<>>]
    /\ handling = {} /\ callbacks = [e \in Events |-> <<>>] /\ returning = {}
    /\ fate = [e \in Events |-> "new"] /\ late = {}
    /\ pc = "empty" /\ inits = 0

-----------------------------------------------------------------------------
(* SedaConfig::instantiate, before any stage runs.  initThreadPool makes   *)
(* pools until one has a count below one: those made are left.             *)
InitThreadPool(made) ==
    /\ pc = "empty" /\ inits < MaxInits
    /\ mThreadPools = 0 /\ \A n \in Names : mStages[n] = "none"
    /\ made \in 0..ThreadPools
    /\ mThreadPools' = made
    /\ inits' = inits + 1
    /\ pc' = IF made = ThreadPools THEN "stages" ELSE "failed"
    /\ UNCHANGED <<mStageNames, stageVars, queueVars, eventStore, handling, eventVars,
                   late>>

(* The names are added to those of an earlier initialization.              *)
InitStages ==
    /\ pc = "stages"
    /\ mStageNames' = mStageNames \o STAGES
    /\ mStages' = [n \in Names |->
                     IF \E i \in DOMAIN mStageNames' : mStageNames'[i] = n
                       THEN "made" ELSE "none"]
    /\ pc' = "next"
    /\ UNCHANGED <<mThreadPools, nextStageList, queueVars, eventStore, handling,
                   eventVars, late, inits>>

(* A stage without ThreadId: clearconfig deletes what has been made.       *)
InitStagesFails ==
    /\ pc = "stages"
    /\ mStageNames' = mStageNames \o STAGES
    /\ mThreadPools' = 0
    /\ pc' = "failed"
    /\ UNCHANGED <<stageVars, queueVars, eventStore, handling, eventVars, late,
                   inits>>

(* Every time its name is listed, a stage gets its next stages.            *)
Listed(n) == Cardinality({i \in DOMAIN mStageNames : mStageNames[i] = n})
GenNextStages ==
    /\ pc = "next"
    /\ nextStageList' =
         [n \in Names |-> IF Listed(n) = 0 THEN <<>>
                          ELSE IF Listed(n) = 1 THEN NextStages[n]
                          ELSE NextStages[n] \o NextStages[n]]
    /\ pc' = "start"
    /\ UNCHANGED <<buildVars, mStages, queueVars, eventStore, handling, eventVars,
                   late, inits>>

-----------------------------------------------------------------------------
(* SedaConfig::start: the stages are connected in the order of their names,*)
(* while those connected may run already.                                  *)
FirstWith(S) == {n \in S : \A m \in S : n <= m}
Unconnected == {n \in Names : mStages[n] = "made"}

(* EventDispatcher::initialize refuses any number of next stages but one.  *)
Initializes(n) == n \in Dispatchers => Len(nextStageList[n]) = 1

(* Stage::connect: the events already there are scheduled.                 *)
StartStage(n) ==
    /\ pc = "start" /\ n \in FirstWith(Unconnected)
    /\ Initializes(n)
    /\ mStages' = [mStages EXCEPT ![n] = "connected"]
    /\ eventRef' = [eventRef EXCEPT ![n] = Len(eventList[n])]
    /\ UNCHANGED <<buildVars, nextStageList, eventList, eventStore, handling, eventVars,
                   late, controlVars>>

(* initialize fails: what has been started is cleaned up.                  *)
(* Mutant: start returns at once.                                          *)
AfterFailedStartReturn == "failed"
AfterFailedStart == "cleanup"
StartFails(n) ==
    /\ pc = "start" /\ n \in FirstWith(Unconnected)
    /\ n \in Dispatchers => ~Initializes(n)
    /\ pc' = AfterFailedStart
    /\ UNCHANGED <<buildVars, stageVars, queueVars, eventStore, handling, eventVars,
                   late, inits>>

Started ==
    /\ pc = "start" /\ Unconnected = {}
    /\ pc' = "running"
    /\ UNCHANGED <<buildVars, stageVars, queueVars, eventStore, handling, eventVars,
                   late, inits>>

-----------------------------------------------------------------------------
(* SedaConfig::cleanup, also from the destructor.                          *)
Cleanup ==
    /\ pc \in {"running", "failed"}
    /\ pc' = "cleanup"
    /\ UNCHANGED <<buildVars, stageVars, queueVars, eventStore, handling, eventVars,
                   late, inits>>

Stopping == {n \in Names : mStages[n] = "stopping"}
Connected == {n \in Names : mStages[n] = "connected"}

(* Stage::disconnect: the stage takes no more events, waits until those it *)
(* has are handled, ...                                                    *)
Disconnect(n) ==
    /\ pc = "cleanup" /\ Stopping = {} /\ n \in FirstWith(Connected)
    /\ mStages' = [mStages EXCEPT ![n] = "stopping"]
    /\ UNCHANGED <<buildVars, nextStageList, queueVars, eventStore, handling, eventVars,
                   late, controlVars>>

(* Mutant: only the events that are being handled are waited for.          *)
QuietIdle(n) == \A e \in Events : <<n, e>> \notin handling
Quiet(n) == eventRef[n] = 0

Disconnected(n) ==
    /\ pc = "cleanup" /\ n \in Stopping /\ Quiet(n)
    /\ nextStageList' = [nextStageList EXCEPT ![n] = <<>>]
    /\ pc' = "drain"
    /\ UNCHANGED <<buildVars, mStages, queueVars, eventStore, handling, eventVars,
                   late, inits>>

Late(e, T) == late' = IF \E m \in T : mStages[m] # "connected" THEN late \cup {e} ELSE late

(* StageEvent::done: the event goes to the stage of its last callback, or  *)
(* is deleted when there is none.                                          *)
Target(e) == IF callbacks[e] = <<>> THEN {} ELSE {Head(callbacks[e])}
Done(e) ==
    /\ fate' = IF callbacks[e] = <<>> THEN [fate EXCEPT ![e] = "done"] ELSE fate
    /\ returning' = IF callbacks[e] = <<>> THEN returning ELSE returning \cup {e}
    /\ Late(e, Target(e))

(* Stage::addEvent for the stages in T, no more than one.                  *)
Added(e, T) == [m \in Names |-> IF m \in T THEN Append(eventList[m], e) ELSE eventList[m]]
Scheduled(T) == [m \in Names |-> IF m \in T \cap Connected THEN eventRef[m] + 1 ELSE eventRef[m]]

(* ... and is cleaned up: a dispatcher calls done for what it has stored.  *)
(* Mutant: the store is cleared, its events are forgotten.                 *)
StoredLost(n) == {}
Stored(n) == {eventStore[n][i] : i \in 1..1 \cap DOMAIN eventStore[n]}
DrainStore(n) ==
    /\ pc = "drain" /\ n \in Stopping /\ eventStore[n] # <<>>
    /\ eventStore' = [eventStore EXCEPT ![n] = Tail(@)]
    /\ IF Stored(n) = {}
         THEN UNCHANGED <<queueVars, eventVars, late>>
         ELSE \E e \in Stored(n) :
                /\ Done(e)
                /\ eventList' = Added(e, Target(e))
                /\ eventRef' = Scheduled(Target(e))
                /\ UNCHANGED callbacks
    /\ UNCHANGED <<buildVars, stageVars, handling, controlVars>>

AfterDisconnect == "stopped"
Drained(n) ==
    /\ pc = "drain" /\ n \in Stopping /\ eventStore[n] = <<>>
    /\ mStages' = [mStages EXCEPT ![n] = AfterDisconnect]
    /\ pc' = "cleanup"
    /\ UNCHANGED <<buildVars, nextStageList, queueVars, eventStore, handling, eventVars,
                   late, inits>>

AllDisconnected ==
    /\ pc = "cleanup" /\ Stopping = {} /\ Connected = {}
    /\ pc' = "clear"
    /\ UNCHANGED <<buildVars, stageVars, queueVars, eventStore, handling, eventVars,
                   late, inits>>

(* SedaConfig::clearconfig: a stage deletes the events in its queue, whose *)
(* callbacks never run; mStageNames is left as it is.                      *)
Waiting(e) == \E n \in Names : \E i \in DOMAIN eventList[n] : eventList[n][i] = e
ClearConfig ==
    /\ pc = "clear"
    /\ fate' = [e \in Events |-> IF Waiting(e) THEN "deleted" ELSE fate[e]]
    /\ eventList' = [n \in Names |-> <<>>]
    /\ mStages' = [n \in Names |-> "none"]
    /\ mThreadPools' = 0
    /\ pc' = "empty"
    /\ UNCHANGED <<mStageNames, nextStageList, eventRef, eventStore, handling, callbacks,
                   returning, late, inits>>

-----------------------------------------------------------------------------
(* External: an event for a stage the program has found by its name.       *)
Inject(e, n) ==
    /\ fate[e] = "new" /\ mStages[n] \in {"connected", "stopping", "stopped"}
    /\ fate' = [fate EXCEPT ![e] = "alive"]
    /\ eventList' = Added(e, {n})
    /\ eventRef' = Scheduled({n})
    /\ Late(e, {n})
    /\ UNCHANGED <<buildVars, stageVars, eventStore, handling, callbacks, returning,
                   controlVars>>

(* A thread of the stage's pool takes an event that is scheduled.          *)
Busy(n) == Cardinality({e \in Events : <<n, e>> \in handling})
Take(n) ==
    /\ Busy(n) < eventRef[n] /\ eventList[n] # <<>>
    /\ handling' = handling \cup {<<n, Head(eventList[n])>>}
    /\ eventList' = [eventList EXCEPT ![n] = Tail(@)]
    /\ UNCHANGED <<buildVars, stageVars, eventRef, eventStore, eventVars, late,
                   controlVars>>

(* It has passed the event to T, and releases it.                          *)
(* Mutant: the reference is never given back.                              *)
ReleasedNever(n, T) == Scheduled(T)
Released(n, T) ==
    [m \in Names |-> IF m = n THEN Scheduled(T)[m] - 1 ELSE Scheduled(T)[m]]
PassOn(n, e, T) ==
    /\ handling' = handling \ {<<n, e>>}
    /\ eventList' = Added(e, T)
    /\ eventRef' = Released(n, T)

Handles(n, e) == <<n, e>> \in handling /\ e \notin returning

(* The stage is done with the event; a dispatcher has disposed of it.      *)
Complete(n, e) ==
    /\ Handles(n, e)
    /\ Done(e)
    /\ PassOn(n, e, Target(e))
    /\ UNCHANGED <<buildVars, stageVars, eventStore, callbacks, controlVars>>

(* It sends the event to its next stage, with a callback to itself or not. *)
Forward(n, e, callback) ==
    LET T == {Head(nextStageList[n])}
    IN /\ Handles(n, e) /\ nextStageList[n] # <<>>
       /\ callback => n \notin Dispatchers
       /\ PassOn(n, e, T)
       /\ callbacks' = IF callback THEN [callbacks EXCEPT ![e] = <<n>> \o @] ELSE callbacks
       /\ Late(e, T)
       /\ UNCHANGED <<buildVars, stageVars, eventStore, returning, fate, controlVars>>

(* EventDispatcher::handleEvent stores it.                                 *)
Store(n, e) ==
    /\ Handles(n, e) /\ n \in Dispatchers
    /\ eventStore' = [eventStore EXCEPT ![n] = Append(@, e)]
    /\ PassOn(n, e, {})
    /\ UNCHANGED <<buildVars, stageVars, eventVars, late, controlVars>>

(* StageEvent::doneImmediate: the callback runs, and the stage is done     *)
(* with the event again.                                                   *)
RunCallback(n, e) ==
    /\ <<n, e>> \in handling /\ e \in returning
    /\ LET rest == Tail(callbacks[e])
           T == IF rest = <<>> THEN {} ELSE {Head(rest)}
       IN /\ callbacks' = [callbacks EXCEPT ![e] = rest]
          /\ fate' = IF rest = <<>> THEN [fate EXCEPT ![e] = "done"] ELSE fate
          /\ returning' = IF rest = <<>> THEN returning \ {e} ELSE returning
          /\ PassOn(n, e, T)
          /\ Late(e, T)
    /\ UNCHANGED <<buildVars, stageVars, eventStore, controlVars>>

(* EventDispatcher::wakeupEvent, from a callback or a background thread    *)
(* with eventLock, which a dispatcher that is drained holds itself: the    *)
(* oldest event is sent, stored again at the end, or disposed of.          *)
Wakeup(n) ==
    /\ eventStore[n] # <<>> /\ ~(pc = "drain" /\ n \in Stopping)
    /\ LET e == Head(eventStore[n])
           rest == [eventStore EXCEPT ![n] = Tail(@)]
           T == {Head(nextStageList[n])}
       IN \/ /\ eventStore' = rest
             /\ eventList' = Added(e, T) /\ eventRef' = Scheduled(T)
             /\ Late(e, T)
             /\ UNCHANGED eventVars
          \/ /\ eventStore' = [rest EXCEPT ![n] = Append(@, e)]
             /\ UNCHANGED <<queueVars, eventVars, late>>
          \/ /\ eventStore' = rest
             /\ Done(e)
             /\ eventList' = Added(e, Target(e)) /\ eventRef' = Scheduled(Target(e))
             /\ UNCHANGED callbacks
    /\ UNCHANGED <<buildVars, stageVars, handling, controlVars>>

-----------------------------------------------------------------------------
AtRest == pc = "empty" /\ inits = MaxInits /\ UNCHANGED vars

ConfigStep ==
    \/ InitStages \/ InitStagesFails \/ GenNextStages \/ Started
    \/ \E n \in Names : StartStage(n) \/ StartFails(n) \/ Disconnect(n)
                          \/ Disconnected(n) \/ DrainStore(n) \/ Drained(n)
    \/ AllDisconnected \/ ClearConfig

HandlerStep(n, e) ==
    \/ Complete(n, e) \/ Store(n, e) \/ RunCallback(n, e)
    \/ \E callback \in BOOLEAN : Forward(n, e, callback)

Next ==
    \/ \E made \in 0..ThreadPools : InitThreadPool(made)
    \/ Cleanup \/ ConfigStep
    \/ \E n \in Names : Take(n) \/ Wakeup(n)
    \/ \E n \in Names, e \in Events : Inject(e, n) \/ HandlerStep(n, e)
    \/ AtRest

Spec == Init /\ [][Next]_vars

(* The thread that builds and cleans up goes on, and so do the pools'.     *)
FairSpec ==
    /\ Spec /\ WF_vars(ConfigStep)
    /\ \A n \in Names : WF_vars(Take(n))
    /\ \A n \in Names, e \in Events : WF_vars(HandlerStep(n, e))

-----------------------------------------------------------------------------
(* An event that is neither done nor deleted is in one place, and in a     *)
(* stage that exists: a queue, a thread or the store of a dispatcher; so   *)
(* no stage is deleted while another may still send an event to it or      *)
(* return one to it.  The types are checked along.                         *)
Copies(q, e) == Cardinality({i \in DOMAIN q : q[i] = e})
Home(e) ==
    {n \in Names : Copies(eventList[n], e) + Copies(eventStore[n], e) > 0
                     \/ <<n, e>> \in handling}
EventInOnePlace ==
    /\ TypeOK
    /\ \A e \in Events :
         /\ fate[e] = "alive" <=> Home(e) # {}
         /\ \A n \in Home(e) :
              /\ Home(e) = {n} /\ mStages[n] # "none"
              /\ Copies(eventList[n], e) + Copies(eventStore[n], e)
                   + (IF <<n, e>> \in handling THEN 1 ELSE 0) = 1

(* An event that is deleted without its callbacks had come to a stage that *)
(* was no longer connected: what a stage has accepted before that, it has  *)
(* handled (the stages are disconnected in the order of their names, not   *)
(* of the pipeline, so that some come late).                               *)
OnlyLateDeleted == \A e \in Events : fate[e] = "deleted" => e \in late

(* After a failure no stage exists and none runs; pools are left only by   *)
(* initThreadPool ("if returns INITFAIL then mThreadPools and stage list   *)
(* are empty" holds for the stages).                                       *)
FailureLeavesNoStage ==
    pc \in {"failed", "empty"} =>
        /\ \A n \in Names : mStages[n] = "none" /\ eventRef[n] = 0
        /\ pc = "empty" => mThreadPools = 0

(* A cleanup ends, whatever is on its way.                                 *)
CleanupEnds == pc = "cleanup" ~> pc = "empty"
=============================================================================
