-------------------------- MODULE SedaConfigProofs --------------------------
(***************************************************************************)
(* Theorems about SedaConfig, for any configuration of pools, stages and   *)
(* dispatchers and any number of events.                                   *)
(*                                                                         *)
(* The invariant has three parts.  Phases: which states the stages have    *)
(* while the configuration is built, run and taken down; with it the       *)
(* stages exist that events may still be sent to.  References: eventRef    *)
(* covers the events in the hands of threads, and a stage that is not      *)
(* connected keeps unscheduled events only behind the scheduled ones, all  *)
(* of them late.  Places: where each event is.                             *)
(***************************************************************************)
EXTENDS SedaConfig, FiniteSetTheorems, TLAPS

-----------------------------------------------------------------------------
(* Part 1.  Phases.                                                        *)

(* TypeOK without the bound of eventRef, which follows from the places.    *)
Typed ==
    /\ mThreadPools \in 0..ThreadPools
    /\ mStageNames \in Seq(Names)
    /\ mStages \in [Names -> {"none", "made", "connected", "stopping", "stopped"}]
    /\ nextStageList \in [Names -> Seq(Names)]
    /\ eventList \in [Names -> Seq(Events)]
    /\ eventRef \in [Names -> Nat]
    /\ eventStore \in [Names -> Seq(Events)]
    /\ handling \subseteq Names \X Events
    /\ callbacks \in [Events -> Seq(Names)]
    /\ returning \subseteq Events
    /\ fate \in [Events -> {"new", "alive", "done", "deleted"}]
    /\ late \subseteq Events
    /\ pc \in {"empty", "stages", "next", "start", "running", "cleanup", "drain",
               "clear", "failed"}
    /\ inits \in 0..MaxInits

In(q, x) == \E i \in DOMAIN q : q[i] = x
Listing == {n \in Names : In(STAGES, n)}

(* Everything that leads to a stage leads to a listed one, ...             *)
NamesListed == \A n \in Names : In(mStageNames, n) => n \in Listing
NextListed ==
    \A n \in Names : \A j \in DOMAIN nextStageList[n] : nextStageList[n][j] \in Listing
BackListed ==
    \A e \in Events : \A j \in DOMAIN callbacks[e] : callbacks[e][j] \in Listing

(* ... and the listed stages exist all together.                           *)
Existing ==
    \/ \A n \in Names : mStages[n] = "none"
    \/ \A n \in Names : mStages[n] # "none" <=> n \in Listing

(* The states of the stages in a phase of the configuration.               *)
StatesIn(phase) ==
    CASE phase \in {"empty", "stages", "failed"} -> {"none"}
      [] phase = "next" -> {"none", "made"}
      [] phase \in {"start", "running"} -> {"none", "made", "connected"}
      [] phase \in {"cleanup", "drain"} ->
           {"none", "made", "connected", "stopping", "stopped"}
      [] OTHER -> {"none", "made", "stopped"}
Phases ==
    /\ \A n \in Names : mStages[n] \in StatesIn(pc)
    /\ pc = "empty" => mThreadPools = 0
    /\ \A n, m \in Stopping : n = m

(* A stage that is not connected or about to be disconnected is at rest.   *)
AtRestOutside ==
    \A n \in Names :
        /\ mStages[n] \notin {"connected", "stopping"}
             => eventRef[n] = 0 /\ eventStore[n] = <<>>
        /\ mStages[n] = "stopping" /\ pc = "drain" => eventRef[n] = 0

(* Only dispatchers store, and they have the one stage to wake up to.      *)
DispatchersSend ==
    /\ \A n \in Names : eventStore[n] # <<>> => n \in Dispatchers
    /\ \A n \in Dispatchers :
         (\/ mStages[n] = "connected"
          \/ mStages[n] = "stopping" /\ pc = "cleanup")
         => Len(nextStageList[n]) = 1

ReturnsSomewhere == \A e \in returning : callbacks[e] # <<>>

-----------------------------------------------------------------------------
(* Part 2.  References.                                                    *)
Counted ==
    \A n \in Names :
        /\ Busy(n) <= eventRef[n] /\ eventRef[n] <= Len(eventList[n]) + Busy(n)
        /\ mStages[n] = "connected" => eventRef[n] = Len(eventList[n]) + Busy(n)

(* What is not scheduled came late; in a connected stage all is.           *)
LateTail ==
    \A n \in Names : \A i \in DOMAIN eventList[n] :
        i + Busy(n) > eventRef[n] => eventList[n][i] \in late

-----------------------------------------------------------------------------
(* Part 3.  Places.                                                        *)
NoDup(q) == \A i, j \in DOMAIN q : q[i] = q[j] => i = j
NoDups == \A n \in Names : NoDup(eventList[n]) /\ NoDup(eventStore[n])

Kinds == {"list", "store", "hand"}
At(k, n, e) ==
    \/ k = "list" /\ In(eventList[n], e)
    \/ k = "store" /\ In(eventStore[n], e)
    \/ k = "hand" /\ <<n, e>> \in handling

OneAt(e) ==
    \A k, l \in Kinds : \A n, m \in Names :
        At(k, n, e) /\ At(l, m, e) => k = l /\ n = m
Somewhere(e) == \E k \in Kinds : \E n \in Names : At(k, n, e)
Placed ==
    \A e \in Events :
        /\ OneAt(e)
        /\ fate[e] = "alive" <=> Somewhere(e)
        /\ \A k \in Kinds : \A n \in Names : At(k, n, e) => mStages[n] # "none"

-----------------------------------------------------------------------------
PhaseInv ==
    /\ Typed /\ NamesListed /\ NextListed /\ BackListed /\ Existing /\ Phases
    /\ AtRestOutside /\ DispatchersSend /\ ReturnsSomewhere
RefInv == Counted /\ LateTail
PlaceInv == NoDups /\ Placed
ConfigInv == PhaseInv /\ RefInv /\ PlaceInv /\ OnlyLateDeleted

-----------------------------------------------------------------------------
(* Appending to a sequence, and dropping its first.                        *)
LEMMA AppendIn ==
    ASSUME NEW S, NEW q \in Seq(S), NEW x \in S
    PROVE  /\ Append(q, x) \in Seq(S) /\ Len(Append(q, x)) = Len(q) + 1
           /\ \A y : In(Append(q, x), y) <=> In(q, y) \/ y = x
           /\ NoDup(q) /\ ~In(q, x) => NoDup(Append(q, x))
  <1>1. /\ Append(q, x) \in Seq(S) /\ Len(Append(q, x)) = Len(q) + 1
        /\ DOMAIN q = 1..Len(q) /\ DOMAIN Append(q, x) = 1..Len(q) + 1
        /\ Len(q) \in Nat
        /\ \A i \in 1..Len(q) : Append(q, x)[i] = q[i]
        /\ Append(q, x)[Len(q) + 1] = x
    OBVIOUS
  <1>2. ASSUME NEW y PROVE In(Append(q, x), y) <=> In(q, y) \/ y = x
    <2>1. ASSUME In(Append(q, x), y) PROVE In(q, y) \/ y = x
      <3>1. PICK i \in 1..Len(q) + 1 : Append(q, x)[i] = y
        BY <1>1, <2>1 DEF In
      <3>2. CASE i = Len(q) + 1
        BY <1>1, <3>1, <3>2
      <3>3. CASE i \in 1..Len(q)
        BY <1>1, <3>1, <3>3 DEF In
      <3> QED
        BY <1>1, <3>2, <3>3
    <2>2. ASSUME In(q, y) PROVE In(Append(q, x), y)
      BY <1>1, <2>2 DEF In
    <2>3. ASSUME y = x PROVE In(Append(q, x), y)
      BY <1>1, <2>3 DEF In
    <2> QED
      BY <2>1, <2>2, <2>3
  <1>3. ASSUME NoDup(q), ~In(q, x) PROVE NoDup(Append(q, x))
    BY <1>1, <1>3 DEF NoDup, In
  <1> QED
    BY <1>1, <1>2, <1>3

LEMMA TailIn ==
    ASSUME NEW S, NEW q \in Seq(S), q # <<>>
    PROVE  /\ Head(q) \in S /\ Tail(q) \in Seq(S) /\ Len(Tail(q)) = Len(q) - 1
           /\ \A i \in DOMAIN Tail(q) : i + 1 \in DOMAIN q /\ Tail(q)[i] = q[i + 1]
           /\ In(q, Head(q)) /\ Len(q) > 0
           /\ \A y : In(Tail(q), y) => In(q, y)
           /\ NoDup(q) => /\ NoDup(Tail(q))
                          /\ \A y : In(Tail(q), y) <=> In(q, y) /\ y # Head(q)
  <1>1. /\ Head(q) \in S /\ Tail(q) \in Seq(S) /\ Len(Tail(q)) = Len(q) - 1
        /\ Len(q) \in Nat /\ Len(q) > 0 /\ Head(q) = q[1]
        /\ DOMAIN q = 1..Len(q) /\ DOMAIN Tail(q) = 1..Len(q) - 1
        /\ \A i \in 1..Len(q) - 1 : Tail(q)[i] = q[i + 1]
    OBVIOUS
  <1>2. \A i \in DOMAIN Tail(q) : i + 1 \in DOMAIN q /\ Tail(q)[i] = q[i + 1]
    BY <1>1
  <1>3. In(q, Head(q))
    BY <1>1 DEF In
  <1>4. \A y : In(Tail(q), y) => In(q, y)
    BY <1>2 DEF In
  <1>5. ASSUME NoDup(q)
        PROVE  /\ NoDup(Tail(q))
               /\ \A y : In(Tail(q), y) <=> In(q, y) /\ y # Head(q)
    <2>1. NoDup(Tail(q))
      <3> SUFFICES ASSUME NEW i \in DOMAIN Tail(q), NEW j \in DOMAIN Tail(q),
                          Tail(q)[i] = Tail(q)[j]
                   PROVE  i = j
        BY DEF NoDup
      <3>1. q[i + 1] = q[j + 1] /\ i + 1 \in DOMAIN q /\ j + 1 \in DOMAIN q
        BY <1>2
      <3>2. i + 1 = j + 1
        BY <1>5, <3>1 DEF NoDup
      <3> QED
        BY <1>1, <3>2
    <2>2. ASSUME NEW y, In(Tail(q), y) PROVE y # Head(q)
      <3>1. PICK i \in DOMAIN Tail(q) : Tail(q)[i] = y
        BY <2>2 DEF In
      <3>2. q[i + 1] = y /\ i + 1 \in DOMAIN q /\ 1 \in DOMAIN q /\ i \in Nat \ {0}
        BY <1>1, <1>2, <3>1
      <3>3. y = q[1] => i + 1 = 1
        BY <1>5, <3>2 DEF NoDup
      <3> QED
        BY <1>1, <3>2, <3>3
    <2>3. ASSUME NEW y, In(q, y), y # Head(q) PROVE In(Tail(q), y)
      <3>1. PICK i \in DOMAIN q : q[i] = y
        BY <2>3 DEF In
      <3>2. i \in 2..Len(q)
        BY <1>1, <2>3, <3>1
      <3>3. i - 1 \in 1..Len(q) - 1 /\ Tail(q)[i - 1] = q[(i - 1) + 1] /\ (i - 1) + 1 = i
        BY <1>1, <3>2
      <3> QED
        BY <1>1, <3>1, <3>3 DEF In
    <2> QED
      BY <1>4, <2>1, <2>2, <2>3
  <1> QED
    BY <1>1, <1>2, <1>3, <1>4, <1>5

-----------------------------------------------------------------------------
(* The hands of the threads.                                               *)
HandsOf(n) == {e \in Events : <<n, e>> \in handling}

LEMMA BusyNat ==
    ASSUME NEW n \in Names
    PROVE  /\ IsFiniteSet(HandsOf(n)) /\ Busy(n) = Cardinality(HandsOf(n))
           /\ Busy(n) \in Nat
           /\ Busy(n) = 0 <=> HandsOf(n) = {}
  <1>1. HandsOf(n) \in SUBSET Events
    BY DEF HandsOf
  <1>2. IsFiniteSet(HandsOf(n))
    BY <1>1, ConfigAssumption, FS_Subset
  <1> QED
    BY <1>2, FS_CardinalityType, FS_EmptySet DEF HandsOf, Busy

LEMMA HandledRef ==
    ASSUME Typed, Counted, NEW n \in Names, NEW e \in Events, <<n, e>> \in handling
    PROVE  Busy(n) \in Nat /\ Busy(n) > 0 /\ eventRef[n] \in Nat /\ eventRef[n] > 0
  <1>1. e \in HandsOf(n)
    BY DEF HandsOf
  <1>2. Busy(n) \in Nat /\ Busy(n) # 0
    BY <1>1, BusyNat
  <1>3. Busy(n) <= eventRef[n] /\ eventRef[n] \in Nat
    BY DEF Counted, Typed
  <1> QED
    BY <1>2, <1>3

-----------------------------------------------------------------------------
(* Stage::addEvent, the release of an event, and the store of a dispatcher.*)
LEMMA AddedTyped ==
    ASSUME Typed, NEW e \in Events, NEW T
    PROVE  /\ Added(e, T) \in [Names -> Seq(Events)]
           /\ Scheduled(T) \in [Names -> Nat]
           /\ \A m \in Names :
                /\ Added(e, T)[m] = IF m \in T THEN Append(eventList[m], e)
                                    ELSE eventList[m]
                /\ Scheduled(T)[m] = IF m \in T /\ mStages[m] = "connected"
                                     THEN eventRef[m] + 1 ELSE eventRef[m]
  BY DEF Typed, Added, Scheduled, Connected

LEMMA ReleasedTyped ==
    ASSUME Typed, NEW n \in Names, NEW T, eventRef[n] > 0
    PROVE  /\ Released(n, T) \in [Names -> Nat]
           /\ \A m \in Names : Released(n, T)[m] = IF m = n THEN Scheduled(T)[m] - 1
                                                  ELSE Scheduled(T)[m]
  <1>1. \A m \in Names : Scheduled(T)[m] \in Nat /\ Scheduled(T)[m] >= eventRef[m]
    BY DEF Typed, Scheduled
  <1>2. eventRef[n] \in Nat
    BY DEF Typed
  <1> QED
    BY <1>1, <1>2 DEF Released

LEMMA StoredHead ==
    ASSUME Typed, NEW n \in Names, eventStore[n] # <<>>
    PROVE  /\ Stored(n) = {Head(eventStore[n])} /\ Head(eventStore[n]) \in Events
           /\ Tail(eventStore[n]) \in Seq(Events)
  <1>1. eventStore[n] \in Seq(Events)
    BY DEF Typed
  <1>2. /\ 1 \in DOMAIN eventStore[n] /\ Head(eventStore[n]) = eventStore[n][1]
        /\ Head(eventStore[n]) \in Events
    BY <1>1
  <1>3. 1..1 \cap DOMAIN eventStore[n] = {1}
    BY <1>2
  <1> QED
    BY <1>1, <1>2, <1>3, TailIn DEF Stored

-----------------------------------------------------------------------------
(* The types, one lemma per kind of step.                                  *)
ConfigVars == <<buildVars, stageVars, controlVars>>

LEMMA TypeInit == Init => Typed
  BY ConfigAssumption DEF Init, Typed

LEMMA TypeBuild ==
    ASSUME Typed
    PROVE  /\ \A made \in 0..ThreadPools : InitThreadPool(made) => Typed'
           /\ (InitStages \/ InitStagesFails \/ GenNextStages) => Typed'
  <1>1. ASSUME NEW made \in 0..ThreadPools, InitThreadPool(made) PROVE Typed'
    <2>1. inits + 1 \in 0..MaxInits
      BY <1>1, ConfigAssumption DEF InitThreadPool, Typed
    <2> QED
      BY <1>1, <2>1
      DEF InitThreadPool, Typed, stageVars, queueVars, eventVars
  <1>2. ASSUME InitStages PROVE Typed'
    <2>1. mStageNames' \in Seq(Names)
      BY <1>2, ConfigAssumption DEF InitStages, Typed
    <2> QED
      BY <1>2, <2>1 DEF InitStages, Typed, queueVars, eventVars
  <1>3. ASSUME InitStagesFails PROVE Typed'
    <2>1. mStageNames' \in Seq(Names) /\ 0 \in 0..ThreadPools
      BY <1>3, ConfigAssumption DEF InitStagesFails, Typed
    <2> QED
      BY <1>3, <2>1 DEF InitStagesFails, Typed, stageVars, queueVars, eventVars
  <1>4. ASSUME GenNextStages PROVE Typed'
    <2>1. \A n \in Names : NextStages[n] \in Seq(Names)
                             /\ NextStages[n] \o NextStages[n] \in Seq(Names)
      BY ConfigAssumption
    <2>2. nextStageList' \in [Names -> Seq(Names)]
      BY <1>4, <2>1 DEF GenNextStages
    <2> QED
      BY <1>4, <2>2 DEF GenNextStages, Typed, buildVars, queueVars, eventVars
  <1> QED
    BY <1>1, <1>2, <1>3, <1>4

LEMMA TypeStart ==
    ASSUME Typed
    PROVE  /\ \A n \in Names : (\/ StartStage(n) \/ StartFails(n) \/ Disconnect(n)
                                \/ Disconnected(n) \/ Drained(n)) => Typed'
           /\ Started \/ Cleanup \/ AllDisconnected => Typed'
           /\ ClearConfig => Typed'
  <1>1. ASSUME NEW n \in Names, StartStage(n) PROVE Typed'
    BY <1>1 DEF StartStage, Typed, buildVars, queueVars, eventVars, controlVars
  <1>2. ASSUME NEW n \in Names, StartFails(n) \/ Disconnect(n) PROVE Typed'
    BY <1>2 DEF StartFails, Disconnect, AfterFailedStart, Typed, buildVars, stageVars,
                queueVars, eventVars, controlVars
  <1>3. ASSUME NEW n \in Names, Disconnected(n) PROVE Typed'
    <2>1. nextStageList' \in [Names -> Seq(Names)]
      BY <1>3 DEF Disconnected, Typed
    <2> QED
      BY <1>3, <2>1 DEF Disconnected, Typed, buildVars, queueVars, eventVars
  <1>4. ASSUME NEW n \in Names, Drained(n) PROVE Typed'
    BY <1>4 DEF Drained, AfterDisconnect, Typed, buildVars, queueVars, eventVars
  <1>5. ASSUME Started \/ Cleanup \/ AllDisconnected PROVE Typed'
    BY <1>5 DEF Started, Cleanup, AllDisconnected, Typed, buildVars, stageVars,
                queueVars, eventVars
  <1>6. ASSUME ClearConfig PROVE Typed'
    <2>1. 0 \in 0..ThreadPools /\ eventList' \in [Names -> Seq(Events)]
      BY <1>6, ConfigAssumption DEF ClearConfig
    <2>2. fate' \in [Events -> {"new", "alive", "done", "deleted"}]
      BY <1>6 DEF ClearConfig, Typed
    <2> QED
      BY <1>6, <2>1, <2>2 DEF ClearConfig, Typed
  <1> QED
    BY <1>1, <1>2, <1>3, <1>4, <1>5, <1>6

(* What an event's step leaves to be typed.                                *)
LEMMA TypeEvents ==
    ASSUME Typed, UNCHANGED ConfigVars,
           eventList' \in [Names -> Seq(Events)], eventRef' \in [Names -> Nat],
           eventStore' \in [Names -> Seq(Events)], handling' \subseteq Names \X Events,
           callbacks' \in [Events -> Seq(Names)], returning' \subseteq Events,
           fate' \in [Events -> {"new", "alive", "done", "deleted"}],
           late' \subseteq Events
    PROVE  Typed'
  BY DEF Typed, ConfigVars, buildVars, stageVars, controlVars

LEMMA DoneTyped ==
    ASSUME Typed, NEW e \in Events, Done(e)
    PROVE  /\ returning' \subseteq Events /\ late' \subseteq Events
           /\ fate' \in [Events -> {"new", "alive", "done", "deleted"}]
  BY DEF Typed, Done, Late

LEMMA TypeInject ==
    ASSUME Typed, NEW n \in Names, NEW e \in Events, Inject(e, n)
    PROVE  Typed'
  <1>1. eventList' \in [Names -> Seq(Events)] /\ eventRef' \in [Names -> Nat]
    BY AddedTyped DEF Inject
  <1>2. late' \subseteq Events
    BY DEF Inject, Late, Typed
  <1>3. fate' \in [Events -> {"new", "alive", "done", "deleted"}]
    BY DEF Inject, Typed
  <1>4. /\ UNCHANGED ConfigVars
        /\ UNCHANGED <<eventStore, handling, callbacks, returning>>
    BY DEF Inject, ConfigVars
  <1> QED
    BY <1>1, <1>2, <1>3, <1>4, TypeEvents DEF Typed

LEMMA TypeTake ==
    ASSUME Typed, NEW n \in Names, Take(n)
    PROVE  Typed'
  <1>1. Head(eventList[n]) \in Events /\ Tail(eventList[n]) \in Seq(Events)
    BY TailIn DEF Take, Typed
  <1>2. /\ handling' \subseteq Names \X Events
        /\ eventList' \in [Names -> Seq(Events)]
    BY <1>1 DEF Take, Typed
  <1>3. /\ UNCHANGED ConfigVars
        /\ UNCHANGED <<eventRef, eventStore, eventVars, late>>
    BY DEF Take, ConfigVars
  <1> QED
    BY <1>2, <1>3, TypeEvents DEF Typed, eventVars

LEMMA TypePassOn ==
    ASSUME Typed, NEW n \in Names, NEW e \in Events, NEW T, PassOn(n, e, T),
           eventRef[n] > 0
    PROVE  /\ eventList' \in [Names -> Seq(Events)] /\ eventRef' \in [Names -> Nat]
           /\ handling' \subseteq Names \X Events
  BY AddedTyped, ReleasedTyped DEF PassOn, Typed

LEMMA TypeHandler ==
    ASSUME Typed, Counted, ReturnsSomewhere, NEW n \in Names, NEW e \in Events,
           HandlerStep(n, e)
    PROVE  Typed'
  <1>1. <<n, e>> \in handling
    BY DEF HandlerStep, Complete, Forward, Store, RunCallback, Handles
  <1>2. eventRef[n] > 0
    BY <1>1, HandledRef
  <1>3. CASE Complete(n, e)
    <2>1. /\ PassOn(n, e, Target(e)) /\ Done(e)
          /\ UNCHANGED ConfigVars /\ UNCHANGED <<eventStore, callbacks>>
      BY <1>3 DEF Complete, ConfigVars
    <2> QED
      BY <1>2, <2>1, TypePassOn, DoneTyped, TypeEvents DEF Typed
  <1>4. CASE Store(n, e)
    <2>1. PassOn(n, e, {}) /\ UNCHANGED ConfigVars /\ UNCHANGED <<eventVars, late>>
      BY <1>4 DEF Store, ConfigVars
    <2>2. eventStore' \in [Names -> Seq(Events)]
      BY <1>4 DEF Store, Typed
    <2> QED
      BY <1>2, <2>1, <2>2, TypePassOn, TypeEvents DEF Typed, eventVars
  <1>5. CASE RunCallback(n, e)
    <2>1. callbacks[e] \in Seq(Names) /\ callbacks[e] # <<>>
      BY <1>5 DEF RunCallback, ReturnsSomewhere, Typed
    <2>2. Tail(callbacks[e]) \in Seq(Names)
      BY <2>1, TailIn
    <2> DEFINE T == IF Tail(callbacks[e]) = <<>> THEN {} ELSE {Head(Tail(callbacks[e]))}
    <2>3. /\ PassOn(n, e, T) /\ UNCHANGED ConfigVars /\ UNCHANGED eventStore
          /\ callbacks' = [callbacks EXCEPT ![e] = Tail(callbacks[e])]
          /\ fate' = IF Tail(callbacks[e]) = <<>> THEN [fate EXCEPT ![e] = "done"]
                     ELSE fate
          /\ returning' \subseteq returning
          /\ late' \subseteq late \cup {e}
      BY <1>5 DEF RunCallback, ConfigVars, Late
    <2>4. /\ callbacks' \in [Events -> Seq(Names)]
          /\ fate' \in [Events -> {"new", "alive", "done", "deleted"}]
          /\ returning' \subseteq Events /\ late' \subseteq Events
      BY <2>2, <2>3 DEF Typed
    <2> QED
      BY <1>2, <2>3, <2>4, TypePassOn, TypeEvents DEF Typed
  <1>6. ASSUME NEW callback \in BOOLEAN, Forward(n, e, callback)
        PROVE  Typed'
    <2>1. /\ PassOn(n, e, {Head(nextStageList[n])}) /\ UNCHANGED ConfigVars
          /\ UNCHANGED <<eventStore, returning, fate>>
          /\ late' \subseteq late \cup {e}
      BY <1>6 DEF Forward, ConfigVars, Late, buildVars, stageVars, controlVars
    <2>2. /\ callbacks[e] \in Seq(Names) /\ <<n>> \o callbacks[e] \in Seq(Names)
          /\ callbacks' = IF callback THEN [callbacks EXCEPT ![e] = <<n>> \o callbacks[e]]
                          ELSE callbacks
      BY <1>6 DEF Forward, Typed
    <2>3. callbacks' \in [Events -> Seq(Names)] /\ late' \subseteq Events
      BY <2>1, <2>2 DEF Typed
    <2> QED
      BY <1>2, <2>1, <2>3, TypePassOn, TypeEvents DEF Typed
  <1> QED
    BY <1>3, <1>4, <1>5, <1>6 DEF HandlerStep

(* The steps that take the oldest event of a store.                        *)
LEMMA DrainMoves ==
    ASSUME Typed, NEW n \in Names, DrainStore(n), NEW e, e = Head(eventStore[n])
    PROVE  /\ e \in Events /\ pc = "drain" /\ mStages[n] = "stopping"
           /\ eventStore[n] # <<>>
           /\ eventStore' = [eventStore EXCEPT ![n] = Tail(eventStore[n])]
           /\ Done(e) /\ eventList' = Added(e, Target(e))
           /\ eventRef' = Scheduled(Target(e))
           /\ UNCHANGED callbacks /\ UNCHANGED ConfigVars /\ UNCHANGED handling
  <1>1. eventStore[n] # <<>> /\ Stored(n) = {e} /\ e \in Events
    BY StoredHead DEF DrainStore
  <1> QED
    BY <1>1 DEF DrainStore, ConfigVars, Stopping

Sends(n, e) ==
    /\ eventStore' = [eventStore EXCEPT ![n] = Tail(eventStore[n])]
    /\ eventList' = Added(e, {Head(nextStageList[n])})
    /\ eventRef' = Scheduled({Head(nextStageList[n])})
    /\ Late(e, {Head(nextStageList[n])})
    /\ UNCHANGED eventVars
KeepsOn(n, e) ==
    /\ eventStore' = [eventStore EXCEPT ![n] = Append(Tail(eventStore[n]), e)]
    /\ UNCHANGED <<queueVars, eventVars, late>>
Disposes(n, e) ==
    /\ eventStore' = [eventStore EXCEPT ![n] = Tail(eventStore[n])]
    /\ Done(e) /\ eventList' = Added(e, Target(e)) /\ eventRef' = Scheduled(Target(e))
    /\ UNCHANGED callbacks

LEMMA WakeupMoves ==
    ASSUME Typed, NEW n \in Names, Wakeup(n), NEW e, e = Head(eventStore[n])
    PROVE  /\ e \in Events /\ eventStore[n] # <<>>
           /\ pc # "drain" \/ mStages[n] # "stopping"
           /\ Tail(eventStore[n]) \in Seq(Events)
           /\ Sends(n, e) \/ KeepsOn(n, e) \/ Disposes(n, e)
           /\ UNCHANGED ConfigVars /\ UNCHANGED handling
  <1>1. eventStore[n] # <<>> /\ e \in Events /\ Tail(eventStore[n]) \in Seq(Events)
    BY StoredHead DEF Wakeup
  <1>2. \A s : [[eventStore EXCEPT ![n] = Tail(eventStore[n])] EXCEPT ![n] = s]
                 = [eventStore EXCEPT ![n] = s]
    BY DEF Typed
  <1>3. [eventStore EXCEPT ![n] = Tail(eventStore[n])][n] = Tail(eventStore[n])
    BY DEF Typed
  <1> QED
    BY <1>1, <1>2, <1>3 DEF Wakeup, Sends, KeepsOn, Disposes, ConfigVars, Stopping

LEMMA TypeStores ==
    ASSUME Typed, NEW n \in Names, DrainStore(n) \/ Wakeup(n)
    PROVE  Typed'
  <1> DEFINE e == Head(eventStore[n])
  <1>1. /\ e \in Events /\ Tail(eventStore[n]) \in Seq(Events)
        /\ UNCHANGED ConfigVars /\ UNCHANGED handling
        /\ Append(Tail(eventStore[n]), e) \in Seq(Events)
    BY DrainMoves, WakeupMoves, StoredHead, AppendIn DEF DrainStore, Wakeup
  <1>2. CASE Disposes(n, e)
    <2>1. /\ eventList' = Added(e, Target(e)) /\ eventRef' = Scheduled(Target(e))
          /\ eventStore' = [eventStore EXCEPT ![n] = Tail(eventStore[n])]
          /\ UNCHANGED callbacks /\ Done(e)
      BY <1>2 DEF Disposes
    <2>2. eventList' \in [Names -> Seq(Events)] /\ eventRef' \in [Names -> Nat]
      BY <1>1, <2>1, AddedTyped
    <2>3. eventStore' \in [Names -> Seq(Events)]
      BY <1>1, <2>1 DEF Typed
    <2> QED
      BY <1>1, <2>1, <2>2, <2>3, DoneTyped, TypeEvents DEF Typed
  <1>3. CASE Sends(n, e)
    <2>1. eventList' \in [Names -> Seq(Events)] /\ eventRef' \in [Names -> Nat]
      BY <1>1, <1>3, AddedTyped DEF Sends
    <2>2. eventStore' \in [Names -> Seq(Events)] /\ UNCHANGED eventVars
      BY <1>1, <1>3 DEF Sends, Typed
    <2>3. late' \subseteq Events
      BY <1>1, <1>3 DEF Sends, Typed, Late
    <2> QED
      BY <1>1, <2>1, <2>2, <2>3, TypeEvents DEF Typed, eventVars
  <1>4. CASE KeepsOn(n, e)
    <2>1. eventStore' \in [Names -> Seq(Events)]
      BY <1>1, <1>4 DEF KeepsOn, Typed
    <2> QED
      BY <1>1, <1>4, <2>1, TypeEvents DEF KeepsOn, Typed, eventVars, queueVars
  <1>5. Disposes(n, e) \/ Sends(n, e) \/ KeepsOn(n, e)
    <2>1. DrainStore(n) => Disposes(n, e)
      BY DrainMoves DEF Disposes
    <2> QED
      BY <2>1, WakeupMoves
  <1> QED
    BY <1>2, <1>3, <1>4, <1>5

LEMMA TypeNext ==
    ASSUME Typed, Counted, ReturnsSomewhere, [Next]_vars
    PROVE  Typed'
  <1>1. CASE UNCHANGED vars
    BY <1>1 DEF vars, Typed, buildVars, stageVars, queueVars, eventVars, controlVars
  <1>2. CASE ConfigStep
    <2>1. CASE InitStages \/ InitStagesFails \/ GenNextStages
      BY <2>1, TypeBuild
    <2>2. CASE Started \/ AllDisconnected \/ ClearConfig
      BY <2>2, TypeStart
    <2>3. CASE \E n \in Names : \/ StartStage(n) \/ StartFails(n) \/ Disconnect(n)
                              \/ Disconnected(n) \/ Drained(n)
      BY <2>3, TypeStart
    <2>4. CASE \E n \in Names : DrainStore(n)
      BY <2>4, TypeStores
    <2> QED
      BY <1>2, <2>1, <2>2, <2>3, <2>4 DEF ConfigStep
  <1>3. CASE Cleanup \/ \E made \in 0..ThreadPools : InitThreadPool(made)
    BY <1>3, TypeBuild, TypeStart
  <1>4. CASE \E n \in Names : Take(n) \/ Wakeup(n)
    BY <1>4, TypeTake, TypeStores
  <1>5. CASE \E n \in Names, e \in Events : Inject(e, n) \/ HandlerStep(n, e)
    BY <1>5, TypeInject, TypeHandler
  <1> QED
    BY <1>1, <1>2, <1>3, <1>4, <1>5 DEF Next, AtRest

-----------------------------------------------------------------------------
(* The steps of the configuration's thread, and those of the events.       *)
BuildStep ==
    \/ \E made \in 0..ThreadPools : InitThreadPool(made)
    \/ InitStages \/ InitStagesFails \/ GenNextStages
    \/ \E n \in Names : \/ StartStage(n) \/ StartFails(n) \/ Disconnect(n)
                        \/ Disconnected(n) \/ Drained(n)
    \/ Started \/ Cleanup \/ AllDisconnected \/ ClearConfig

EventStep ==
    \/ \E n \in Names : Take(n) \/ Wakeup(n) \/ DrainStore(n)
    \/ \E n \in Names, e \in Events : Inject(e, n) \/ HandlerStep(n, e)

LEMMA StepKinds ==
    ASSUME [Next]_vars
    PROVE  BuildStep \/ EventStep \/ UNCHANGED vars
  BY DEF Next, ConfigStep, BuildStep, EventStep, AtRest

LEMMA BuildFrame ==
    ASSUME BuildStep
    PROVE  UNCHANGED <<eventStore, handling, callbacks, returning, late>>
  BY DEF BuildStep, InitThreadPool, InitStages, InitStagesFails, GenNextStages,
         StartStage, StartFails, Disconnect, Disconnected, Drained, Started, Cleanup,
         AllDisconnected, ClearConfig, eventVars

LEMMA HandlerFrame ==
    ASSUME NEW n \in Names, NEW e \in Events, HandlerStep(n, e)
    PROVE  /\ <<n, e>> \in handling
           /\ UNCHANGED ConfigVars
           /\ \E T : PassOn(n, e, T)
  <1>1. <<n, e>> \in handling
    BY DEF HandlerStep, Complete, Forward, Store, RunCallback, Handles
  <1>2. UNCHANGED ConfigVars
    BY DEF HandlerStep, Complete, Forward, Store, RunCallback, ConfigVars
  <1>3. CASE Complete(n, e)
    <2>1. PassOn(n, e, Target(e))
      BY <1>3 DEF Complete
    <2> QED
      BY <1>1, <1>2, <2>1
  <1>4. CASE Store(n, e)
    <2>1. PassOn(n, e, {})
      BY <1>4 DEF Store
    <2> QED
      BY <1>1, <1>2, <2>1
  <1>5. CASE RunCallback(n, e)
    <2>1. PassOn(n, e, IF Tail(callbacks[e]) = <<>> THEN {}
                       ELSE {Head(Tail(callbacks[e]))})
      BY <1>5 DEF RunCallback
    <2> QED
      BY <1>1, <1>2, <2>1
  <1>6. ASSUME NEW callback \in BOOLEAN, Forward(n, e, callback)
        PROVE  PassOn(n, e, {Head(nextStageList[n])})
    BY <1>6 DEF Forward
  <1> QED
    BY <1>1, <1>2, <1>3, <1>4, <1>5, <1>6 DEF HandlerStep

LEMMA EventFrame ==
    ASSUME EventStep, Typed
    PROVE  UNCHANGED ConfigVars
  BY HandlerFrame, DrainMoves, WakeupMoves DEF EventStep, Take, Inject, ConfigVars

(* A stage that is not connected is not scheduled.                         *)
LEMMA RefFrame ==
    ASSUME EventStep, Typed, Counted, NEW m \in Names, mStages[m] # "connected",
           eventRef[m] = 0
    PROVE  eventRef'[m] = 0
  <1>1. \A e \in Events : \A T : Scheduled(T)[m] = 0
    BY AddedTyped
  <1>2. ASSUME NEW n \in Names, DrainStore(n) \/ Wakeup(n)
        PROVE  eventRef'[m] = 0
    <2> DEFINE e == Head(eventStore[n])
    <2>1. e \in Events
      BY <1>2, DrainMoves, WakeupMoves
    <2>2. eventRef' = eventRef \/ \E T : eventRef' = Scheduled(T)
      BY <1>2, DrainMoves, WakeupMoves DEF Sends, KeepsOn, Disposes, queueVars
    <2> QED
      BY <1>1, <2>1, <2>2
  <1>3. ASSUME NEW n \in Names, NEW e \in Events, HandlerStep(n, e)
        PROVE  eventRef'[m] = 0
    <2>1. PICK T : PassOn(n, e, T)
      BY <1>3, HandlerFrame
    <2>2. <<n, e>> \in handling /\ eventRef[n] > 0
      BY <1>3, HandlerFrame, HandledRef
    <2>3. m # n
      BY <2>2
    <2>4. eventRef'[m] = Scheduled(T)[m]
      BY <2>1, <2>2, <2>3, ReleasedTyped DEF PassOn
    <2> QED
      BY <1>1, <2>4
  <1>4. ASSUME NEW n \in Names, Take(n)
        PROVE  eventRef'[m] = 0
    BY <1>4 DEF Take
  <1>5. ASSUME NEW n \in Names, NEW e \in Events, Inject(e, n)
        PROVE  eventRef'[m] = 0
    BY <1>1, <1>5 DEF Inject
  <1> QED
    BY <1>2, <1>3, <1>4, <1>5 DEF EventStep

LEMMA StoreFrame ==
    ASSUME EventStep, Typed, Counted, NEW m \in Names, eventStore'[m] # <<>>
    PROVE  eventStore[m] # <<>> \/ (m \in Dispatchers /\ eventRef[m] > 0)
  <1>1. ASSUME NEW n \in Names, DrainStore(n) \/ Wakeup(n)
        PROVE  eventStore[m] # <<>>
    <2>1. eventStore[n] # <<>> /\ \E s : eventStore' = [eventStore EXCEPT ![n] = s]
      BY <1>1, DrainMoves, WakeupMoves DEF Sends, KeepsOn, Disposes
    <2>2. m # n => eventStore'[m] = eventStore[m]
      BY <2>1 DEF Typed
    <2> QED
      BY <2>1, <2>2
  <1>2. ASSUME NEW n \in Names, NEW e \in Events, HandlerStep(n, e)
        PROVE  eventStore[m] # <<>> \/ (m \in Dispatchers /\ eventRef[m] > 0)
    <2>1. <<n, e>> \in handling /\ eventRef[n] > 0
      BY <1>2, HandlerFrame, HandledRef
    <2>2. eventStore' = eventStore
            \/ (n \in Dispatchers /\ eventStore' = [eventStore EXCEPT ![n] = Append(@, e)])
      BY <1>2 DEF HandlerStep, Complete, Forward, Store, RunCallback
    <2>3. m # n => eventStore'[m] = eventStore[m]
      BY <2>2 DEF Typed
    <2> QED
      BY <2>1, <2>2, <2>3
  <1>3. ASSUME NEW n \in Names, NEW e \in Events, Take(n) \/ Inject(e, n)
        PROVE  eventStore[m] # <<>>
    BY <1>3 DEF Take, Inject
  <1>4. ASSUME NEW n \in Names, Take(n)
        PROVE  eventStore[m] # <<>>
    BY <1>4 DEF Take
  <1> QED
    BY <1>1, <1>2, <1>3, <1>4 DEF EventStep

-----------------------------------------------------------------------------
(* The phases of the configuration.                                        *)
LEMMA ListedName ==
    ASSUME Typed, NEW n \in Names, ~In(mStageNames, n)
    PROVE  Listed(n) = 0
  <1>1. {i \in DOMAIN mStageNames : mStageNames[i] = n} = {}
    BY DEF In
  <1> QED
    BY <1>1, FS_EmptySet DEF Listed

LEMMA NamesNext ==
    ASSUME Typed, NamesListed, [Next]_vars
    PROVE  NamesListed'
  <1>1. CASE mStageNames' = mStageNames
    BY <1>1 DEF NamesListed
  <1>2. CASE mStageNames' = mStageNames \o STAGES
    <2>1. mStageNames \in Seq(Names) /\ STAGES \in Seq(Names)
      BY ConfigAssumption DEF Typed
    <2>2. ASSUME NEW n \in Names, NEW i \in DOMAIN (mStageNames \o STAGES),
                 (mStageNames \o STAGES)[i] = n
          PROVE  n \in Listing
      <3>1. /\ i \in 1..Len(mStageNames) + Len(STAGES)
            /\ Len(mStageNames) \in Nat /\ Len(STAGES) \in Nat
        BY <2>1
      <3>2. CASE i <= Len(mStageNames)
        <4>1. i \in DOMAIN mStageNames /\ mStageNames[i] = n
          BY <2>1, <2>2, <3>1, <3>2
        <4> QED
          BY <4>1 DEF In, NamesListed
      <3>3. CASE i > Len(mStageNames)
        <4>1. /\ i - Len(mStageNames) \in DOMAIN STAGES
              /\ STAGES[i - Len(mStageNames)] = n
          BY <2>1, <2>2, <3>1, <3>3
        <4> QED
          BY <4>1 DEF In, Listing
      <3> QED
        BY <3>1, <3>2, <3>3
    <2> QED
      BY <1>2, <2>2 DEF NamesListed, In
  <1>3. EventStep => mStageNames' = mStageNames
    BY EventFrame DEF ConfigVars, buildVars
  <1>4. BuildStep => mStageNames' = mStageNames \/ mStageNames' = mStageNames \o STAGES
    BY DEF BuildStep, InitThreadPool, InitStages, InitStagesFails, GenNextStages,
           StartStage, StartFails, Disconnect, Disconnected, Drained, Started,
           Cleanup, AllDisconnected, ClearConfig, buildVars
  <1>5. UNCHANGED vars => mStageNames' = mStageNames
    BY DEF vars, buildVars
  <1> QED
    BY <1>1, <1>2, <1>3, <1>4, <1>5, StepKinds

LEMMA NextListedNext ==
    ASSUME Typed, NamesListed, NextListed, [Next]_vars
    PROVE  NextListed'
  <1>1. CASE nextStageList' = nextStageList
    BY <1>1 DEF NextListed
  <1>2. CASE GenNextStages
    <2>1. ASSUME NEW n \in Names, Listed(n) # 0
          PROVE  \A j \in DOMAIN NextStages[n] : NextStages[n][j] \in Listing
      <3>1. n \in Listing
        BY <2>1, ListedName DEF NamesListed
      <3>2. NextStages[n] \in Seq(Names)
        BY ConfigAssumption
      <3> QED
        BY <3>1, <3>2, ConfigAssumption DEF Listing, In
    <2>2. ASSUME NEW n \in Names,
                 \A j \in DOMAIN NextStages[n] : NextStages[n][j] \in Listing,
                 NEW j \in DOMAIN (NextStages[n] \o NextStages[n])
          PROVE  (NextStages[n] \o NextStages[n])[j] \in Listing
      <3>1. NextStages[n] \in Seq(Names)
        BY ConfigAssumption
      <3>2. /\ j \in 1..Len(NextStages[n]) + Len(NextStages[n])
            /\ Len(NextStages[n]) \in Nat
        BY <3>1
      <3>3. CASE j <= Len(NextStages[n])
        BY <2>2, <3>1, <3>2, <3>3
      <3>4. CASE j > Len(NextStages[n])
        <4>1. /\ j - Len(NextStages[n]) \in DOMAIN NextStages[n]
              /\ (NextStages[n] \o NextStages[n])[j] = NextStages[n][j - Len(NextStages[n])]
          BY <3>1, <3>2, <3>4
        <4> QED
          BY <2>2, <4>1
      <3> QED
        BY <3>2, <3>3, <3>4
    <2> SUFFICES ASSUME NEW n \in Names, NEW j \in DOMAIN nextStageList'[n]
                 PROVE  nextStageList'[n][j] \in Listing
      BY DEF NextListed, Listing
    <2>3. nextStageList'[n] = IF Listed(n) = 0 THEN <<>>
                              ELSE IF Listed(n) = 1 THEN NextStages[n]
                              ELSE NextStages[n] \o NextStages[n]
      BY <1>2 DEF GenNextStages
    <2>4. CASE Listed(n) = 0
      BY <2>3, <2>4
    <2>5. CASE Listed(n) # 0
      BY <2>1, <2>2, <2>3, <2>5
    <2> QED
      BY <2>4, <2>5
  <1>3. ASSUME NEW n \in Names, Disconnected(n) PROVE NextListed'
    BY <1>3 DEF Disconnected, NextListed, Typed
  <1>4. EventStep => nextStageList' = nextStageList
    BY EventFrame DEF ConfigVars, stageVars
  <1>5. BuildStep => \/ nextStageList' = nextStageList \/ GenNextStages
                     \/ \E n \in Names : Disconnected(n)
    BY DEF BuildStep, InitThreadPool, InitStages, InitStagesFails,
           StartStage, StartFails, Disconnect, Drained, Started,
           Cleanup, AllDisconnected, ClearConfig, stageVars
  <1>6. UNCHANGED vars => nextStageList' = nextStageList
    BY DEF vars, stageVars
  <1> QED
    BY <1>1, <1>2, <1>3, <1>4, <1>5, <1>6, StepKinds

LEMMA ListingGrown ==
    ASSUME Typed, NamesListed, NEW n \in Names
    PROVE  In(mStageNames \o STAGES, n) <=> n \in Listing
  <1>1. mStageNames \in Seq(Names) /\ STAGES \in Seq(Names)
    BY ConfigAssumption DEF Typed
  <1>2. /\ DOMAIN (mStageNames \o STAGES) = 1..Len(mStageNames) + Len(STAGES)
        /\ Len(mStageNames) \in Nat /\ Len(STAGES) \in Nat
        /\ DOMAIN STAGES = 1..Len(STAGES)
        /\ \A i \in 1..Len(mStageNames) : (mStageNames \o STAGES)[i] = mStageNames[i]
        /\ \A i \in 1..Len(STAGES) :
             (mStageNames \o STAGES)[Len(mStageNames) + i] = STAGES[i]
    BY <1>1
  <1>3. ASSUME NEW i \in DOMAIN (mStageNames \o STAGES), (mStageNames \o STAGES)[i] = n
        PROVE  n \in Listing
    <2>1. CASE i <= Len(mStageNames)
      <3>1. i \in DOMAIN mStageNames /\ mStageNames[i] = n
        BY <1>1, <1>2, <1>3, <2>1
      <3> QED
        BY <3>1 DEF In, NamesListed
    <2>2. CASE i > Len(mStageNames)
      <3>1. /\ i - Len(mStageNames) \in 1..Len(STAGES)
            /\ Len(mStageNames) + (i - Len(mStageNames)) = i
        BY <1>2, <2>2
      <3>2. STAGES[i - Len(mStageNames)] = n
        BY <1>2, <1>3, <3>1
      <3> QED
        BY <1>2, <3>1, <3>2 DEF In, Listing
    <2> QED
      BY <1>2, <2>1, <2>2
  <1>4. ASSUME NEW i \in DOMAIN STAGES, STAGES[i] = n
        PROVE  In(mStageNames \o STAGES, n)
    <2>1. Len(mStageNames) + i \in DOMAIN (mStageNames \o STAGES)
      BY <1>2
    <2> QED
      BY <1>2, <1>4, <2>1 DEF In
  <1> QED
    BY <1>3, <1>4 DEF In, Listing

LEMMA ExistingNext ==
    ASSUME Typed, NamesListed, Existing, Phases, [Next]_vars
    PROVE  Existing'
  <1>1. CASE mStages' = mStages
    BY <1>1 DEF Existing, Listing
  <1>2. CASE InitStages
    <2>1. \A n \in Names : mStages'[n] = IF In(mStageNames \o STAGES, n) THEN "made"
                                         ELSE "none"
      BY <1>2 DEF InitStages, In
    <2>2. \A n \in Names : mStages'[n] # "none" <=> n \in Listing
      BY <2>1, ListingGrown
    <2> QED
      BY <2>2 DEF Existing
  <1>3. ASSUME NEW n \in Names, NEW state, mStages' = [mStages EXCEPT ![n] = state],
               state # "none", mStages[n] # "none"
        PROVE  Existing'
    <2>1. \A m \in Names : mStages'[m] # "none" <=> mStages[m] # "none"
      BY <1>3 DEF Typed
    <2> QED
      BY <1>3, <2>1 DEF Existing
  <1>4. CASE ClearConfig
    BY <1>4 DEF ClearConfig, Existing
  <1>5. EventStep => mStages' = mStages
    BY EventFrame DEF ConfigVars, stageVars
  <1>6. BuildStep => \/ mStages' = mStages \/ InitStages \/ ClearConfig
                     \/ \E n \in Names : StartStage(n) \/ Disconnect(n) \/ Drained(n)
    BY DEF BuildStep, InitThreadPool, InitStagesFails, GenNextStages, StartFails,
           Disconnected, Started, Cleanup, AllDisconnected, stageVars
  <1>7. ASSUME NEW n \in Names, StartStage(n) \/ Disconnect(n) \/ Drained(n)
        PROVE  Existing'
    <2>1. mStages[n] \in {"made", "connected", "stopping"}
      BY <1>7 DEF StartStage, Disconnect, Drained, FirstWith, Unconnected, Connected,
                  Stopping
    <2>2. \E state \in {"connected", "stopping", "stopped"} :
             mStages' = [mStages EXCEPT ![n] = state]
      BY <1>7 DEF StartStage, Disconnect, Drained, AfterDisconnect
    <2> QED
      BY <1>3, <2>1, <2>2
  <1>8. UNCHANGED vars => mStages' = mStages
    BY DEF vars, stageVars
  <1> QED
    BY <1>1, <1>2, <1>4, <1>5, <1>6, <1>7, <1>8, StepKinds

LEMMA PhasesNext ==
    ASSUME Typed, Phases, [Next]_vars
    PROVE  Phases'
  <1> USE DEF StatesIn
  <1>1. CASE UNCHANGED ConfigVars
    BY <1>1 DEF ConfigVars, buildVars, stageVars, controlVars, Phases, Stopping
  <1>2. ASSUME NEW made \in 0..ThreadPools, InitThreadPool(made) PROVE Phases'
    BY <1>2 DEF InitThreadPool, Phases, Stopping, stageVars
  <1>3. CASE InitStages
    BY <1>3 DEF InitStages, Phases, Stopping
  <1>4. CASE InitStagesFails
    BY <1>4 DEF InitStagesFails, Phases, Stopping, stageVars
  <1>5. CASE GenNextStages
    BY <1>5 DEF GenNextStages, Phases, Stopping
  <1>6. ASSUME NEW n \in Names, StartStage(n) PROVE Phases'
    <2>1. pc = "start" /\ pc' = pc /\ mStages' = [mStages EXCEPT ![n] = "connected"]
      BY <1>6 DEF StartStage, controlVars
    <2>2. \A m \in Names : mStages'[m] \in {"none", "made", "connected"}
      BY <2>1 DEF Phases, Typed
    <2> QED
      BY <2>1, <2>2 DEF Phases, Stopping
  <1>7. ASSUME NEW n \in Names, StartFails(n) PROVE Phases'
    BY <1>7 DEF StartFails, AfterFailedStart, Phases, Stopping, stageVars
  <1>8. ASSUME NEW n \in Names, Disconnect(n) PROVE Phases'
    <2>1. /\ pc = "cleanup" /\ pc' = pc /\ Stopping = {}
          /\ mStages' = [mStages EXCEPT ![n] = "stopping"]
      BY <1>8 DEF Disconnect, controlVars
    <2>2. \A m \in Names : mStages'[m] \in StatesIn("cleanup")
      BY <2>1 DEF Typed
    <2>3. \A m \in Names : mStages'[m] = "stopping" => m = n
      BY <2>1 DEF Typed, Stopping
    <2> QED
      BY <2>1, <2>2, <2>3 DEF Phases, Stopping
  <1>9. ASSUME NEW n \in Names, Disconnected(n) PROVE Phases'
    BY <1>9 DEF Disconnected, Phases, Stopping
  <1>10. ASSUME NEW n \in Names, Drained(n) PROVE Phases'
    <2>1. /\ pc = "drain" /\ pc' = "cleanup"
          /\ mStages' = [mStages EXCEPT ![n] = "stopped"]
      BY <1>10 DEF Drained, AfterDisconnect
    <2>2. \A m \in Names : /\ mStages'[m] \in StatesIn("cleanup")
                           /\ mStages'[m] = "stopping" => mStages[m] = "stopping"
      BY <2>1 DEF Typed
    <2> QED
      BY <2>1, <2>2 DEF Phases, Stopping
  <1>11. CASE Started
    BY <1>11 DEF Started, Phases, Stopping, stageVars
  <1>12. CASE Cleanup
    BY <1>12 DEF Cleanup, Phases, Stopping, stageVars
  <1>13. CASE AllDisconnected
    <2>1. \A m \in Names : mStages[m] \in {"none", "made", "stopped"}
      BY <1>13 DEF AllDisconnected, Stopping, Connected, Typed
    <2> QED
      BY <1>13, <2>1 DEF AllDisconnected, Phases, Stopping, stageVars
  <1>14. CASE ClearConfig
    BY <1>14 DEF ClearConfig, Phases, Stopping
  <1>15. EventStep \/ UNCHANGED vars => UNCHANGED ConfigVars
    BY EventFrame DEF vars, ConfigVars
  <1> QED
    BY <1>1, <1>2, <1>3, <1>4, <1>5, <1>6, <1>7, <1>8, <1>9, <1>10, <1>11, <1>12,
       <1>13, <1>14, <1>15, StepKinds DEF BuildStep

(* A stage whose events are handled is connected or about to be stopped.   *)
LEMMA HandledStage ==
    ASSUME Typed, Counted, AtRestOutside, Existing, NEW n \in Names, NEW e \in Events,
           <<n, e>> \in handling
    PROVE  /\ mStages[n] \in {"connected", "stopping"} /\ n \in Listing
           /\ \A m \in Listing : mStages[m] # "none"
  <1>1. eventRef[n] > 0
    BY HandledRef
  <1>2. mStages[n] \in {"connected", "stopping"}
    BY <1>1 DEF AtRestOutside
  <1> QED
    BY <1>2 DEF Existing, Listing

LEMMA BackListedNext ==
    ASSUME Typed, Counted, AtRestOutside, Existing, ReturnsSomewhere, BackListed,
           [Next]_vars
    PROVE  BackListed'
  <1>1. CASE callbacks' = callbacks
    BY <1>1 DEF BackListed, Listing
  <1>2. ASSUME NEW n \in Names, NEW e \in Events, RunCallback(n, e) PROVE BackListed'
    <2>1. callbacks[e] \in Seq(Names) /\ callbacks[e] # <<>>
      BY <1>2 DEF RunCallback, ReturnsSomewhere, Typed
    <2>2. callbacks' = [callbacks EXCEPT ![e] = Tail(callbacks[e])]
      BY <1>2 DEF RunCallback
    <2>3. \A j \in DOMAIN Tail(callbacks[e]) : Tail(callbacks[e])[j] \in Listing
      BY <2>1, TailIn DEF BackListed
    <2> QED
      BY <2>2, <2>3 DEF BackListed, Typed
  <1>3. ASSUME NEW n \in Names, NEW e \in Events, Forward(n, e, TRUE) PROVE BackListed'
    <2>1. callbacks' = [callbacks EXCEPT ![e] = <<n>> \o callbacks[e]]
      BY <1>3 DEF Forward
    <2>2. n \in Listing
      BY <1>3, HandledStage DEF Forward, Handles
    <2>3. callbacks[e] \in Seq(Names)
      BY DEF Typed
    <2>4. \A j \in DOMAIN (<<n>> \o callbacks[e]) :
            (j = 1 /\ (<<n>> \o callbacks[e])[j] = n)
            \/ (j - 1 \in DOMAIN callbacks[e]
                /\ (<<n>> \o callbacks[e])[j] = callbacks[e][j - 1])
      BY <2>3
    <2>5. \A j \in DOMAIN (<<n>> \o callbacks[e]) : (<<n>> \o callbacks[e])[j] \in Listing
      BY <2>2, <2>4 DEF BackListed
    <2> QED
      BY <2>1, <2>5 DEF BackListed, Typed
  <1>4. ASSUME NEW n \in Names, NEW e \in Events, HandlerStep(n, e)
        PROVE  callbacks' = callbacks \/ RunCallback(n, e) \/ Forward(n, e, TRUE)
    BY <1>4 DEF HandlerStep, Complete, Store, Forward, eventVars
  <1>5. ASSUME NEW n \in Names, Take(n) \/ Wakeup(n) \/ DrainStore(n)
        PROVE  callbacks' = callbacks
    BY <1>5, DrainMoves, WakeupMoves DEF Take, Sends, KeepsOn, Disposes, eventVars
  <1>6. ASSUME NEW n \in Names, NEW e \in Events, Inject(e, n)
        PROVE  callbacks' = callbacks
    BY <1>6 DEF Inject
  <1>7. BuildStep \/ UNCHANGED vars => callbacks' = callbacks
    BY BuildFrame DEF vars, eventVars
  <1> QED
    BY <1>1, <1>2, <1>3, <1>4, <1>5, <1>6, <1>7, StepKinds DEF EventStep

LEMMA DoneReturns ==
    ASSUME Typed, ReturnsSomewhere, NEW e \in Events, Done(e), UNCHANGED callbacks
    PROVE  ReturnsSomewhere'
  BY DEF Done, ReturnsSomewhere

LEMMA ReturnsNext ==
    ASSUME Typed, ReturnsSomewhere, [Next]_vars
    PROVE  ReturnsSomewhere'
  <1>1. CASE UNCHANGED <<callbacks, returning>>
    BY <1>1 DEF ReturnsSomewhere
  <1>2. ASSUME NEW n \in Names, NEW e \in Events, RunCallback(n, e)
        PROVE  ReturnsSomewhere'
    <2>1. /\ callbacks' = [callbacks EXCEPT ![e] = Tail(callbacks[e])]
          /\ returning' = IF Tail(callbacks[e]) = <<>> THEN returning \ {e}
                          ELSE returning
      BY <1>2 DEF RunCallback
    <2> QED
      BY <2>1 DEF ReturnsSomewhere, Typed
  <1>3. ASSUME NEW n \in Names, NEW e \in Events, NEW callback \in BOOLEAN,
               Forward(n, e, callback)
        PROVE  ReturnsSomewhere'
    <2>1. callbacks[e] \in Seq(Names)
      BY DEF Typed
    <2>2. <<n>> \o callbacks[e] # <<>>
      BY <2>1
    <2>3. /\ callbacks' = [callbacks EXCEPT ![e] = <<n>> \o callbacks[e]]
               \/ callbacks' = callbacks
          /\ returning' = returning
      BY <1>3 DEF Forward
    <2> QED
      BY <2>2, <2>3 DEF ReturnsSomewhere, Typed
  <1>4. ASSUME NEW n \in Names, NEW e \in Events, Complete(n, e)
        PROVE  ReturnsSomewhere'
    BY <1>4, DoneReturns DEF Complete
  <1>5. ASSUME NEW n \in Names, Wakeup(n) \/ DrainStore(n)
        PROVE  ReturnsSomewhere'
    <2> DEFINE e == Head(eventStore[n])
    <2>1. e \in Events
      BY <1>5, DrainMoves, WakeupMoves
    <2>2. UNCHANGED <<callbacks, returning>> \/ (Done(e) /\ UNCHANGED callbacks)
      BY <1>5, DrainMoves, WakeupMoves DEF Sends, KeepsOn, Disposes, eventVars
    <2> QED
      BY <1>1, <2>1, <2>2, DoneReturns
  <1>6. ASSUME NEW n \in Names, NEW e \in Events, Inject(e, n) \/ Store(n, e)
        PROVE  UNCHANGED <<callbacks, returning>>
    BY <1>6 DEF Inject, Store, eventVars
  <1>7. ASSUME NEW n \in Names, Take(n)
        PROVE  UNCHANGED <<callbacks, returning>>
    BY <1>7 DEF Take, eventVars
  <1>8. BuildStep \/ UNCHANGED vars => UNCHANGED <<callbacks, returning>>
    BY BuildFrame DEF vars, eventVars
  <1> QED
    BY <1>1, <1>2, <1>3, <1>4, <1>5, <1>6, <1>7, <1>8, StepKinds
    DEF EventStep, HandlerStep

LEMMA AtRestNext ==
    ASSUME Typed, Counted, Phases, AtRestOutside, [Next]_vars
    PROVE  AtRestOutside'
  <1>2. ASSUME NEW n \in Names, StartStage(n) PROVE AtRestOutside'
    <2>1. /\ mStages' = [mStages EXCEPT ![n] = "connected"] /\ pc' = pc /\ pc = "start"
          /\ \A m \in Names \ {n} : eventRef'[m] = eventRef[m]
          /\ eventStore' = eventStore
      BY <1>2 DEF StartStage, controlVars, Typed
    <2>2. \A m \in Names \ {n} : mStages'[m] = mStages[m]
      BY <2>1 DEF Typed
    <2> QED
      BY <2>1, <2>2 DEF AtRestOutside, Typed
  <1>3. ASSUME NEW n \in Names, Disconnected(n) PROVE AtRestOutside'
    <2>1. /\ eventRef[n] = 0 /\ UNCHANGED <<mStages, eventRef, eventStore>>
          /\ n \in Stopping
      BY <1>3 DEF Disconnected, Quiet, queueVars
    <2>2. \A m \in Names : mStages[m] = "stopping" => m = n
      BY <2>1 DEF Phases, Stopping
    <2> QED
      BY <2>1, <2>2 DEF AtRestOutside
  <1>4. ASSUME NEW n \in Names, Drained(n) PROVE AtRestOutside'
    <2>1. /\ pc = "drain" /\ mStages[n] = "stopping" /\ eventStore[n] = <<>>
          /\ mStages' = [mStages EXCEPT ![n] = "stopped"] /\ pc' = "cleanup"
          /\ UNCHANGED <<eventRef, eventStore>>
      BY <1>4 DEF Drained, AfterDisconnect, Stopping, queueVars
    <2>2. eventRef[n] = 0
      BY <2>1 DEF AtRestOutside
    <2> QED
      BY <2>1, <2>2 DEF AtRestOutside, Typed
  <1>5. CASE ClearConfig
    <2>1. /\ \A n \in Names : mStages[n] \in {"none", "made", "stopped"}
          /\ \A n \in Names : mStages'[n] = "none"
          /\ UNCHANGED <<eventRef, eventStore>>
      BY <1>5 DEF ClearConfig, Phases, StatesIn
    <2> QED
      BY <2>1 DEF AtRestOutside
  <1>6. CASE InitStages
    <2>1. /\ \A n \in Names : mStages[n] = "none"
          /\ \A n \in Names : mStages'[n] \in {"none", "made"}
          /\ UNCHANGED <<eventRef, eventStore>>
      BY <1>6 DEF InitStages, Phases, StatesIn, queueVars
    <2> QED
      BY <2>1 DEF AtRestOutside
  <1>7. ASSUME NEW n \in Names, Disconnect(n) PROVE AtRestOutside'
    <2>1. /\ mStages' = [mStages EXCEPT ![n] = "stopping"] /\ pc' = "cleanup"
          /\ UNCHANGED <<eventRef, eventStore>>
      BY <1>7 DEF Disconnect, queueVars, controlVars
    <2> QED
      BY <2>1 DEF AtRestOutside, Typed
  <1>8. ASSUME \/ \E made \in 0..ThreadPools : InitThreadPool(made)
               \/ InitStagesFails \/ GenNextStages
               \/ Started \/ Cleanup \/ AllDisconnected
               \/ \E n \in Names : StartFails(n)
        PROVE  AtRestOutside'
    <2>1. UNCHANGED <<mStages, eventRef, eventStore>> /\ pc' # "drain"
      BY <1>8 DEF InitThreadPool, InitStagesFails, GenNextStages, Started, Cleanup,
                  AllDisconnected, StartFails, AfterFailedStart, stageVars, queueVars
    <2> QED
      BY <2>1 DEF AtRestOutside
  <1>9. CASE EventStep
    <2>1. UNCHANGED <<mStages, pc>>
      BY <1>9, EventFrame DEF ConfigVars, stageVars, controlVars
    <2>2. ASSUME NEW n \in Names, mStages[n] \notin {"connected", "stopping"}
          PROVE  eventRef'[n] = 0 /\ eventStore'[n] = <<>>
      <3>1. eventRef[n] = 0 /\ eventStore[n] = <<>>
        BY <2>2 DEF AtRestOutside
      <3>2. eventRef'[n] = 0
        BY <1>9, <2>2, <3>1, RefFrame
      <3> QED
        BY <1>9, <3>1, <3>2, StoreFrame
    <2>3. ASSUME NEW n \in Names, mStages[n] = "stopping", pc = "drain"
          PROVE  eventRef'[n] = 0
      BY <1>9, <2>3, RefFrame DEF AtRestOutside
    <2> QED
      BY <2>1, <2>2, <2>3 DEF AtRestOutside
  <1>10. CASE UNCHANGED vars
    BY <1>10 DEF AtRestOutside, vars, stageVars, queueVars, controlVars
  <1> QED
    BY <1>2, <1>3, <1>4, <1>5, <1>6, <1>7, <1>8, <1>9, <1>10, StepKinds DEF BuildStep

LEMMA DispatchersNext ==
    ASSUME Typed, Counted, Phases, DispatchersSend, [Next]_vars
    PROVE  DispatchersSend'
  <1>1. ASSUME NEW n \in Names, eventStore'[n] # <<>>
        PROVE  n \in Dispatchers
    <2>1. CASE eventStore[n] # <<>>
      BY <2>1 DEF DispatchersSend
    <2>2. CASE EventStep
      BY <1>1, <2>1, <2>2, StoreFrame
    <2>3. CASE BuildStep \/ UNCHANGED vars
      BY <1>1, <2>1, <2>3, BuildFrame DEF vars
    <2> QED
      BY <2>2, <2>3, StepKinds
  <1> SUFFICES ASSUME NEW n \in Dispatchers,
                      \/ mStages'[n] = "connected"
                      \/ mStages'[n] = "stopping" /\ pc' = "cleanup"
               PROVE  Len(nextStageList'[n]) = 1
    BY <1>1 DEF DispatchersSend
  <1>2. n \in Names
    BY ConfigAssumption
  <1>3. CASE UNCHANGED ConfigVars
    BY <1>3 DEF ConfigVars, stageVars, controlVars, DispatchersSend
  <1>4. ASSUME NEW m \in Names, StartStage(m)
        PROVE  Len(nextStageList'[n]) = 1
    <2>1. /\ mStages' = [mStages EXCEPT ![m] = "connected"]
          /\ nextStageList' = nextStageList /\ pc' = pc /\ Initializes(m)
      BY <1>4 DEF StartStage, controlVars
    <2>2. CASE n = m
      BY <2>1, <2>2 DEF Initializes
    <2>3. CASE n # m
      <3>1. mStages'[n] = mStages[n]
        BY <1>2, <2>1, <2>3 DEF Typed
      <3> QED
        BY <2>1, <3>1 DEF DispatchersSend
    <2> QED
      BY <2>2, <2>3
  <1>5. ASSUME NEW m \in Names, Disconnect(m)
        PROVE  Len(nextStageList'[n]) = 1
    <2>1. /\ mStages' = [mStages EXCEPT ![m] = "stopping"] /\ mStages[m] = "connected"
          /\ nextStageList' = nextStageList /\ pc' = pc
      BY <1>5 DEF Disconnect, controlVars, FirstWith, Connected
    <2>2. n = m \/ mStages'[n] = mStages[n]
      BY <1>2, <2>1 DEF Typed
    <2> QED
      BY <2>1, <2>2 DEF DispatchersSend
  <1>6. ASSUME NEW m \in Names, Disconnected(m)
        PROVE  Len(nextStageList'[n]) = 1
    <2>1. /\ m \in Stopping /\ pc' = "drain" /\ mStages' = mStages
          /\ nextStageList' = [nextStageList EXCEPT ![m] = <<>>]
      BY <1>6 DEF Disconnected
    <2>2. mStages[n] = "connected" /\ n # m
      BY <2>1 DEF Stopping
    <2>3. nextStageList'[n] = nextStageList[n]
      BY <1>2, <2>1, <2>2 DEF Typed
    <2> QED
      BY <2>2, <2>3 DEF DispatchersSend
  <1>7. ASSUME NEW m \in Names, Drained(m)
        PROVE  Len(nextStageList'[n]) = 1
    <2>1. /\ m \in Stopping /\ nextStageList' = nextStageList
          /\ mStages' = [mStages EXCEPT ![m] = "stopped"]
      BY <1>7 DEF Drained, AfterDisconnect
    <2>2. n # m /\ mStages'[n] = mStages[n]
      BY <1>2, <2>1 DEF Typed
    <2>3. mStages[n] # "stopping"
      BY <1>2, <2>1, <2>2 DEF Phases, Stopping
    <2> QED
      BY <2>1, <2>2, <2>3 DEF DispatchersSend
  <1>8. ASSUME \/ \E made \in 0..ThreadPools : InitThreadPool(made)
               \/ InitStages \/ InitStagesFails \/ GenNextStages
               \/ ClearConfig
        PROVE  FALSE
    <2>1. mStages'[n] \in {"none", "made"}
      BY <1>2, <1>8 DEF InitThreadPool, InitStages, InitStagesFails, GenNextStages,
                        ClearConfig, Phases, StatesIn, stageVars
    <2> QED
      BY <2>1
  <1>9. ASSUME \/ Started \/ Cleanup \/ AllDisconnected
               \/ \E m \in Names : StartFails(m)
        PROVE  Len(nextStageList'[n]) = 1
    <2>1. /\ UNCHANGED stageVars
          /\ pc \in {"start", "running", "failed"} \/ pc' # "cleanup"
      BY <1>9 DEF Started, Cleanup, AllDisconnected, StartFails
    <2>2. mStages[n] = "connected"
      BY <1>2, <2>1 DEF Phases, StatesIn, stageVars
    <2> QED
      BY <2>1, <2>2 DEF DispatchersSend, stageVars
  <1>10. EventStep \/ UNCHANGED vars => UNCHANGED ConfigVars
    BY EventFrame DEF vars, ConfigVars
  <1> QED
    BY <1>3, <1>4, <1>5, <1>6, <1>7, <1>8, <1>9, <1>10, StepKinds DEF BuildStep

LEMMA PhaseInit == Init => PhaseInv
  <1> SUFFICES ASSUME Init PROVE PhaseInv
    OBVIOUS
  <1>1. /\ mStageNames = <<>> /\ callbacks = [e \in Events |-> <<>>]
        /\ nextStageList = [n \in Names |-> <<>>] /\ mThreadPools = 0 /\ pc = "empty"
        /\ returning = {} /\ eventRef = [n \in Names |-> 0]
        /\ eventStore = [n \in Names |-> <<>>] /\ mStages = [n \in Names |-> "none"]
    BY DEF Init
  <1>2. NamesListed /\ NextListed /\ BackListed
    BY <1>1 DEF NamesListed, NextListed, BackListed, In
  <1>3. Existing /\ Phases
    BY <1>1 DEF Existing, Phases, StatesIn, Stopping
  <1>4. AtRestOutside /\ DispatchersSend /\ ReturnsSomewhere
    BY <1>1, ConfigAssumption DEF AtRestOutside, DispatchersSend, ReturnsSomewhere
  <1> QED
    BY <1>2, <1>3, <1>4, TypeInit DEF PhaseInv

LEMMA PhaseNext ==
    ASSUME PhaseInv, Counted, [Next]_vars
    PROVE  PhaseInv'
  <1> USE DEF PhaseInv
  <1>1. Typed'
    BY TypeNext
  <1>2. NamesListed' /\ NextListed' /\ BackListed'
    BY NamesNext, NextListedNext, BackListedNext
  <1>3. Existing' /\ Phases'
    BY ExistingNext, PhasesNext
  <1>4. AtRestOutside' /\ DispatchersSend' /\ ReturnsSomewhere'
    BY AtRestNext, DispatchersNext, ReturnsNext
  <1> QED
    BY <1>1, <1>2, <1>3, <1>4

-----------------------------------------------------------------------------
(* The references.  What a step does to the hands of the threads.          *)
LEMMA BusyTake ==
    ASSUME Typed, NEW n \in Names, NEW e \in Events, <<n, e>> \notin handling,
           handling' = handling \cup {<<n, e>>}
    PROVE  /\ Busy(n)' = Busy(n) + 1
           /\ \A m \in Names \ {n} : Busy(m)' = Busy(m)
  <1>1. HandsOf(n)' = HandsOf(n) \cup {e} /\ e \notin HandsOf(n)
    BY DEF HandsOf
  <1>2. \A m \in Names \ {n} : HandsOf(m)' = HandsOf(m)
    BY DEF HandsOf
  <1>3. \A m : Busy(m) = Cardinality(HandsOf(m)) /\ Busy(m)' = Cardinality(HandsOf(m)')
    BY DEF Busy, HandsOf
  <1>4. IsFiniteSet(HandsOf(n))
    BY BusyNat
  <1>5. Cardinality(HandsOf(n) \cup {e}) = Cardinality(HandsOf(n)) + 1
    BY <1>1, <1>4, FS_AddElement
  <1> QED
    BY <1>1, <1>2, <1>3, <1>5

LEMMA BusyPass ==
    ASSUME Typed, NEW n \in Names, NEW e \in Events, <<n, e>> \in handling,
           handling' = handling \ {<<n, e>>}
    PROVE  /\ Busy(n)' = Busy(n) - 1
           /\ \A m \in Names \ {n} : Busy(m)' = Busy(m)
  <1>1. HandsOf(n)' = HandsOf(n) \ {e} /\ e \in HandsOf(n)
    BY DEF HandsOf
  <1>2. \A m \in Names \ {n} : HandsOf(m)' = HandsOf(m)
    BY DEF HandsOf
  <1>3. \A m : Busy(m) = Cardinality(HandsOf(m)) /\ Busy(m)' = Cardinality(HandsOf(m)')
    BY DEF Busy, HandsOf
  <1>4. IsFiniteSet(HandsOf(n))
    BY BusyNat
  <1>5. Cardinality(HandsOf(n) \ {e}) = Cardinality(HandsOf(n)) - 1
    BY <1>1, <1>4, FS_RemoveElement
  <1> QED
    BY <1>1, <1>2, <1>3, <1>5

LEMMA BusySame ==
    ASSUME UNCHANGED handling
    PROVE  \A m : Busy(m)' = Busy(m)
  BY DEF Busy

(* The counts of one stage, by themselves.                                 *)
Balanced(ref, len, busy, linked) ==
    busy <= ref /\ ref <= len + busy /\ (linked => ref = len + busy)
Behind(ref, list, busy, set) ==
    \A i \in DOMAIN list : i + busy > ref => list[i] \in set

LEMMA BalanceOf ==
    /\ Counted <=> \A n \in Names : Balanced(eventRef[n], Len(eventList[n]), Busy(n),
                                             mStages[n] = "connected")
    /\ LateTail <=> \A n \in Names : Behind(eventRef[n], eventList[n], Busy(n), late)
    /\ Counted' <=> \A n \in Names : Balanced(eventRef'[n], Len(eventList'[n]), Busy(n)',
                                              mStages'[n] = "connected")
    /\ LateTail' <=> \A n \in Names : Behind(eventRef'[n], eventList'[n], Busy(n)', late')
  BY DEF Counted, LateTail, Balanced, Behind

(* An event is added to a stage, scheduled if it is connected and late if  *)
(* it is not.                                                              *)
LEMMA BehindAdded ==
    ASSUME NEW q \in Seq(Events), NEW e \in Events, NEW ref \in Nat, NEW busy \in Nat,
           NEW L, NEW M, NEW linked \in BOOLEAN, L \subseteq M,
           linked \/ e \in M,
           Balanced(ref, Len(q), busy, linked), Behind(ref, q, busy, L)
    PROVE  /\ Balanced(IF linked THEN ref + 1 ELSE ref, Len(Append(q, e)), busy, linked)
           /\ Behind(IF linked THEN ref + 1 ELSE ref, Append(q, e), busy, M)
  <1>1. /\ Len(q) \in Nat /\ Len(Append(q, e)) = Len(q) + 1 /\ DOMAIN q = 1..Len(q)
        /\ DOMAIN Append(q, e) = 1..Len(q) + 1
        /\ \A i \in 1..Len(q) : Append(q, e)[i] = q[i]
        /\ Append(q, e)[Len(q) + 1] = e
    OBVIOUS
  <1>2. Balanced(IF linked THEN ref + 1 ELSE ref, Len(Append(q, e)), busy, linked)
    <2>1. CASE linked
      BY <1>1, <2>1 DEF Balanced
    <2>2. CASE ~linked
      BY <1>1, <2>2 DEF Balanced
    <2> QED
      BY <2>1, <2>2
  <1>3. ASSUME NEW i \in DOMAIN Append(q, e),
               i + busy > IF linked THEN ref + 1 ELSE ref
        PROVE  Append(q, e)[i] \in M
    <2>1. CASE i = Len(q) + 1
      <3>1. ~linked
        BY <1>1, <1>3, <2>1 DEF Balanced
      <3> QED
        BY <1>1, <2>1, <3>1
    <2>2. CASE i \in 1..Len(q)
      <3>1. i + busy > ref
        BY <1>3, <2>2
      <3> QED
        BY <1>1, <2>2, <3>1 DEF Behind
    <2> QED
      BY <1>1, <2>1, <2>2
  <1> QED
    BY <1>2, <1>3 DEF Behind

LEMMA ScheduledRefs ==
    ASSUME Typed, Counted, LateTail, NEW e \in Events, NEW T,
           late \subseteq late', \A m \in T : mStages[m] # "connected" => e \in late',
           NEW n \in Names
    PROVE  /\ Balanced(Scheduled(T)[n], Len(Added(e, T)[n]), Busy(n),
                       mStages[n] = "connected")
           /\ Behind(Scheduled(T)[n], Added(e, T)[n], Busy(n), late')
  <1>1. /\ eventList[n] \in Seq(Events) /\ eventRef[n] \in Nat /\ Busy(n) \in Nat
    BY BusyNat DEF Typed
  <1>2. /\ Balanced(eventRef[n], Len(eventList[n]), Busy(n), mStages[n] = "connected")
        /\ Behind(eventRef[n], eventList[n], Busy(n), late)
    BY BalanceOf
  <1>3. /\ Added(e, T)[n] = IF n \in T THEN Append(eventList[n], e) ELSE eventList[n]
        /\ Scheduled(T)[n] = IF n \in T /\ mStages[n] = "connected"
                             THEN eventRef[n] + 1 ELSE eventRef[n]
    BY AddedTyped
  <1>4. CASE n \notin T
    <2>1. Behind(eventRef[n], eventList[n], Busy(n), late')
      BY <1>2 DEF Behind
    <2> QED
      BY <1>2, <1>3, <1>4, <2>1
  <1>5. CASE n \in T
    <2> DEFINE linked == mStages[n] = "connected"
    <2>1. linked \in BOOLEAN /\ (linked \/ e \in late')
      BY <1>5
    <2>2. /\ Added(e, T)[n] = Append(eventList[n], e)
          /\ Scheduled(T)[n] = IF linked THEN eventRef[n] + 1 ELSE eventRef[n]
      BY <1>3, <1>5
    <2> HIDE DEF linked
    <2>3. Balanced(eventRef[n], Len(eventList[n]), Busy(n), linked)
      BY <1>2 DEF linked
    <2>4. /\ Balanced(Scheduled(T)[n], Len(Added(e, T)[n]), Busy(n), linked)
          /\ Behind(Scheduled(T)[n], Added(e, T)[n], Busy(n), late')
      BY <1>1, <1>2, <2>1, <2>2, <2>3, BehindAdded
    <2> QED
      BY <2>4 DEF linked
  <1> QED
    BY <1>4, <1>5

LEMMA LateGrows ==
    ASSUME NEW e, NEW T, Late(e, T)
    PROVE  /\ late \subseteq late'
           /\ \A m \in T : mStages[m] # "connected" => e \in late'
  BY DEF Late

LEMMA AddedRefs ==
    ASSUME Typed, Counted, LateTail, NEW e \in Events, NEW T, Late(e, T),
           eventList' = Added(e, T), eventRef' = Scheduled(T),
           UNCHANGED <<handling, mStages>>
    PROVE  Counted' /\ LateTail'
  <1>1. \A n \in Names : Busy(n)' = Busy(n)
    BY BusySame
  <1>2. \A n \in Names :
          /\ Balanced(eventRef'[n], Len(eventList'[n]), Busy(n)', mStages'[n] = "connected")
          /\ Behind(eventRef'[n], eventList'[n], Busy(n)', late')
    BY <1>1, ScheduledRefs, LateGrows
  <1> QED
    BY <1>2, BalanceOf

LEMMA PassRefs ==
    ASSUME Typed, Counted, LateTail, NEW n \in Names, NEW e \in Events, NEW T,
           <<n, e>> \in handling, PassOn(n, e, T), late \subseteq late',
           \A m \in T : mStages[m] # "connected" => e \in late', UNCHANGED mStages
    PROVE  Counted' /\ LateTail'
  <1>1. /\ handling' = handling \ {<<n, e>>} /\ eventList' = Added(e, T)
        /\ eventRef' = Released(n, T)
    BY DEF PassOn
  <1>2. /\ Busy(n)' = Busy(n) - 1 /\ \A m \in Names \ {n} : Busy(m)' = Busy(m)
    BY <1>1, BusyPass
  <1>3. /\ eventRef[n] > 0 /\ Busy(n) \in Nat /\ Busy(n) > 0
    BY HandledRef
  <1>4. \A m \in Names : eventRef'[m] = IF m = n THEN Scheduled(T)[m] - 1
                                        ELSE Scheduled(T)[m]
    BY <1>1, <1>3, ReleasedTyped
  <1>5. ASSUME NEW m \in Names
        PROVE  /\ Balanced(eventRef'[m], Len(eventList'[m]), Busy(m)',
                           mStages'[m] = "connected")
               /\ Behind(eventRef'[m], eventList'[m], Busy(m)', late')
    <2>1. /\ Balanced(Scheduled(T)[m], Len(Added(e, T)[m]), Busy(m),
                      mStages[m] = "connected")
          /\ Behind(Scheduled(T)[m], Added(e, T)[m], Busy(m), late')
      BY ScheduledRefs
    <2>2. CASE m # n
      BY <1>1, <1>2, <1>4, <2>1, <2>2
    <2>3. CASE m = n
      <3>1. /\ Added(e, T)[n] \in Seq(Events) /\ Scheduled(T)[n] \in Nat
        BY AddedTyped
      <3>2. /\ eventRef'[n] = Scheduled(T)[n] - 1 /\ Busy(n)' = Busy(n) - 1
            /\ eventList'[n] = Added(e, T)[n]
        BY <1>1, <1>2, <1>4
      <3>3. Balanced(Scheduled(T)[n] - 1, Len(Added(e, T)[n]), Busy(n) - 1,
                     mStages'[n] = "connected")
        BY <1>3, <2>1, <2>3, <3>1 DEF Balanced
      <3>4. Behind(Scheduled(T)[n] - 1, Added(e, T)[n], Busy(n) - 1, late')
        BY <1>3, <2>1, <2>3, <3>1 DEF Behind
      <3> QED
        BY <2>3, <3>2, <3>3, <3>4
    <2> QED
      BY <2>2, <2>3
  <1> QED
    BY <1>5, BalanceOf

LEMMA TakeRefs ==
    ASSUME Typed, Counted, LateTail, Placed, NEW n \in Names, Take(n)
    PROVE  Counted' /\ LateTail'
  <1> DEFINE e == Head(eventList[n])
  <1>1. /\ eventList[n] \in Seq(Events) /\ eventList[n] # <<>> /\ Busy(n) < eventRef[n]
        /\ handling' = handling \cup {<<n, e>>}
        /\ eventList' = [eventList EXCEPT ![n] = Tail(eventList[n])]
        /\ UNCHANGED <<mStages, eventRef, late>>
    BY DEF Take, Typed, stageVars
  <1>2. /\ e \in Events /\ In(eventList[n], e)
        /\ Tail(eventList[n]) \in Seq(Events)
        /\ Len(Tail(eventList[n])) = Len(eventList[n]) - 1 /\ Len(eventList[n]) > 0
        /\ \A i \in DOMAIN Tail(eventList[n]) :
             i + 1 \in DOMAIN eventList[n] /\ Tail(eventList[n])[i] = eventList[n][i + 1]
    BY <1>1, TailIn
  <1>3. <<n, e>> \notin handling
    <2>1. At("list", n, e)
      BY <1>2 DEF At
    <2>2. ~At("hand", n, e)
      BY <1>2, <2>1 DEF Placed, OneAt, Kinds
    <2> QED
      BY <2>2 DEF At
  <1>4. Busy(n)' = Busy(n) + 1 /\ \A m \in Names \ {n} : Busy(m)' = Busy(m)
    BY <1>1, <1>2, <1>3, BusyTake
  <1>5. ASSUME NEW m \in Names
        PROVE  /\ Balanced(eventRef'[m], Len(eventList'[m]), Busy(m)',
                           mStages'[m] = "connected")
               /\ Behind(eventRef'[m], eventList'[m], Busy(m)', late')
    <2>1. /\ Balanced(eventRef[m], Len(eventList[m]), Busy(m), mStages[m] = "connected")
          /\ Behind(eventRef[m], eventList[m], Busy(m), late)
      BY BalanceOf
    <2>2. CASE m # n
      <3>1. eventList'[m] = eventList[m]
        BY <1>1, <2>2 DEF Typed
      <3> QED
        BY <1>1, <1>4, <2>1, <2>2, <3>1
    <2>3. CASE m = n
      <3>1. /\ eventList'[n] = Tail(eventList[n]) /\ Busy(n) \in Nat /\ eventRef[n] \in Nat
            /\ Len(eventList[n]) \in Nat
        BY <1>1, BusyNat DEF Typed
      <3>2. Balanced(eventRef[n], Len(Tail(eventList[n])), Busy(n) + 1,
                     mStages[n] = "connected")
        BY <1>1, <1>2, <2>1, <2>3, <3>1 DEF Balanced
      <3>3. DOMAIN Tail(eventList[n]) \subseteq Nat
        BY <1>2
      <3>4. Behind(eventRef[n], Tail(eventList[n]), Busy(n) + 1, late)
        <4> SUFFICES ASSUME NEW i \in DOMAIN Tail(eventList[n]),
                            i + (Busy(n) + 1) > eventRef[n]
                     PROVE  Tail(eventList[n])[i] \in late
          BY DEF Behind
        <4>1. i \in Nat /\ (i + 1) + Busy(n) > eventRef[n]
          BY <3>1, <3>3
        <4> QED
          BY <1>2, <2>1, <2>3, <4>1 DEF Behind
      <3> QED
        BY <1>1, <1>4, <2>3, <3>1, <3>2, <3>4
    <2> QED
      BY <2>2, <2>3
  <1> QED
    BY <1>5, BalanceOf

(* Every step of a handler passes the event on, ...                        *)
LEMMA HandlerMoves ==
    ASSUME NEW n \in Names, NEW e \in Events, HandlerStep(n, e)
    PROVE  \E T : /\ PassOn(n, e, T) /\ late \subseteq late'
                  /\ \A m \in T : mStages[m] # "connected" => e \in late'
  <1>1. CASE Complete(n, e)
    <2>1. PassOn(n, e, Target(e)) /\ Late(e, Target(e))
      BY <1>1 DEF Complete, Done
    <2> QED
      BY <2>1, LateGrows
  <1>2. CASE Store(n, e)
    <2>1. PassOn(n, e, {}) /\ late' = late
      BY <1>2 DEF Store
    <2> QED
      BY <2>1
  <1>3. CASE RunCallback(n, e)
    <2> DEFINE T == IF Tail(callbacks[e]) = <<>> THEN {} ELSE {Head(Tail(callbacks[e]))}
    <2>1. PassOn(n, e, T) /\ Late(e, T)
      BY <1>3 DEF RunCallback
    <2> HIDE DEF T
    <2> QED
      BY <2>1, LateGrows
  <1>4. ASSUME NEW callback \in BOOLEAN, Forward(n, e, callback)
        PROVE  PassOn(n, e, {Head(nextStageList[n])}) /\ Late(e, {Head(nextStageList[n])})
    BY <1>4 DEF Forward
  <1> QED
    BY <1>1, <1>2, <1>3, <1>4, LateGrows DEF HandlerStep

(* ... and every step on a store adds it to a stage or changes no queue.   *)
LEMMA StoreMoves ==
    ASSUME Typed, NEW n \in Names, NEW e, e = Head(eventStore[n]),
           DrainStore(n) \/ Wakeup(n)
    PROVE  /\ e \in Events /\ UNCHANGED handling /\ UNCHANGED ConfigVars
           /\ \/ UNCHANGED <<eventList, eventRef, late>>
              \/ \E T : /\ eventList' = Added(e, T) /\ eventRef' = Scheduled(T)
                        /\ Late(e, T)
  <1>1. CASE DrainStore(n)
    <2>1. /\ e \in Events /\ UNCHANGED handling /\ UNCHANGED ConfigVars
          /\ eventList' = Added(e, Target(e)) /\ eventRef' = Scheduled(Target(e))
          /\ Late(e, Target(e))
      BY <1>1, DrainMoves DEF Done
    <2> QED
      BY <2>1
  <1>2. CASE Wakeup(n)
    <2>1. /\ e \in Events /\ UNCHANGED handling /\ UNCHANGED ConfigVars
          /\ Sends(n, e) \/ KeepsOn(n, e) \/ Disposes(n, e)
      BY <1>2, WakeupMoves
    <2>2. CASE Sends(n, e)
      BY <2>1, <2>2 DEF Sends
    <2>3. CASE KeepsOn(n, e)
      BY <2>1, <2>3 DEF KeepsOn, queueVars
    <2>4. CASE Disposes(n, e)
      BY <2>1, <2>4 DEF Disposes, Done
    <2> QED
      BY <2>1, <2>2, <2>3, <2>4
  <1> QED
    BY <1>1, <1>2

LEMMA SameRefs ==
    ASSUME Counted, LateTail, UNCHANGED <<eventList, eventRef, handling, late>>,
           \A n \in Names : mStages'[n] = "connected" => mStages[n] = "connected"
    PROVE  Counted' /\ LateTail'
  <1>1. \A n \in Names : Busy(n)' = Busy(n)
    BY BusySame
  <1> QED
    BY <1>1 DEF Counted, LateTail

LEMMA BuildRefs ==
    ASSUME PhaseInv, Counted, LateTail, BuildStep
    PROVE  Counted' /\ LateTail'
  <1>0. Typed /\ Phases /\ AtRestOutside
    BY DEF PhaseInv
  <1>1. ASSUME NEW n \in Names, StartStage(n) PROVE Counted' /\ LateTail'
    <2>1. /\ mStages[n] = "made" /\ mStages' = [mStages EXCEPT ![n] = "connected"]
          /\ eventRef' = [eventRef EXCEPT ![n] = Len(eventList[n])]
          /\ UNCHANGED <<eventList, handling, late>>
      BY <1>1 DEF StartStage, FirstWith, Unconnected
    <2>2. \A m \in Names : Busy(m)' = Busy(m)
      BY <2>1, BusySame
    <2>3. eventRef[n] = 0
      BY <1>0, <2>1 DEF AtRestOutside
    <2>4. Busy(n) = 0
      BY <2>3, BusyNat DEF Counted
    <2>5. ASSUME NEW m \in Names
          PROVE  /\ Balanced(eventRef'[m], Len(eventList'[m]), Busy(m)',
                             mStages'[m] = "connected")
                 /\ Behind(eventRef'[m], eventList'[m], Busy(m)', late')
      <3>1. CASE m # n
        <4>1. eventRef'[m] = eventRef[m] /\ mStages'[m] = mStages[m]
          BY <1>0, <2>1, <3>1 DEF Typed
        <4> QED
          BY <2>1, <2>2, <4>1, BalanceOf
      <3>2. CASE m = n
        <4>1. eventRef'[n] = Len(eventList[n]) /\ eventList[n] \in Seq(Events)
          BY <1>0, <2>1 DEF Typed
        <4>2. Len(eventList[n]) \in Nat /\ DOMAIN eventList[n] = 1..Len(eventList[n])
          BY <4>1
        <4>3. Balanced(Len(eventList[n]), Len(eventList[n]), 0, mStages'[n] = "connected")
          BY <4>2 DEF Balanced
        <4>4. Behind(Len(eventList[n]), eventList[n], 0, late)
          BY <4>2 DEF Behind
        <4> QED
          BY <2>1, <2>2, <2>4, <3>2, <4>1, <4>3, <4>4
      <3> QED
        BY <3>1, <3>2
    <2> QED
      BY <2>5, BalanceOf
  <1>2. CASE ClearConfig
    <2>1. /\ \A n \in Names : mStages[n] \in {"none", "made", "stopped"}
          /\ \A n \in Names : mStages'[n] = "none"
          /\ eventList' = [n \in Names |-> <<>>]
          /\ UNCHANGED <<eventRef, handling>>
      BY <1>0, <1>2 DEF ClearConfig, Phases, StatesIn
    <2>2. \A n \in Names : eventRef[n] = 0 /\ Busy(n)' = Busy(n)
      BY <1>0, <2>1, BusySame DEF AtRestOutside
    <2>3. \A n \in Names : Busy(n) = 0
      BY <2>2, BusyNat DEF Counted
    <2>4. \A n \in Names : Len(eventList'[n]) = 0 /\ DOMAIN eventList'[n] = {}
      BY <2>1
    <2> QED
      BY <2>1, <2>2, <2>3, <2>4 DEF Counted, LateTail
  <1>3. ASSUME \/ \E made \in 0..ThreadPools : InitThreadPool(made)
               \/ InitStages \/ InitStagesFails \/ GenNextStages
               \/ \E n \in Names : \/ StartFails(n) \/ Disconnect(n)
                                   \/ Disconnected(n) \/ Drained(n)
               \/ Started \/ Cleanup \/ AllDisconnected
        PROVE  Counted' /\ LateTail'
    <2>1. UNCHANGED <<eventList, eventRef, handling, late>>
      BY <1>3 DEF InitThreadPool, InitStages, InitStagesFails, GenNextStages,
                  StartFails, Disconnect, Disconnected, Drained, Started, Cleanup,
                  AllDisconnected, queueVars
    <2>2. \A n \in Names : mStages'[n] = "connected" => mStages[n] = "connected"
      BY <1>0, <1>3 DEF InitThreadPool, InitStages, InitStagesFails, GenNextStages,
                  StartFails, Disconnect, Disconnected, Drained, Started, Cleanup,
                  AllDisconnected, stageVars, Typed, AfterDisconnect
    <2> QED
      BY <2>1, <2>2, SameRefs
  <1> QED
    BY <1>1, <1>2, <1>3 DEF BuildStep

LEMMA RefInit == Init => RefInv
  <1> SUFFICES ASSUME Init PROVE RefInv
    OBVIOUS
  <1>1. \A n \in Names : HandsOf(n) = {}
    BY DEF Init, HandsOf
  <1>2. \A n \in Names : Busy(n) = 0
    BY <1>1, BusyNat
  <1> QED
    BY <1>2 DEF Init, RefInv, Counted, LateTail

LEMMA RefNext ==
    ASSUME PhaseInv, RefInv, Placed, [Next]_vars
    PROVE  RefInv'
  <1>0. Typed /\ Counted /\ LateTail
    BY DEF PhaseInv, RefInv
  <1>1. CASE BuildStep
    BY <1>0, <1>1, BuildRefs DEF RefInv
  <1>2. ASSUME NEW n \in Names, Take(n) PROVE RefInv'
    BY <1>0, <1>2, TakeRefs DEF RefInv
  <1>3. ASSUME NEW n \in Names, DrainStore(n) \/ Wakeup(n) PROVE RefInv'
    <2> DEFINE e == Head(eventStore[n])
    <2>1. /\ e \in Events /\ UNCHANGED <<handling, mStages>>
          /\ \/ UNCHANGED <<eventList, eventRef, late>>
             \/ \E T : /\ eventList' = Added(e, T) /\ eventRef' = Scheduled(T)
                       /\ Late(e, T)
      BY <1>0, <1>3, StoreMoves DEF ConfigVars, stageVars
    <2> HIDE DEF e
    <2> QED
      BY <1>0, <2>1, SameRefs, AddedRefs DEF RefInv
  <1>4. ASSUME NEW n \in Names, NEW e \in Events, Inject(e, n) PROVE RefInv'
    <2>1. /\ eventList' = Added(e, {n}) /\ eventRef' = Scheduled({n}) /\ Late(e, {n})
          /\ UNCHANGED <<handling, mStages>>
      BY <1>4 DEF Inject, stageVars
    <2> QED
      BY <1>0, <2>1, AddedRefs DEF RefInv
  <1>5. ASSUME NEW n \in Names, NEW e \in Events, HandlerStep(n, e) PROVE RefInv'
    <2>1. /\ <<n, e>> \in handling /\ UNCHANGED mStages
          /\ \E T : /\ PassOn(n, e, T) /\ late \subseteq late'
                    /\ \A m \in T : mStages[m] # "connected" => e \in late'
      BY <1>5, HandlerFrame, HandlerMoves DEF ConfigVars, stageVars
    <2> QED
      BY <1>0, <2>1, PassRefs DEF RefInv
  <1>6. CASE UNCHANGED vars
    BY <1>0, <1>6, SameRefs DEF vars, RefInv, queueVars, stageVars
  <1> QED
    BY <1>1, <1>2, <1>3, <1>4, <1>5, <1>6, StepKinds DEF EventStep

-----------------------------------------------------------------------------
(* The places of the events.                                               *)

(* One event is moved to at most one place, the others stay.               *)
LEMMA MovedTo ==
    ASSUME Typed, Placed, NEW e \in Events, NEW kind \in Kinds, NEW T \in SUBSET Names,
           UNCHANGED mStages,
           \A y \in Events \ {e} :
              /\ fate'[y] = fate[y]
              /\ \A k \in Kinds : \A n \in Names : At(k, n, y)' <=> At(k, n, y),
           \A k \in Kinds : \A n \in Names : At(k, n, e)' <=> k = kind /\ n \in T,
           \A m, n \in T : m = n,
           fate'[e] = "alive" <=> T # {},
           \A n \in T : mStages[n] # "none"
    PROVE  Placed'
  <1> SUFFICES ASSUME NEW y \in Events
               PROVE  /\ OneAt(y)' /\ (fate[y] = "alive" <=> Somewhere(y))'
                      /\ \A k \in Kinds : \A n \in Names :
                           At(k, n, y)' => mStages'[n] # "none"
    BY DEF Placed
  <1>1. CASE y = e
    <2>1. OneAt(y)'
      BY <1>1 DEF OneAt
    <2>2. Somewhere(y)' <=> T # {}
      BY <1>1 DEF Somewhere
    <2> QED
      BY <1>1, <2>1, <2>2
  <1>2. CASE y # e
    <2>1. OneAt(y)' <=> OneAt(y)
      BY <1>2 DEF OneAt
    <2>2. Somewhere(y)' <=> Somewhere(y)
      BY <1>2 DEF Somewhere
    <2> QED
      BY <1>2, <2>1, <2>2 DEF Placed
  <1> QED
    BY <1>1, <1>2

(* The three kinds of places, one by one.                                  *)
LEMMA AtOf ==
    ASSUME NEW n, NEW e
    PROVE  /\ At("list", n, e) <=> In(eventList[n], e)
           /\ At("store", n, e) <=> In(eventStore[n], e)
           /\ At("hand", n, e) <=> <<n, e>> \in handling
           /\ At("list", n, e)' <=> In(eventList'[n], e)
           /\ At("store", n, e)' <=> In(eventStore'[n], e)
           /\ At("hand", n, e)' <=> <<n, e>> \in handling'
  BY DEF At, In

LEMMA PlacedOnce ==
    ASSUME Placed, NEW e \in Events, NEW k \in Kinds, NEW n \in Names, At(k, n, e)
    PROVE  /\ fate[e] = "alive" /\ mStages[n] # "none"
           /\ \A l \in Kinds : \A m \in Names : At(l, m, e) <=> l = k /\ m = n
  <1>1. Somewhere(e)
    BY DEF Somewhere
  <1> QED
    BY <1>1 DEF Placed, OneAt

LEMMA AddedIn ==
    ASSUME Typed, NoDups, NEW e \in Events, NEW T, NEW m \in Names
    PROVE  /\ \A y : In(Added(e, T)[m], y) <=> In(eventList[m], y) \/ (m \in T /\ y = e)
           /\ (m \in T => ~In(eventList[m], e)) => NoDup(Added(e, T)[m])
  <1>1. eventList[m] \in Seq(Events) /\ NoDup(eventList[m])
    BY DEF Typed, NoDups
  <1>2. Added(e, T)[m] = IF m \in T THEN Append(eventList[m], e) ELSE eventList[m]
    BY AddedTyped
  <1>3. CASE m \in T
    BY <1>1, <1>2, <1>3, AppendIn
  <1>4. CASE m \notin T
    BY <1>1, <1>2, <1>4
  <1> QED
    BY <1>3, <1>4

LEMMA AddedFresh ==
    ASSUME Typed, NoDups, NEW e \in Events, NEW T, \A m \in Names : ~In(eventList[m], e)
    PROVE  \A m \in Names :
             /\ NoDup(Added(e, T)[m])
             /\ \A y : In(Added(e, T)[m], y) <=> In(eventList[m], y) \/ (m \in T /\ y = e)
  BY AddedIn

LEMMA StoreTailIn ==
    ASSUME Typed, NoDups, NEW n \in Names, eventStore[n] # <<>>
    PROVE  LET e == Head(eventStore[n])
           IN  /\ e \in Events /\ At("store", n, e)
               /\ Tail(eventStore[n]) \in Seq(Events) /\ NoDup(Tail(eventStore[n]))
               /\ \A y : In(Tail(eventStore[n]), y) <=> In(eventStore[n], y) /\ y # e
  <1>1. eventStore[n] \in Seq(Events) /\ NoDup(eventStore[n])
    BY DEF Typed, NoDups
  <1> QED
    BY <1>1, TailIn DEF At

(* A handler passes an event on to a queue, ...                            *)
LEMMA PlacePass ==
    ASSUME Typed, NoDups, Placed, NEW n \in Names, NEW e \in Events,
           NEW T \in SUBSET Names, <<n, e>> \in handling, PassOn(n, e, T),
           UNCHANGED <<mStages, eventStore>>,
           \A l, m \in T : l = m, \A m \in T : mStages[m] # "none",
           fate' = IF T = {} THEN [fate EXCEPT ![e] = "done"] ELSE fate
    PROVE  NoDups' /\ Placed'
  <1>1. /\ handling' = handling \ {<<n, e>>} /\ eventList' = Added(e, T)
    BY DEF PassOn
  <1>2. /\ fate[e] = "alive" /\ At("hand", n, e)
        /\ \A l \in Kinds : \A m \in Names : At(l, m, e) <=> l = "hand" /\ m = n
    <2>1. At("hand", n, e) /\ "hand" \in Kinds
      BY DEF At, Kinds
    <2> QED
      BY <2>1, PlacedOnce
  <1>3. \A m \in Names : ~In(eventList[m], e) /\ ~In(eventStore[m], e)
    BY <1>2, AtOf DEF Kinds
  <1>4. \A m \in Names :
           /\ NoDup(eventList'[m])
           /\ \A y : In(eventList'[m], y) <=> In(eventList[m], y) \/ (m \in T /\ y = e)
    <2>1. e \in Events /\ \A m \in Names : ~In(eventList[m], e)
      BY <1>1, <1>3
    <2>2. eventList' = Added(e, T)
      BY <1>1
    <2> QED
      BY <2>1, <2>2, AddedFresh
  <1>5. NoDups'
    BY <1>4 DEF NoDups
  <1>6. ASSUME NEW y \in Events \ {e}, NEW k \in Kinds, NEW m \in Names
        PROVE  At(k, m, y)' <=> At(k, m, y)
    <2>1. <<m, y>> \in handling' <=> <<m, y>> \in handling
      BY <1>1, <1>6
    <2>2. In(eventList'[m], y) <=> In(eventList[m], y)
      BY <1>4, <1>6
    <2> QED
      BY <1>6, <2>1, <2>2, AtOf DEF Kinds
  <1>7. ASSUME NEW k \in Kinds, NEW m \in Names
        PROVE  At(k, m, e)' <=> k = "list" /\ m \in T
    <2>1. <<m, e>> \notin handling'
      <3>1. <<m, e>> \in handling => m = n
        BY <1>2, AtOf DEF Kinds
      <3> QED
        BY <1>1, <3>1
    <2>2. In(eventList'[m], e) <=> m \in T
      BY <1>3, <1>4
    <2>3. ~In(eventStore'[m], e)
      BY <1>3
    <2> QED
      BY <1>7, <2>1, <2>2, <2>3, AtOf DEF Kinds
  <1>8. /\ \A y \in Events \ {e} : fate'[y] = fate[y]
        /\ fate'[e] = "alive" <=> T # {}
    BY <1>2 DEF Typed
  <1>9. Placed'
    <2>1. "list" \in Kinds
      BY DEF Kinds
    <2> QED
      BY <1>6, <1>7, <1>8, <2>1, MovedTo
  <1> QED
    BY <1>5, <1>9

(* ... or stores it.                                                       *)
LEMMA PlaceStore ==
    ASSUME Typed, NoDups, Placed, NEW n \in Names, NEW e \in Events, Store(n, e)
    PROVE  NoDups' /\ Placed'
  <1>1. /\ <<n, e>> \in handling /\ handling' = handling \ {<<n, e>>}
        /\ eventList' = Added(e, {})
        /\ eventStore' = [eventStore EXCEPT ![n] = Append(eventStore[n], e)]
        /\ UNCHANGED <<mStages, fate>>
    BY DEF Store, PassOn, Handles, stageVars, eventVars
  <1>2. /\ fate[e] = "alive" /\ mStages[n] # "none"
        /\ \A l \in Kinds : \A m \in Names : At(l, m, e) <=> l = "hand" /\ m = n
    <2>1. At("hand", n, e) /\ "hand" \in Kinds
      BY <1>1 DEF At, Kinds
    <2> QED
      BY <2>1, PlacedOnce
  <1>3. \A m \in Names : ~In(eventList[m], e) /\ ~In(eventStore[m], e)
    BY <1>2, AtOf DEF Kinds
  <1>4. \A m \in Names : eventList'[m] = eventList[m]
    BY <1>1, AddedTyped
  <1>5. /\ eventStore[n] \in Seq(Events) /\ NoDup(eventStore[n])
        /\ eventStore'[n] = Append(eventStore[n], e)
        /\ \A m \in Names \ {n} : eventStore'[m] = eventStore[m]
    BY <1>1 DEF Typed, NoDups
  <1>6. /\ NoDup(eventStore'[n])
        /\ \A y : In(eventStore'[n], y) <=> In(eventStore[n], y) \/ y = e
    BY <1>3, <1>5, AppendIn
  <1>7. NoDups'
    <2>1. \A m \in Names : NoDup(eventList'[m]) /\ NoDup(eventStore'[m])
      BY <1>4, <1>5, <1>6 DEF NoDups
    <2> QED
      BY <2>1 DEF NoDups
  <1>8. ASSUME NEW y \in Events \ {e}, NEW k \in Kinds, NEW m \in Names
        PROVE  At(k, m, y)' <=> At(k, m, y)
    <2>1. <<m, y>> \in handling' <=> <<m, y>> \in handling
      BY <1>1, <1>8
    <2>2. In(eventStore'[m], y) <=> In(eventStore[m], y)
      BY <1>5, <1>6, <1>8
    <2> QED
      BY <1>4, <1>8, <2>1, <2>2, AtOf DEF Kinds
  <1>9. ASSUME NEW k \in Kinds, NEW m \in Names
        PROVE  At(k, m, e)' <=> k = "store" /\ m \in {n}
    <2>1. <<m, e>> \notin handling'
      <3>1. <<m, e>> \in handling => m = n
        BY <1>2, AtOf DEF Kinds
      <3> QED
        BY <1>1, <3>1
    <2>2. ~In(eventList'[m], e)
      BY <1>3, <1>4
    <2>3. In(eventStore'[m], e) <=> m \in {n}
      BY <1>3, <1>5, <1>6
    <2> QED
      BY <1>9, <2>1, <2>2, <2>3, AtOf DEF Kinds
  <1>10. Placed'
    <2> DEFINE T == {n}
    <2>1. /\ "store" \in Kinds /\ T \in SUBSET Names /\ T # {}
          /\ \A l, m \in T : l = m
          /\ \A m \in T : mStages[m] # "none"
      BY <1>2 DEF Kinds
    <2>2. \A y \in Events \ {e} : fate'[y] = fate[y]
      BY <1>1
    <2>3. fate'[e] = "alive" <=> T # {}
      BY <1>1, <1>2, <2>1
    <2>4. \A k \in Kinds : \A m \in Names : At(k, m, e)' <=> k = "store" /\ m \in T
      BY <1>9
    <2> HIDE DEF T
    <2> QED
      BY <1>1, <1>8, <2>1, <2>2, <2>3, <2>4, MovedTo
  <1> QED
    BY <1>7, <1>10

LEMMA PlaceInject ==
    ASSUME Typed, NoDups, Placed, NEW n \in Names, NEW e \in Events, Inject(e, n)
    PROVE  NoDups' /\ Placed'
  <1>1. /\ fate[e] = "new" /\ mStages[n] # "none"
        /\ fate' = [fate EXCEPT ![e] = "alive"] /\ eventList' = Added(e, {n})
        /\ UNCHANGED <<mStages, eventStore, handling>>
    BY DEF Inject, stageVars
  <1>2. ASSUME NEW k \in Kinds, NEW m \in Names PROVE ~At(k, m, e)
    BY <1>1, PlacedOnce
  <1>3. \A m \in Names : ~In(eventList[m], e) /\ ~In(eventStore[m], e)
                           /\ <<m, e>> \notin handling
    BY <1>2, AtOf DEF Kinds
  <1>4. \A m \in Names :
           /\ NoDup(eventList'[m])
           /\ \A y : In(eventList'[m], y) <=> In(eventList[m], y) \/ (m = n /\ y = e)
    <2> SUFFICES ASSUME NEW m \in Names
                 PROVE  /\ NoDup(eventList'[m])
                        /\ \A y : In(eventList'[m], y)
                                   <=> In(eventList[m], y) \/ (m = n /\ y = e)
      OBVIOUS
    <2> DEFINE T == {n}
    <2>1. eventList' = Added(e, T) /\ (m \in T <=> m = n) /\ ~In(eventList[m], e)
      BY <1>1, <1>3
    <2> HIDE DEF T
    <2>2. /\ NoDup(Added(e, T)[m])
          /\ \A y : In(Added(e, T)[m], y) <=> In(eventList[m], y) \/ (m \in T /\ y = e)
      BY <2>1, AddedIn
    <2> QED
      BY <2>1, <2>2
  <1>5. NoDups'
    BY <1>1, <1>4 DEF NoDups
  <1>6. ASSUME NEW y \in Events \ {e}, NEW k \in Kinds, NEW m \in Names
        PROVE  At(k, m, y)' <=> At(k, m, y)
    <2>1. In(eventList'[m], y) <=> In(eventList[m], y)
      BY <1>4, <1>6
    <2> QED
      BY <1>1, <1>6, <2>1, AtOf DEF Kinds
  <1>7. ASSUME NEW k \in Kinds, NEW m \in Names
        PROVE  At(k, m, e)' <=> k = "list" /\ m = n
    <2>1. In(eventList'[m], e) <=> m = n
      BY <1>3, <1>4
    <2>2. ~In(eventStore'[m], e) /\ <<m, e>> \notin handling'
      BY <1>1, <1>3
    <2> QED
      BY <1>7, <2>1, <2>2, AtOf DEF Kinds
  <1>8. Placed'
    <2> DEFINE T == {n}
    <2>1. /\ "list" \in Kinds /\ T \in SUBSET Names /\ T # {}
          /\ \A l, m \in T : l = m
          /\ \A m \in T : mStages[m] # "none"
      BY <1>1 DEF Kinds
    <2>2. \A y \in Events \ {e} : fate'[y] = fate[y]
      BY <1>1 DEF Typed
    <2>3. fate'[e] = "alive" <=> T # {}
      BY <1>1, <2>1 DEF Typed
    <2>4. \A k \in Kinds : \A m \in Names : At(k, m, e)' <=> k = "list" /\ m \in T
      BY <1>7
    <2> HIDE DEF T
    <2> QED
      BY <1>1, <1>6, <2>1, <2>2, <2>3, <2>4, MovedTo
  <1> QED
    BY <1>5, <1>8

LEMMA PlaceTake ==
    ASSUME Typed, NoDups, Placed, NEW n \in Names, Take(n),
           NEW e, e = Head(eventList[n])
    PROVE  NoDups' /\ Placed'
  <1>1. /\ eventList[n] \in Seq(Events) /\ NoDup(eventList[n]) /\ eventList[n] # <<>>
        /\ handling' = handling \cup {<<n, e>>}
        /\ eventList' = [eventList EXCEPT ![n] = Tail(eventList[n])]
        /\ UNCHANGED <<mStages, eventStore, fate>>
    BY DEF Take, Typed, NoDups, stageVars, eventVars
  <1>2. /\ e \in Events /\ In(eventList[n], e) /\ NoDup(Tail(eventList[n]))
        /\ \A y : In(Tail(eventList[n]), y) <=> In(eventList[n], y) /\ y # e
    BY <1>1, TailIn
  <1>3. /\ eventList'[n] = Tail(eventList[n])
        /\ \A m \in Names \ {n} : eventList'[m] = eventList[m]
    BY <1>1 DEF Typed
  <1>4. /\ fate[e] = "alive" /\ mStages[n] # "none"
        /\ \A l \in Kinds : \A m \in Names : At(l, m, e) <=> l = "list" /\ m = n
    <2>1. At("list", n, e) /\ "list" \in Kinds
      BY <1>2 DEF At, Kinds
    <2> QED
      BY <1>2, <2>1, PlacedOnce
  <1>5. NoDups'
    <2>1. \A m \in Names : NoDup(eventList'[m]) /\ NoDup(eventStore'[m])
      BY <1>1, <1>2, <1>3 DEF NoDups
    <2> QED
      BY <2>1 DEF NoDups
  <1>6. ASSUME NEW y \in Events \ {e}, NEW k \in Kinds, NEW m \in Names
        PROVE  At(k, m, y)' <=> At(k, m, y)
    <2>1. <<m, y>> \in handling' <=> <<m, y>> \in handling
      BY <1>1, <1>6
    <2>2. In(eventList'[m], y) <=> In(eventList[m], y)
      BY <1>2, <1>3, <1>6
    <2> QED
      BY <1>1, <1>6, <2>1, <2>2, AtOf DEF Kinds
  <1>7. ASSUME NEW k \in Kinds, NEW m \in Names
        PROVE  At(k, m, e)' <=> k = "hand" /\ m = n
    <2>1. In(eventList[m], e) <=> m = n
      BY <1>4, AtOf DEF Kinds
    <2>2. ~In(eventList'[m], e)
      BY <1>2, <1>3, <2>1
    <2>3. ~In(eventStore'[m], e) /\ <<m, e>> \notin handling
      BY <1>1, <1>4, AtOf DEF Kinds
    <2>4. <<m, e>> \in handling' <=> m = n
      BY <1>1, <2>3
    <2> QED
      BY <1>7, <2>2, <2>3, <2>4, AtOf DEF Kinds
  <1>8. Placed'
    <2> DEFINE T == {n}
    <2>1. /\ "hand" \in Kinds /\ T \in SUBSET Names /\ T # {}
          /\ \A l, m \in T : l = m
          /\ \A m \in T : mStages[m] # "none"
      BY <1>4 DEF Kinds
    <2>2. /\ \A y \in Events \ {e} : fate'[y] = fate[y]
          /\ fate'[e] = "alive" <=> T # {}
      BY <1>1, <1>4, <2>1
    <2>3. \A k \in Kinds : \A m \in Names : At(k, m, e)' <=> k = "hand" /\ m \in T
      BY <1>7
    <2> HIDE DEF T
    <2> QED
      BY <1>1, <1>2, <1>6, <2>1, <2>2, <2>3, MovedTo
  <1> QED
    BY <1>5, <1>8

(* The oldest event of a store is moved to a queue, or to none, ...        *)
LEMMA PlaceUnstore ==
    ASSUME Typed, NoDups, Placed, NEW n \in Names, NEW e, e = Head(eventStore[n]),
           eventStore[n] # <<>>, NEW T \in SUBSET Names,
           eventStore' = [eventStore EXCEPT ![n] = Tail(eventStore[n])],
           eventList' = Added(e, T), UNCHANGED <<mStages, handling>>,
           \A l, m \in T : l = m, \A m \in T : mStages[m] # "none",
           fate' = IF T = {} THEN [fate EXCEPT ![e] = "done"] ELSE fate
    PROVE  NoDups' /\ Placed'
  <1>1. /\ e \in Events /\ At("store", n, e)
        /\ eventStore'[n] = Tail(eventStore[n])
        /\ \A m \in Names \ {n} : eventStore'[m] = eventStore[m]
        /\ NoDup(Tail(eventStore[n]))
        /\ \A y : In(Tail(eventStore[n]), y) <=> In(eventStore[n], y) /\ y # e
    BY StoreTailIn DEF Typed
  <1>2. /\ fate[e] = "alive"
        /\ \A l \in Kinds : \A m \in Names : At(l, m, e) <=> l = "store" /\ m = n
    BY <1>1, PlacedOnce DEF Kinds
  <1>3. \A m \in Names : /\ ~In(eventList[m], e) /\ <<m, e>> \notin handling
                         /\ In(eventStore[m], e) <=> m = n
    BY <1>2, AtOf DEF Kinds
  <1>4. \A m \in Names :
           /\ NoDup(eventList'[m])
           /\ \A y : In(eventList'[m], y) <=> In(eventList[m], y) \/ (m \in T /\ y = e)
    <2>1. e \in Events /\ \A m \in Names : ~In(eventList[m], e)
      BY <1>1, <1>3
    <2>2. ASSUME NEW m \in Names
          PROVE  /\ NoDup(Added(e, T)[m])
                 /\ \A y : In(Added(e, T)[m], y) <=> In(eventList[m], y) \/ (m \in T /\ y = e)
      <3>1. PICK x, U : x = e /\ U = T
        OBVIOUS
      <3>2. x \in Events /\ \A l \in Names : ~In(eventList[l], x)
        BY <2>1, <3>1
      <3>3. /\ NoDup(Added(x, U)[m])
            /\ \A y : In(Added(x, U)[m], y) <=> In(eventList[m], y) \/ (m \in U /\ y = x)
        BY <3>2, AddedFresh
      <3> QED
        BY <3>1, <3>3
    <2>3. eventList' = Added(e, T)
      OBVIOUS
    <2> QED
      BY <2>2, <2>3, Zenon
  <1>5. NoDups'
    <2>1. \A m \in Names : NoDup(eventList'[m]) /\ NoDup(eventStore'[m])
      BY <1>1, <1>4 DEF NoDups
    <2> QED
      BY <2>1 DEF NoDups
  <1>6. ASSUME NEW y \in Events \ {e}, NEW k \in Kinds, NEW m \in Names
        PROVE  At(k, m, y)' <=> At(k, m, y)
    <2>1. In(eventStore'[m], y) <=> In(eventStore[m], y)
      BY <1>1, <1>6
    <2>2. In(eventList'[m], y) <=> In(eventList[m], y)
      BY <1>4, <1>6
    <2> QED
      BY <1>6, <2>1, <2>2, AtOf DEF Kinds
  <1>7. ASSUME NEW k \in Kinds, NEW m \in Names
        PROVE  At(k, m, e)' <=> k = "list" /\ m \in T
    <2>1. In(eventList'[m], e) <=> m \in T
      BY <1>3, <1>4
    <2>2. ~In(eventStore'[m], e) /\ <<m, e>> \notin handling'
      BY <1>1, <1>3
    <2> QED
      BY <1>7, <2>1, <2>2, AtOf DEF Kinds
  <1>8. /\ \A y \in Events \ {e} : fate'[y] = fate[y]
        /\ fate'[e] = "alive" <=> T # {}
    BY <1>1, <1>2 DEF Typed
  <1>9. Placed'
    <2>1. "list" \in Kinds
      BY DEF Kinds
    <2> QED
      BY <1>1, <1>6, <1>7, <1>8, <2>1, MovedTo
  <1> QED
    BY <1>5, <1>9

(* ... or becomes the newest.                                              *)
LEMMA PlaceKeep ==
    ASSUME Typed, NoDups, Placed, NEW n \in Names, NEW e, e = Head(eventStore[n]),
           eventStore[n] # <<>>, KeepsOn(n, e), UNCHANGED <<mStages, handling>>
    PROVE  NoDups' /\ Placed'
  <1>1. /\ e \in Events /\ In(eventStore[n], e)
        /\ eventStore'[n] = Append(Tail(eventStore[n]), e)
        /\ \A m \in Names \ {n} : eventStore'[m] = eventStore[m]
        /\ NoDup(Tail(eventStore[n])) /\ Tail(eventStore[n]) \in Seq(Events)
        /\ \A y : In(Tail(eventStore[n]), y) <=> In(eventStore[n], y) /\ y # e
        /\ UNCHANGED <<eventList, fate>>
    BY StoreTailIn DEF Typed, KeepsOn, queueVars, eventVars, At
  <1>2. /\ NoDup(eventStore'[n])
        /\ \A y : In(eventStore'[n], y) <=> In(eventStore[n], y)
    <2>1. ~In(Tail(eventStore[n]), e)
      BY <1>1
    <2>2. /\ NoDup(Append(Tail(eventStore[n]), e))
          /\ \A y : In(Append(Tail(eventStore[n]), e), y)
                     <=> In(Tail(eventStore[n]), y) \/ y = e
      <3> DEFINE q == Tail(eventStore[n])
      <3>1. q \in Seq(Events) /\ NoDup(q) /\ ~In(q, e) /\ e \in Events
        BY <1>1, <2>1
      <3> HIDE DEF q
      <3>2. NoDup(Append(q, e)) /\ \A y : In(Append(q, e), y) <=> In(q, y) \/ y = e
        BY <3>1, AppendIn
      <3> QED
        BY <3>2 DEF q
    <2> QED
      BY <1>1, <2>2
  <1>3. NoDups'
    <2>1. \A m \in Names : NoDup(eventList'[m]) /\ NoDup(eventStore'[m])
      BY <1>1, <1>2 DEF NoDups
    <2> QED
      BY <2>1 DEF NoDups
  <1>4. ASSUME NEW y \in Events, NEW k \in Kinds, NEW m \in Names
        PROVE  At(k, m, y)' <=> At(k, m, y)
    <2>1. In(eventStore'[m], y) <=> In(eventStore[m], y)
      BY <1>1, <1>2
    <2> QED
      BY <1>1, <1>4, <2>1, AtOf DEF Kinds
  <1>5. Placed'
    <2>1. \A y \in Events : (OneAt(y)' <=> OneAt(y)) /\ (Somewhere(y)' <=> Somewhere(y))
      BY <1>4 DEF OneAt, Somewhere
    <2> QED
      BY <1>1, <1>4, <2>1 DEF Placed
  <1> QED
    BY <1>3, <1>5

-----------------------------------------------------------------------------
(* An event that is sent or returned comes to a stage that exists.         *)
LEMMA TargetExists ==
    ASSUME Typed, BackListed, NEW e \in Events, NEW q, q \in {callbacks[e], Tail(callbacks[e])},
           q # <<>>, callbacks[e] # <<>>
    PROVE  Head(q) \in Listing
  <1>1. callbacks[e] \in Seq(Names)
    BY DEF Typed
  <1>2. CASE q = callbacks[e]
    <2>1. 1 \in DOMAIN q /\ Head(q) = q[1]
      BY <1>1, <1>2
    <2> QED
      BY <1>2, <2>1 DEF BackListed
  <1>3. CASE q = Tail(callbacks[e])
    <2>1. q \in Seq(Names)
      BY <1>1, <1>3, TailIn
    <2>2. 1 \in DOMAIN q /\ Head(q) = q[1]
      BY <2>1
    <2>3. 1 + 1 \in DOMAIN callbacks[e] /\ q[1] = callbacks[e][1 + 1]
      BY <1>1, <1>3, <2>2, TailIn
    <2> QED
      BY <2>2, <2>3 DEF BackListed
  <1> QED
    BY <1>2, <1>3

LEMMA NextExists ==
    ASSUME Typed, NextListed, NEW n \in Names, nextStageList[n] # <<>>
    PROVE  Head(nextStageList[n]) \in Listing
  <1>1. nextStageList[n] \in Seq(Names)
    BY DEF Typed
  <1>2. 1 \in DOMAIN nextStageList[n] /\ Head(nextStageList[n]) = nextStageList[n][1]
    BY <1>1
  <1> QED
    BY <1>2 DEF NextListed

(* Where StageEvent::done sends the event.                                 *)
LEMMA DoneTo ==
    ASSUME Typed, BackListed, NEW e \in Events, Done(e),
           \A m \in Listing : mStages[m] # "none"
    PROVE  /\ Target(e) \in SUBSET Names
           /\ \A l, m \in Target(e) : l = m
           /\ \A m \in Target(e) : mStages[m] # "none"
           /\ fate' = IF Target(e) = {} THEN [fate EXCEPT ![e] = "done"] ELSE fate
  <1>1. CASE callbacks[e] = <<>>
    BY <1>1 DEF Done, Target
  <1>2. CASE callbacks[e] # <<>>
    <2>1. Head(callbacks[e]) \in Listing /\ Target(e) = {Head(callbacks[e])}
      BY <1>2, TargetExists DEF Target
    <2>2. Target(e) # {} /\ fate' = fate
      BY <1>2, <2>1 DEF Done
    <2> QED
      BY <2>1, <2>2 DEF Listing
  <1> QED
    BY <1>1, <1>2

LEMMA PlaceHandler ==
    ASSUME PhaseInv, Counted, NoDups, Placed, NEW n \in Names, NEW e \in Events,
           HandlerStep(n, e)
    PROVE  NoDups' /\ Placed'
  <1>0. /\ Typed /\ BackListed /\ NextListed /\ ReturnsSomewhere /\ AtRestOutside
        /\ Existing
    BY DEF PhaseInv
  <1>1. /\ <<n, e>> \in handling /\ UNCHANGED mStages
        /\ \A m \in Listing : mStages[m] # "none"
    BY <1>0, HandlerFrame, HandledStage DEF ConfigVars, stageVars
  <1>2. CASE Complete(n, e)
    <2>1. Done(e) /\ PassOn(n, e, Target(e)) /\ UNCHANGED eventStore
      BY <1>2 DEF Complete
    <2> QED
      BY <1>0, <1>1, <2>1, DoneTo, PlacePass
  <1>3. CASE Store(n, e)
    BY <1>0, <1>3, PlaceStore
  <1>4. CASE RunCallback(n, e)
    <2> DEFINE T == IF Tail(callbacks[e]) = <<>> THEN {} ELSE {Head(Tail(callbacks[e]))}
    <2>1. /\ PassOn(n, e, T) /\ UNCHANGED eventStore /\ callbacks[e] # <<>>
          /\ fate' = IF Tail(callbacks[e]) = <<>> THEN [fate EXCEPT ![e] = "done"]
                     ELSE fate
      BY <1>0, <1>4 DEF RunCallback, ReturnsSomewhere
    <2>2. Tail(callbacks[e]) # <<>> => Head(Tail(callbacks[e])) \in Listing
      BY <1>0, <2>1, TargetExists
    <2>3. /\ T \in SUBSET Names
          /\ \A l, m \in T : l = m
          /\ \A m \in T : mStages[m] # "none"
          /\ fate' = IF T = {} THEN [fate EXCEPT ![e] = "done"] ELSE fate
      BY <1>1, <2>1, <2>2 DEF Listing
    <2> HIDE DEF T
    <2> QED
      BY <1>0, <1>1, <2>1, <2>3, PlacePass
  <1>5. ASSUME NEW callback \in BOOLEAN, Forward(n, e, callback)
        PROVE  NoDups' /\ Placed'
    <2> DEFINE T == {Head(nextStageList[n])}
    <2>1. /\ PassOn(n, e, T) /\ UNCHANGED <<eventStore, fate>>
          /\ nextStageList[n] # <<>>
      BY <1>5 DEF Forward
    <2>2. Head(nextStageList[n]) \in Listing
      BY <1>0, <2>1, NextExists
    <2>3. /\ T \in SUBSET Names
          /\ \A l, m \in T : l = m
          /\ \A m \in T : mStages[m] # "none"
          /\ fate' = IF T = {} THEN [fate EXCEPT ![e] = "done"] ELSE fate
      BY <1>1, <2>1, <2>2 DEF Listing
    <2> HIDE DEF T
    <2> QED
      BY <1>0, <1>1, <2>1, <2>3, PlacePass
  <1> QED
    BY <1>2, <1>3, <1>4, <1>5 DEF HandlerStep

LEMMA PlaceStores ==
    ASSUME PhaseInv, NoDups, Placed, NEW n \in Names, DrainStore(n) \/ Wakeup(n)
    PROVE  NoDups' /\ Placed'
  <1>0. /\ Typed /\ BackListed /\ NextListed /\ AtRestOutside /\ Existing
        /\ DispatchersSend /\ Phases
    BY DEF PhaseInv
  <1>1. PICK e : e = Head(eventStore[n])
    OBVIOUS
  <1>2. /\ e \in Events /\ eventStore[n] # <<>> /\ UNCHANGED <<mStages, handling>>
        /\ \/ Disposes(n, e) \/ KeepsOn(n, e)
           \/ Sends(n, e) /\ (pc # "drain" \/ mStages[n] # "stopping")
    <2>1. CASE Wakeup(n)
      BY <1>0, <1>1, <2>1, WakeupMoves DEF ConfigVars, stageVars
    <2>2. CASE DrainStore(n)
      BY <1>0, <1>1, <2>2, DrainMoves DEF ConfigVars, stageVars, Disposes
    <2> QED
      BY <2>1, <2>2
  <1>3. /\ mStages[n] \in {"connected", "stopping"}
        /\ \A m \in Listing : mStages[m] # "none"
    <2>1. mStages[n] \in {"connected", "stopping"}
      BY <1>0, <1>2 DEF AtRestOutside
    <2> QED
      BY <1>0, <2>1 DEF Existing, Listing
  <1>4. CASE Disposes(n, e)
    <2>1. /\ Target(e) \in SUBSET Names
          /\ \A l, m \in Target(e) : l = m
          /\ \A m \in Target(e) : mStages[m] # "none"
          /\ fate' = IF Target(e) = {} THEN [fate EXCEPT ![e] = "done"] ELSE fate
      BY <1>0, <1>2, <1>3, <1>4, DoneTo DEF Disposes
    <2>2. /\ eventStore' = [eventStore EXCEPT ![n] = Tail(eventStore[n])]
          /\ eventList' = Added(e, Target(e))
      BY <1>4 DEF Disposes
    <2> QED
      BY <1>0, <1>1, <1>2, <2>1, <2>2, PlaceUnstore
  <1>5. CASE KeepsOn(n, e)
    BY <1>0, <1>1, <1>2, <1>5, PlaceKeep
  <1>6. CASE Sends(n, e) /\ (pc # "drain" \/ mStages[n] # "stopping")
    <2>1. n \in Dispatchers /\ (mStages[n] = "stopping" => pc = "cleanup")
      BY <1>0, <1>2, <1>6 DEF DispatchersSend, Phases, StatesIn
    <2>2. Len(nextStageList[n]) = 1
      BY <1>0, <1>3, <2>1 DEF DispatchersSend
    <2>3. Head(nextStageList[n]) \in Listing
      BY <1>0, <2>2, NextExists
    <2> DEFINE T == {Head(nextStageList[n])}
    <2>4. /\ T \in SUBSET Names
          /\ \A l, m \in T : l = m
          /\ \A m \in T : mStages[m] # "none"
          /\ fate' = IF T = {} THEN [fate EXCEPT ![e] = "done"] ELSE fate
          /\ eventStore' = [eventStore EXCEPT ![n] = Tail(eventStore[n])]
          /\ eventList' = Added(e, T)
      BY <1>3, <1>6, <2>3 DEF Sends, eventVars, Listing
    <2> HIDE DEF T
    <2> QED
      BY <1>0, <1>1, <1>2, <2>4, PlaceUnstore
  <1> QED
    BY <1>2, <1>4, <1>5, <1>6

(* The events stay where they are while stages are made and connected.     *)
LEMMA PlaceStays ==
    ASSUME NoDups, Placed, UNCHANGED <<eventList, eventStore, handling, fate>>,
           \A n \in Names : mStages[n] # "none" => mStages'[n] # "none"
    PROVE  NoDups' /\ Placed'
  <1>1. NoDups'
    BY DEF NoDups
  <1>2. \A k \in Kinds : \A n \in Names : \A e : At(k, n, e)' <=> At(k, n, e)
    BY AtOf DEF Kinds
  <1>3. \A e \in Events : (OneAt(e)' <=> OneAt(e)) /\ (Somewhere(e)' <=> Somewhere(e))
    BY <1>2 DEF OneAt, Somewhere
  <1>4. Placed'
    BY <1>2, <1>3 DEF Placed
  <1> QED
    BY <1>1, <1>4

(* When the configuration is cleared, no thread handles an event and no    *)
(* dispatcher has one; those that are left wait in queues, and came late.  *)
LEMMA AllWaiting ==
    ASSUME PhaseInv, Counted, Placed, pc = "clear"
    PROVE  \A n \in Names : /\ eventRef[n] = 0 /\ eventStore[n] = <<>> /\ Busy(n) = 0
                            /\ \A e \in Events : <<n, e>> \notin handling
  <1> SUFFICES ASSUME NEW n \in Names
               PROVE  /\ eventRef[n] = 0 /\ eventStore[n] = <<>> /\ Busy(n) = 0
                      /\ \A e \in Events : <<n, e>> \notin handling
    OBVIOUS
  <1>1. mStages[n] \in {"none", "made", "stopped"}
    BY DEF PhaseInv, Phases, StatesIn
  <1>2. eventRef[n] = 0 /\ eventStore[n] = <<>>
    BY <1>1 DEF PhaseInv, AtRestOutside
  <1>3. Busy(n) = 0
    BY <1>2, BusyNat DEF Counted
  <1>4. HandsOf(n) = {}
    BY <1>3, BusyNat
  <1> QED
    BY <1>2, <1>3, <1>4 DEF HandsOf

LEMMA PlaceClear ==
    ASSUME PhaseInv, Counted, NoDups, Placed, ClearConfig
    PROVE  NoDups' /\ Placed'
  <1>1. /\ pc = "clear" /\ eventList' = [n \in Names |-> <<>>]
        /\ fate' = [e \in Events |-> IF Waiting(e) THEN "deleted" ELSE fate[e]]
        /\ UNCHANGED <<eventStore, handling>>
    BY DEF ClearConfig
  <1>2. \A n \in Names : /\ eventStore[n] = <<>>
                         /\ \A e \in Events : <<n, e>> \notin handling
    BY <1>1, AllWaiting
  <1>3. NoDups'
    BY <1>1, <1>2 DEF NoDups, NoDup
  <1>4. ASSUME NEW k \in Kinds, NEW n \in Names, NEW e \in Events
        PROVE  ~At(k, n, e)'
    <2>1. ~In(eventList'[n], e) /\ ~In(eventStore'[n], e)
      BY <1>1, <1>2 DEF In
    <2> QED
      BY <1>1, <1>2, <1>4, <2>1, AtOf DEF Kinds
  <1>5. ASSUME NEW e \in Events, fate[e] = "alive"
        PROVE  Waiting(e)
    <2>1. PICK k \in Kinds, n \in Names : At(k, n, e)
      BY <1>5 DEF Placed, Somewhere
    <2>2. ~In(eventStore[n], e) /\ <<n, e>> \notin handling
      BY <1>2 DEF In
    <2>3. In(eventList[n], e)
      BY <2>1, <2>2, AtOf DEF Kinds
    <2> QED
      BY <2>3 DEF In, Waiting
  <1>6. \A e \in Events : fate'[e] # "alive"
    BY <1>1, <1>5
  <1>7. Placed'
    BY <1>4, <1>6 DEF Placed, OneAt, Somewhere
  <1> QED
    BY <1>3, <1>7

LEMMA PlaceBuild ==
    ASSUME PhaseInv, Counted, NoDups, Placed, BuildStep
    PROVE  NoDups' /\ Placed'
  <1>0. Typed /\ Phases
    BY DEF PhaseInv
  <1>1. CASE ClearConfig
    BY <1>1, PlaceClear
  <1>2. ASSUME \/ \E made \in 0..ThreadPools : InitThreadPool(made)
               \/ InitStages \/ InitStagesFails \/ GenNextStages
               \/ \E n \in Names : \/ StartStage(n) \/ StartFails(n) \/ Disconnect(n)
                                   \/ Disconnected(n) \/ Drained(n)
               \/ Started \/ Cleanup \/ AllDisconnected
        PROVE  NoDups' /\ Placed'
    <2>1. UNCHANGED <<eventList, eventStore, handling, fate>>
      BY <1>2 DEF InitThreadPool, InitStages, InitStagesFails, GenNextStages, StartStage,
                  StartFails, Disconnect, Disconnected, Drained, Started, Cleanup,
                  AllDisconnected, queueVars, eventVars
    <2>2. CASE InitStages
      <3>1. \A n \in Names : mStages[n] = "none"
        BY <1>0, <2>2 DEF InitStages, Phases, StatesIn
      <3> QED
        BY <2>1, <3>1, PlaceStays
    <2>3. ASSUME NEW n \in Names, StartStage(n) \/ Disconnect(n) \/ Drained(n)
          PROVE  NoDups' /\ Placed'
      <3>1. \E state \in {"connected", "stopping", "stopped"} :
               mStages' = [mStages EXCEPT ![n] = state]
        BY <2>3 DEF StartStage, Disconnect, Drained, AfterDisconnect
      <3>2. \A m \in Names : mStages[m] # "none" => mStages'[m] # "none"
        BY <1>0, <3>1 DEF Typed
      <3> QED
        BY <2>1, <3>2, PlaceStays
    <2>4. ASSUME \/ \E made \in 0..ThreadPools : InitThreadPool(made)
                 \/ InitStagesFails \/ GenNextStages
                 \/ \E n \in Names : StartFails(n) \/ Disconnected(n)
                 \/ Started \/ Cleanup \/ AllDisconnected
          PROVE  NoDups' /\ Placed'
      <3>1. mStages' = mStages
        BY <2>4 DEF InitThreadPool, InitStagesFails, GenNextStages, StartFails,
                    Disconnected, Started, Cleanup, AllDisconnected, stageVars
      <3> QED
        BY <2>1, <3>1, PlaceStays
    <2> QED
      BY <1>2, <2>2, <2>3, <2>4
  <1> QED
    BY <1>1, <1>2 DEF BuildStep

LEMMA PlaceInit == Init => PlaceInv
  <1> SUFFICES ASSUME Init PROVE PlaceInv
    OBVIOUS
  <1>1. \A n \in Names : eventList[n] = <<>> /\ eventStore[n] = <<>>
    BY DEF Init
  <1>2. NoDups
    BY <1>1 DEF NoDups, NoDup
  <1>3. ASSUME NEW k \in Kinds, NEW n \in Names, NEW e \in Events
        PROVE  ~At(k, n, e)
    BY <1>1 DEF At, In, Init
  <1>4. Placed
    BY <1>3 DEF Placed, OneAt, Somewhere, Init
  <1> QED
    BY <1>2, <1>4 DEF PlaceInv

LEMMA PlaceNext ==
    ASSUME PhaseInv, Counted, PlaceInv, [Next]_vars
    PROVE  PlaceInv'
  <1>0. NoDups /\ Placed /\ Typed
    BY DEF PlaceInv, PhaseInv
  <1>1. CASE BuildStep
    BY <1>0, <1>1, PlaceBuild DEF PlaceInv
  <1>2. ASSUME NEW n \in Names, Take(n) PROVE PlaceInv'
    <2>1. PICK e : e = Head(eventList[n])
      OBVIOUS
    <2> QED
      BY <1>0, <1>2, <2>1, PlaceTake DEF PlaceInv
  <1>3. ASSUME NEW n \in Names, DrainStore(n) \/ Wakeup(n) PROVE PlaceInv'
    BY <1>0, <1>3, PlaceStores DEF PlaceInv
  <1>4. ASSUME NEW n \in Names, NEW e \in Events, Inject(e, n) PROVE PlaceInv'
    BY <1>0, <1>4, PlaceInject DEF PlaceInv
  <1>5. ASSUME NEW n \in Names, NEW e \in Events, HandlerStep(n, e) PROVE PlaceInv'
    BY <1>0, <1>5, PlaceHandler DEF PlaceInv
  <1>6. CASE UNCHANGED vars
    BY <1>0, <1>6, PlaceStays DEF vars, PlaceInv, queueVars, stageVars, eventVars
  <1> QED
    BY <1>1, <1>2, <1>3, <1>4, <1>5, <1>6, StepKinds DEF EventStep

-----------------------------------------------------------------------------
(* Only the configuration's end deletes events, and all of them are late.  *)
LEMMA FateFrame ==
    ASSUME PhaseInv, EventStep, NEW e \in Events, fate'[e] = "deleted"
    PROVE  fate[e] = "deleted" /\ late \subseteq late'
  <1>0. Typed
    BY DEF PhaseInv
  <1>1. ASSUME NEW x \in Events, NEW state \in {"alive", "done"},
               fate' = [fate EXCEPT ![x] = state]
        PROVE  fate[e] = "deleted"
    BY <1>0, <1>1 DEF Typed
  <1>2. ASSUME NEW x \in Events, Done(x)
        PROVE  fate[e] = "deleted" /\ late \subseteq late'
    BY <1>1, <1>2, LateGrows DEF Done
  <1>3. ASSUME NEW n \in Names, Take(n)
        PROVE  fate[e] = "deleted" /\ late \subseteq late'
    BY <1>3 DEF Take, eventVars
  <1>4. ASSUME NEW n \in Names, DrainStore(n) \/ Wakeup(n)
        PROVE  fate[e] = "deleted" /\ late \subseteq late'
    <2> DEFINE x == Head(eventStore[n])
    <2>1. /\ x \in Events
          /\ \/ Done(x)
             \/ fate' = fate /\ late \subseteq late'
      BY <1>0, <1>4, DrainMoves, WakeupMoves, LateGrows
      DEF Disposes, Sends, KeepsOn, eventVars
    <2> HIDE DEF x
    <2> QED
      BY <1>2, <2>1
  <1>5. ASSUME NEW n \in Names, NEW x \in Events, Inject(x, n)
        PROVE  fate[e] = "deleted" /\ late \subseteq late'
    BY <1>1, <1>5, LateGrows DEF Inject
  <1>6. ASSUME NEW n \in Names, NEW x \in Events, HandlerStep(n, x)
        PROVE  fate[e] = "deleted" /\ late \subseteq late'
    <2>1. late \subseteq late'
      BY <1>6, HandlerMoves
    <2>2. fate' = fate \/ fate' = [fate EXCEPT ![x] = "done"]
      BY <1>6 DEF HandlerStep, Complete, Store, RunCallback, Forward, Done, eventVars
    <2> QED
      BY <1>1, <2>1, <2>2
  <1> QED
    BY <1>3, <1>4, <1>5, <1>6 DEF EventStep

LEMMA LateNext ==
    ASSUME PhaseInv, RefInv, PlaceInv, OnlyLateDeleted, [Next]_vars
    PROVE  OnlyLateDeleted'
  <1> SUFFICES ASSUME NEW e \in Events, fate'[e] = "deleted" PROVE e \in late'
    BY DEF OnlyLateDeleted
  <1>1. CASE EventStep
    BY <1>1, FateFrame DEF OnlyLateDeleted
  <1>2. CASE ClearConfig
    <2>1. /\ pc = "clear" /\ late' = late
          /\ fate' = [x \in Events |-> IF Waiting(x) THEN "deleted" ELSE fate[x]]
      BY <1>2 DEF ClearConfig
    <2>2. CASE fate[e] = "deleted"
      BY <2>1, <2>2 DEF OnlyLateDeleted
    <2>3. CASE Waiting(e)
      <3>0. PICK n \in Names : \E i \in DOMAIN eventList[n] : eventList[n][i] = e
        BY <2>3 DEF Waiting
      <3>1. PICK i \in DOMAIN eventList[n] : eventList[n][i] = e
        BY <3>0
      <3>2. eventRef[n] = 0 /\ Busy(n) = 0
        BY <2>1, AllWaiting DEF RefInv, PlaceInv
      <3>3. eventList[n] \in Seq(Events)
        BY DEF PhaseInv, Typed
      <3>4. i + Busy(n) > eventRef[n]
        BY <3>2, <3>3
      <3> QED
        BY <2>1, <3>1, <3>4 DEF RefInv, LateTail
    <2> QED
      BY <2>1, <2>2, <2>3
  <1>3. CASE BuildStep /\ ~ClearConfig
    <2>1. late' = late /\ fate' = fate
      BY <1>3 DEF BuildStep, InitThreadPool, InitStages, InitStagesFails, GenNextStages,
           StartStage, StartFails, Disconnect, Disconnected, Drained, Started, Cleanup,
           AllDisconnected, eventVars
    <2> QED
      BY <2>1 DEF OnlyLateDeleted
  <1>4. CASE UNCHANGED vars
    BY <1>4 DEF vars, eventVars, OnlyLateDeleted
  <1> QED
    BY <1>1, <1>2, <1>3, <1>4, StepKinds

-----------------------------------------------------------------------------
(* The inductive invariant of a configuration, through any number of       *)
(* initializations, failures and cleanups.                                 *)
THEOREM ConfigInvariant == Spec => []ConfigInv
  <1>1. Init => ConfigInv
    BY PhaseInit, RefInit, PlaceInit DEF ConfigInv, OnlyLateDeleted, Init
  <1>2. ConfigInv /\ [Next]_vars => ConfigInv'
    <2> SUFFICES ASSUME ConfigInv, [Next]_vars PROVE ConfigInv'
      OBVIOUS
    <2>1. /\ PhaseInv /\ RefInv /\ PlaceInv /\ OnlyLateDeleted /\ Counted /\ Placed
      BY DEF ConfigInv, RefInv, PlaceInv
    <2> QED
      BY <2>1, PhaseNext, RefNext, PlaceNext, LateNext DEF ConfigInv
  <1> QED
    BY <1>1, <1>2, PTL DEF Spec

-----------------------------------------------------------------------------
(* The properties of the runs.                                             *)
LEMMA CopiesOf ==
    ASSUME NEW S, NEW q \in Seq(S), NoDup(q), NEW e
    PROVE  Copies(q, e) = IF In(q, e) THEN 1 ELSE 0
  <1> DEFINE I == {i \in DOMAIN q : q[i] = e}
  <1>1. CASE In(q, e)
    <2>1. PICK i \in DOMAIN q : q[i] = e
      BY <1>1 DEF In
    <2>2. I = {i}
      BY <2>1 DEF NoDup
    <2> QED
      BY <1>1, <2>2, FS_Singleton DEF Copies
  <1>2. CASE ~In(q, e)
    <2>1. I = {}
      BY <1>2 DEF In
    <2> QED
      BY <1>2, <2>1, FS_EmptySet DEF Copies
  <1> QED
    BY <1>1, <1>2

(* The events that refer to a stage are all different, ...                 *)
LEMMA RefBound ==
    ASSUME Typed, Counted, NoDups, Placed, NEW n \in Names
    PROVE  eventRef[n] \in 0..Cardinality(Events)
  <1> DEFINE q == eventList[n]
             rest == Events \ HandsOf(n)
  <1>1. q \in Seq(Events) /\ NoDup(q) /\ eventRef[n] \in Nat
    BY DEF Typed, NoDups
  <1>2. \A i \in DOMAIN q : q[i] \in rest
    <2> SUFFICES ASSUME NEW i \in DOMAIN q, q[i] \in HandsOf(n) PROVE FALSE
      BY <1>1
    <2>1. q[i] \in Events /\ At("list", n, q[i]) /\ At("hand", n, q[i])
      BY <1>1 DEF At, In, HandsOf
    <2> QED
      BY <2>1 DEF Placed, OneAt, Kinds
  <1>3. q \in Injection(1..Len(q), rest)
    BY <1>1, <1>2 DEF Injection, IsInjective, NoDup
  <1>4. HandsOf(n) \in SUBSET Events
    BY DEF HandsOf
  <1>5. /\ IsFiniteSet(rest) /\ IsFiniteSet(HandsOf(n))
        /\ Cardinality(rest) = Cardinality(Events) - Cardinality(Events \cap HandsOf(n))
    BY <1>4, ConfigAssumption, FS_Difference, FS_Subset
  <1>6. Events \cap HandsOf(n) = HandsOf(n)
    BY <1>4
  <1>7. Cardinality(1..Len(q)) <= Cardinality(rest)
    BY <1>3, <1>5, FS_Injection
  <1>8. Len(q) \in Nat /\ Cardinality(1..Len(q)) = Len(q)
    <2>1. Len(q) \in Nat
      BY <1>1
    <2> HIDE DEF q
    <2>2. Cardinality(1..Len(q)) = IF 1 > Len(q) THEN 0 ELSE Len(q) - 1 + 1
      BY <2>1, FS_Interval
    <2> QED
      BY <2>1, <2>2
  <1>9. Busy(n) = Cardinality(HandsOf(n)) /\ Busy(n) \in Nat
    BY BusyNat
  <1>10. eventRef[n] <= Len(q) + Busy(n)
    BY DEF Counted
  <1>11. Cardinality(Events) \in Nat
    BY ConfigAssumption, FS_CardinalityType
  <1>12. Len(q) <= Cardinality(Events) - Busy(n)
    BY <1>5, <1>6, <1>7, <1>8, <1>9
  <1> HIDE DEF q, rest
  <1> QED
    BY <1>1, <1>8, <1>9, <1>10, <1>11, <1>12

LEMMA ConfigTyped ==
    ASSUME ConfigInv
    PROVE  TypeOK
  <1>1. Typed /\ Counted /\ NoDups /\ Placed
    BY DEF ConfigInv, PhaseInv, RefInv, PlaceInv
  <1>2. eventRef \in [Names -> 0..Cardinality(Events)]
    BY <1>1, RefBound DEF Typed
  <1> QED
    BY <1>1, <1>2 DEF Typed, TypeOK

(* ... and an event has one copy, in the only stage where it is.           *)
LEMMA HomeOf ==
    ASSUME Typed, NoDups, NEW e \in Events, NEW n \in Names
    PROVE  /\ Copies(eventList[n], e) = IF At("list", n, e) THEN 1 ELSE 0
           /\ Copies(eventStore[n], e) = IF At("store", n, e) THEN 1 ELSE 0
           /\ n \in Home(e) <=> \E k \in Kinds : At(k, n, e)
  <1>1. /\ eventList[n] \in Seq(Events) /\ NoDup(eventList[n])
        /\ eventStore[n] \in Seq(Events) /\ NoDup(eventStore[n])
    BY DEF Typed, NoDups
  <1>2. /\ Copies(eventList[n], e) = IF In(eventList[n], e) THEN 1 ELSE 0
        /\ Copies(eventStore[n], e) = IF In(eventStore[n], e) THEN 1 ELSE 0
    BY <1>1, CopiesOf
  <1>3. /\ At("list", n, e) <=> In(eventList[n], e)
        /\ At("store", n, e) <=> In(eventStore[n], e)
        /\ At("hand", n, e) <=> <<n, e>> \in handling
    BY DEF At
  <1>4. (\E k \in Kinds : At(k, n, e)) <=> \/ At("list", n, e) \/ At("store", n, e)
                                           \/ At("hand", n, e)
    BY DEF Kinds
  <1> QED
    BY <1>2, <1>3, <1>4 DEF Home

(* An event on its way is in one place, and that stage exists: whatever    *)
(* the pipelines, no stage is deleted while another can still send an      *)
(* event to it or return one to it (SedaConfig::cleanup takes all stages   *)
(* down before any is deleted).                                            *)
THEOREM EventInOnePlaceAlways == Spec => []EventInOnePlace
  <1>1. ConfigInv => EventInOnePlace
    <2> SUFFICES ASSUME ConfigInv PROVE EventInOnePlace
      OBVIOUS
    <2>1. Typed /\ NoDups /\ Placed
      BY DEF ConfigInv, PhaseInv, PlaceInv
    <2>2. ASSUME NEW e \in Events PROVE fate[e] = "alive" <=> Home(e) # {}
      <3>1. Somewhere(e) <=> \E n \in Names : n \in Home(e)
        BY <2>1, HomeOf DEF Somewhere
      <3>2. Home(e) \subseteq Names
        BY DEF Home
      <3> QED
        BY <2>1, <3>1, <3>2 DEF Placed
    <2>3. ASSUME NEW e \in Events, NEW n \in Home(e)
          PROVE  /\ Home(e) = {n} /\ mStages[n] # "none"
                 /\ Copies(eventList[n], e) + Copies(eventStore[n], e)
                      + (IF <<n, e>> \in handling THEN 1 ELSE 0) = 1
      <3>1. n \in Names /\ Home(e) \subseteq Names
        BY DEF Home
      <3>2. PICK k \in Kinds : At(k, n, e)
        BY <2>1, <2>3, <3>1, HomeOf
      <3>3. mStages[n] # "none" /\ OneAt(e)
        BY <2>1, <3>1, <3>2 DEF Placed
      <3>4. ASSUME NEW m \in Home(e) PROVE m = n
        <4>1. m \in Names
          BY <3>1
        <4>2. PICK l \in Kinds : At(l, m, e)
          BY <2>1, <3>4, <4>1, HomeOf
        <4> QED
          BY <3>1, <3>2, <3>3, <4>1, <4>2 DEF OneAt
      <3>5. \A l \in Kinds : At(l, n, e) => l = k
        BY <3>1, <3>2, <3>3 DEF OneAt
      <3>6. /\ Copies(eventList[n], e) = IF At("list", n, e) THEN 1 ELSE 0
            /\ Copies(eventStore[n], e) = IF At("store", n, e) THEN 1 ELSE 0
        BY <2>1, <3>1, HomeOf
      <3>7. At("hand", n, e) <=> <<n, e>> \in handling
        BY DEF At
      <3>8. k = "list" \/ k = "store" \/ k = "hand"
        BY DEF Kinds
      <3>9. {"list", "store", "hand"} = Kinds
        BY DEF Kinds
      <3>10. CASE k = "list"
        <4>1. At("list", n, e) /\ ~At("store", n, e) /\ ~At("hand", n, e)
          BY <3>2, <3>5, <3>9, <3>10
        <4> QED
          BY <2>3, <3>3, <3>4, <3>6, <3>7, <4>1
      <3>11. CASE k = "store"
        <4>1. ~At("list", n, e) /\ At("store", n, e) /\ ~At("hand", n, e)
          BY <3>2, <3>5, <3>9, <3>11
        <4> QED
          BY <2>3, <3>3, <3>4, <3>6, <3>7, <4>1
      <3>12. CASE k = "hand"
        <4>1. ~At("list", n, e) /\ ~At("store", n, e) /\ At("hand", n, e)
          BY <3>2, <3>5, <3>9, <3>12
        <4> QED
          BY <2>3, <3>3, <3>4, <3>6, <3>7, <4>1
      <3> QED
        BY <3>8, <3>10, <3>11, <3>12
    <2> QED
      BY <2>2, <2>3, ConfigTyped DEF EventInOnePlace
  <1> QED
    BY <1>1, ConfigInvariant, PTL

(* An event whose callbacks never run had come late: SedaConfig::cleanup   *)
(* deletes nothing that a connected stage accepted.                        *)
THEOREM OnlyLateDeletedAlways == Spec => []OnlyLateDeleted
  <1>1. ConfigInv => OnlyLateDeleted
    BY DEF ConfigInv
  <1> QED
    BY <1>1, ConfigInvariant, PTL

(* After a failed initialization, a failed start or a cleanup, no stage is *)
(* left.                                                                   *)
THEOREM FailureLeavesNoStageAlways == Spec => []FailureLeavesNoStage
  <1>1. ConfigInv => FailureLeavesNoStage
    <2> SUFFICES ASSUME ConfigInv, pc \in {"failed", "empty"}
                 PROVE  /\ \A n \in Names : mStages[n] = "none" /\ eventRef[n] = 0
                        /\ pc = "empty" => mThreadPools = 0
      BY DEF FailureLeavesNoStage
    <2>1. Phases /\ AtRestOutside
      BY DEF ConfigInv, PhaseInv
    <2>2. \A n \in Names : mStages[n] = "none"
      BY <2>1 DEF Phases, StatesIn
    <2>3. \A n \in Names : eventRef[n] = 0
      BY <2>1, <2>2 DEF AtRestOutside
    <2> QED
      BY <2>1, <2>2, <2>3 DEF Phases
  <1> QED
    BY <1>1, ConfigInvariant, PTL
=============================================================================
