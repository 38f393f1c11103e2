--------------------------- MODULE SedaPoolProofs ---------------------------
(***************************************************************************)
(* Theorems about SedaPool, for any number of threads, stages and events,  *)
(* in four parts, each resting on those before it:                         *)
(*                                                                         *)
(* 1. The pool: TypeOK; the condition runCond of Threadpool loses no       *)
(*    wakeup (a caller of schedule() signals only if nIdles > 0, so        *)
(*    NoLostWakeup needs the meaning of nIdles, IdleCount);                *)
(*    Threadpool::nthreads counts the pool's threads (ThreadsExact).       *)
(*                                                                         *)
(* 2. Stage::eventRef and the calls of connect, disconnect and killThreads *)
(*    (RefInv): RefBalance.                                                *)
(*                                                                         *)
(* 3. Threadpool::killThreads counts its kill events exactly and returns   *)
(*    only when the killer stage is drained (KillReturnsDrained).          *)
(*                                                                         *)
(* 4. Where an event is: in one queue, in the hand of one thread, or       *)
(*    deleted (CallbackAtOwner); and that Stage and Threadpool implement   *)
(*    StagePromise (KeepsPromise).                                         *)
(***************************************************************************)
EXTENDS SedaPool, FiniteSetTheorems, TLAPS

-----------------------------------------------------------------------------
(* Part 1.  The type invariant, one lemma per action.                      *)

LEMMA TypeInit == Init => TypeOK
  <1> SUFFICES ASSUME Init PROVE TypeOK
    OBVIOUS
  <1>1. Cardinality(InitThreads) \in Int
    BY ThreadsAssumption, FS_CardinalityType, FS_Subset DEF Procs
  <1>2. StageTypes
    BY DEF Init, StageTypes, AllStages
  <1>3. PoolTypes
    BY <1>1 DEF Init, PoolTypes
  <1>4. ThreadTypes
    BY ThreadsAssumption
       DEF Init, ThreadTypes, Fits, Procs, AllStages, WorkerPCs, ClientPCs
  <1> QED
    BY <1>2, <1>3, <1>4 DEF TypeOK

(* Where Schedule(p) leaves p, and the effect of its signal: some waiting  *)
(* threads, at least one if there is one and p signals, become runnable.   *)
ScheduleNext(p) == IF owed[p] = 1 THEN AfterSchedule(p) ELSE "sched"

LEMMA SchedulePc ==
    ASSUME TypeOK, NEW p \in Procs, Schedule(p)
    PROVE  \E S \in SUBSET Waiting :
             /\ pc' = [q \in Procs |-> IF q = p THEN ScheduleNext(p)
                                       ELSE IF q \in S THEN "woken" ELSE pc[q]]
             /\ Signals(p) /\ Waiting # {} => S # {}
  <1>1. CASE Signals(p) /\ Waiting # {}
    <2>1. PICK w \in Waiting : pc' = [pc EXCEPT ![p] = ScheduleNext(p),
                                                ![w] = "woken"]
      BY <1>1 DEF Schedule, SignalRunCond, ScheduleNext
    <2>2. w # p
      BY DEF Waiting, Schedule
    <2>3. pc' = [q \in Procs |-> IF q = p THEN ScheduleNext(p)
                                ELSE IF q \in {w} THEN "woken" ELSE pc[q]]
      BY <2>1, <2>2 DEF TypeOK, ThreadTypes
    <2> QED
      BY <2>3, {w} \in SUBSET Waiting
  <1>2. CASE ~(Signals(p) /\ Waiting # {})
    <2>1. pc' = [pc EXCEPT ![p] = ScheduleNext(p)]
      BY <1>2 DEF Schedule, SignalRunCond, ScheduleNext
    <2>2. pc' = [q \in Procs |-> IF q = p THEN ScheduleNext(p)
                                ELSE IF q \in {} THEN "woken" ELSE pc[q]]
      BY <2>1 DEF TypeOK, ThreadTypes
    <2> QED
      BY <1>2, <2>2, {} \in SUBSET Waiting
  <1> QED
    BY <1>1, <1>2

LEMMA ScheduleNextType ==
    ASSUME TypeOK, NEW p \in Procs, Schedule(p)
    PROVE  /\ target[p] \in AllStages
           /\ IF p \in Workers THEN Fits(ScheduleNext(p), runStage[p], event[p])
                               ELSE ScheduleNext(p) \in {"idle", "gen", "sched"}
  <1>1. pc[p] = "sched"
    BY DEF Schedule
  <1>2. target[p] \in AllStages
    BY <1>1 DEF TypeOK, ThreadTypes
  <1>3. CASE p \in Workers
    BY <1>1, <1>2, <1>3
       DEF TypeOK, ThreadTypes, Fits, WorkerPCs, ScheduleNext, AfterSchedule
  <1>4. CASE p \notin Workers
    BY <1>2, <1>4 DEF ScheduleNext, AfterSchedule
  <1> QED
    BY <1>2, <1>3, <1>4

LEMMA TypeSchedule ==
    ASSUME TypeOK, NEW p \in Procs, Schedule(p)
    PROVE  TypeOK'
  <1>1. PICK S \in SUBSET Waiting :
          pc' = [q \in Procs |-> IF q = p THEN ScheduleNext(p)
                                ELSE IF q \in S THEN "woken" ELSE pc[q]]
    BY SchedulePc
  <1>2. /\ target[p] \in AllStages
        /\ IF p \in Workers THEN Fits(ScheduleNext(p), runStage[p], event[p])
                            ELSE ScheduleNext(p) \in {"idle", "gen", "sched"}
    BY ScheduleNextType
  <1>3. /\ runQueue' = Append(runQueue, target[p])
        /\ owed' = [owed EXCEPT ![p] = @ - 1]
        /\ UNCHANGED <<stageVars, eventVars, nIdles, killVars, handVars, target>>
    BY DEF Schedule
  <1>4. StageTypes'
    BY <1>3 DEF TypeOK, StageTypes, stageVars, eventVars
  <1>5. PoolTypes'
    BY <1>2, <1>3 DEF TypeOK, PoolTypes, killVars
  <1>6. \A w \in Workers : Fits(pc'[w], runStage[w], event[w])
    <2> SUFFICES ASSUME NEW w \in Workers
                 PROVE  Fits(pc'[w], runStage[w], event[w])
      OBVIOUS
    <2>1. w \in Procs /\ Fits(pc[w], runStage[w], event[w])
      BY DEF TypeOK, ThreadTypes, Procs
    <2>2. CASE w = p
      BY <1>1, <1>2, <2>1, <2>2
    <2>3. CASE w # p /\ w \in S
      BY <1>1, <2>1, <2>3 DEF Fits, Waiting, WorkerPCs
    <2>4. CASE w # p /\ w \notin S
      BY <1>1, <2>1, <2>4
    <2> QED
      BY <2>2, <2>3, <2>4
  <1>7. \A q \in Procs \ Workers : pc'[q] \in ClientPCs
    BY <1>1, <1>2 DEF TypeOK, ThreadTypes, ClientPCs, Waiting
  <1>8. ThreadTypes'
    <2>1. pc' \in [Procs -> WorkerPCs \cup ClientPCs]
      BY <1>1, <1>6, <1>7 DEF Fits
    <2>2. \A q \in Procs : pc'[q] \in {"sched", "discwait", "discwoken"}
                            => target[q] \in AllStages
      BY <1>1, <1>2 DEF TypeOK, ThreadTypes
    <2>3. owed' \in [Procs -> Int]
      BY <1>3 DEF TypeOK, ThreadTypes
    <2>4. UNCHANGED <<runStage, event, target>>
      BY <1>3 DEF handVars
    <2> QED
      BY <1>6, <1>7, <2>1, <2>2, <2>3, <2>4 DEF TypeOK, ThreadTypes
  <1> QED
    BY <1>4, <1>5, <1>8 DEF TypeOK

(* A worker that goes elsewhere with what fits the place.                  *)
LEMMA WorkerMoves ==
    ASSUME ThreadTypes, NEW w \in Workers, NEW at, at # "sched",
           NEW s \in AllStages \cup {Nil}, NEW e \in Events \cup {KillEvent, Nil},
           Fits(at, s, e),
           pc' = [pc EXCEPT ![w] = at],
           runStage' = [runStage EXCEPT ![w] = s],
           event' = [event EXCEPT ![w] = e],
           UNCHANGED <<target, owed>>
    PROVE  ThreadTypes'
  <1>1. at \in WorkerPCs /\ at \notin {"discwait", "discwoken"}
    BY DEF Fits, WorkerPCs
  <1>2. \A v \in Workers : Fits(pc'[v], runStage'[v], event'[v])
    BY DEF ThreadTypes, Procs
  <1>3. \A p \in Procs : pc'[p] \in {"sched", "discwait", "discwoken"}
                          => target[p] \in AllStages
    BY <1>1 DEF ThreadTypes
  <1> QED
    BY <1>1, <1>2, <1>3 DEF ThreadTypes

(* A client thread that goes elsewhere, perhaps with another target.       *)
LEMMA ClientMoves ==
    ASSUME ThreadTypes, NEW p \in Procs \ Workers, NEW at \in ClientPCs,
           NEW t \in AllStages \cup {Nil}, NEW n \in Int,
           at \in {"sched", "discwait", "discwoken"} => t \in AllStages,
           pc' = [pc EXCEPT ![p] = at],
           target' = [target EXCEPT ![p] = t],
           owed' = [owed EXCEPT ![p] = n],
           UNCHANGED <<runStage, event>>
    PROVE  ThreadTypes'
  <1>1. \A v \in Workers : Fits(pc'[v], runStage'[v], event'[v])
    BY DEF ThreadTypes, Procs
  <1>2. \A q \in Procs : pc'[q] \in {"sched", "discwait", "discwoken"}
                          => target'[q] \in AllStages
    BY DEF ThreadTypes
  <1> QED
    BY <1>1, <1>2 DEF ThreadTypes

LEMMA TypeSleep ==
    ASSUME TypeOK, NEW w \in Workers, Sleep(w)
    PROVE  TypeOK'
  <1> USE DEF Sleep, IdlesAtSleep
  <1>1. StageTypes'
    BY DEF TypeOK, StageTypes, stageVars, eventVars
  <1>2. PoolTypes'
    BY DEF TypeOK, PoolTypes, runVars, killVars
  <1>3. ThreadTypes'
    BY ThreadsAssumption
       DEF TypeOK, ThreadTypes, Fits, WorkerPCs, ClientPCs, Procs, handVars,
           callVars
  <1> QED
    BY <1>1, <1>2, <1>3 DEF TypeOK

LEMMA TypeSpuriousRunWake ==
    ASSUME TypeOK, NEW w \in Workers, SpuriousRunWake(w)
    PROVE  TypeOK'
  <1> USE DEF SpuriousRunWake
  <1>1. StageTypes'
    BY DEF TypeOK, StageTypes, stageVars, eventVars
  <1>2. PoolTypes'
    BY DEF TypeOK, PoolTypes, runVars, killVars
  <1>3. ThreadTypes'
    BY ThreadsAssumption
       DEF TypeOK, ThreadTypes, Fits, WorkerPCs, ClientPCs, Procs, handVars,
           callVars
  <1> QED
    BY <1>1, <1>2, <1>3 DEF TypeOK

LEMMA TypeSpuriousDiscWake ==
    ASSUME TypeOK, NEW p \in Controllers \cup Reapers, SpuriousDiscWake(p)
    PROVE  TypeOK'
  <1> USE DEF SpuriousDiscWake
  <1>1. StageTypes'
    BY DEF TypeOK, StageTypes, stageVars, eventVars
  <1>2. PoolTypes'
    BY DEF TypeOK, PoolTypes, runVars, killVars
  <1>3. ThreadTypes'
    BY ThreadsAssumption
       DEF TypeOK, ThreadTypes, Fits, WorkerPCs, ClientPCs, Procs, handVars,
           callVars
  <1> QED
    BY <1>1, <1>2, <1>3 DEF TypeOK

LEMMA TypeDisconnectResume ==
    ASSUME TypeOK, NEW p \in Controllers \cup Reapers, DisconnectResume(p)
    PROVE  TypeOK'
  <1> USE DEF DisconnectResume, Outstanding
  <1>1. StageTypes'
    BY DEF TypeOK, StageTypes, stageVars, eventVars
  <1>2. PoolTypes'
    BY DEF TypeOK, PoolTypes, runVars, killVars
  <1>3. ThreadTypes'
    BY ThreadsAssumption
       DEF TypeOK, ThreadTypes, Fits, WorkerPCs, ClientPCs, Procs, handVars,
           callVars
  <1> QED
    BY <1>1, <1>2, <1>3 DEF TypeOK

LEMMA TypeAbortKill ==
    ASSUME TypeOK, NEW r \in Reapers, AbortKill(r)
    PROVE  TypeOK'
  <1> USE DEF AbortKill
  <1>1. StageTypes'
    BY DEF TypeOK, StageTypes, stageVars, eventVars
  <1>2. PoolTypes'
    BY DEF TypeOK, PoolTypes, runVars, killVars
  <1>3. ThreadTypes'
    BY ThreadsAssumption
       DEF TypeOK, ThreadTypes, Fits, WorkerPCs, ClientPCs, Procs, handVars,
           callVars
  <1> QED
    BY <1>1, <1>2, <1>3 DEF TypeOK

LEMMA TypeAwaitKills ==
    ASSUME TypeOK, NEW r \in Reapers, AwaitKills(r)
    PROVE  TypeOK'
  <1> USE DEF AwaitKills
  <1>1. StageTypes'
    BY DEF TypeOK, StageTypes, stageVars, eventVars
  <1>2. PoolTypes'
    BY DEF TypeOK, PoolTypes, runVars, killVars
  <1>3. ThreadTypes'
    BY ThreadsAssumption
       DEF TypeOK, ThreadTypes, Fits, WorkerPCs, ClientPCs, Procs, handVars,
           callVars
  <1> QED
    BY <1>1, <1>2, <1>3 DEF TypeOK

LEMMA TypeSpuriousKillWake ==
    ASSUME TypeOK, NEW r \in Reapers, SpuriousKillWake(r)
    PROVE  TypeOK'
  <1> USE DEF SpuriousKillWake
  <1>1. StageTypes'
    BY DEF TypeOK, StageTypes, stageVars, eventVars
  <1>2. PoolTypes'
    BY DEF TypeOK, PoolTypes, runVars, killVars
  <1>3. ThreadTypes'
    BY ThreadsAssumption
       DEF TypeOK, ThreadTypes, Fits, WorkerPCs, ClientPCs, Procs, handVars,
           callVars
  <1> QED
    BY <1>1, <1>2, <1>3 DEF TypeOK

LEMMA TypePopStage ==
    ASSUME TypeOK, NEW w \in Workers, PopStage(w)
    PROVE  TypeOK'
  <1>1. runQueue \in Seq(AllStages) /\ runQueue # <<>>
    BY DEF PopStage, TypeOK, PoolTypes
  <1>2. Head(runQueue) \in AllStages /\ Tail(runQueue) \in Seq(AllStages)
    BY <1>1
  <1>3. StageTypes'
    BY DEF PopStage, TypeOK, StageTypes, stageVars, eventVars
  <1>4. PoolTypes'
    BY <1>2 DEF PopStage, IdlesAtPop, TypeOK, PoolTypes, killVars
  <1>5. ThreadTypes'
    <2>1. Fits("popped", Head(runQueue), event[w])
      BY <1>2 DEF Fits, WorkerPCs
    <2>2. event[w] \in Events \cup {KillEvent, Nil} /\ event' = [event EXCEPT ![w] = event[w]]
      BY DEF PopStage, TypeOK, ThreadTypes
    <2> QED
      BY <1>2, <2>1, <2>2, WorkerMoves DEF PopStage, TypeOK, callVars
  <1> QED
    BY <1>3, <1>4, <1>5 DEF TypeOK

LEMMA TypeRemoveEvent ==
    ASSUME TypeOK, NEW w \in Workers, RemoveEvent(w)
    PROVE  TypeOK'
  <1> DEFINE s == runStage[w]
             e == Head(eventList[s])
  <1>1. s \in AllStages /\ (s # Killer => s \in Stages)
    BY DEF RemoveEvent, TypeOK, ThreadTypes, Fits, AllStages
  <1>2. eventList[s] \in Seq(Events \cup {KillEvent}) /\ eventList[s] # <<>>
    BY <1>1 DEF RemoveEvent, TypeOK, StageTypes
  <1>3. /\ e \in Events \cup {KillEvent}
        /\ s # Killer => e \in Events
        /\ Tail(eventList[s]) \in Seq(Events \cup {KillEvent})
        /\ s # Killer => Tail(eventList[s]) \in Seq(Events)
    <2>1. s # Killer => eventList[s] \in Seq(Events)
      BY <1>1 DEF TypeOK, StageTypes
    <2> QED
      BY <1>2, <2>1
  <1>4. /\ eventList' = [eventList EXCEPT ![s] = Tail(@)]
        /\ event' = [event EXCEPT ![w] = e]
        /\ UNCHANGED <<connected, eventRef, fresh, runVars, killVars, runStage,
                       callVars>>
        /\ IF s = Killer
             THEN /\ pc' = [pc EXCEPT ![w] = "kill"]
                  /\ UNCHANGED <<compCB, cbFlag>>
             ELSE /\ pc' = [pc EXCEPT ![w] = "handle"]
                  /\ compCB' = IF cbFlag[e]
                                 THEN [compCB EXCEPT ![e] = Tail(@)] ELSE compCB
                  /\ cbFlag' = [cbFlag EXCEPT ![e] = FALSE]
    BY DEF RemoveEvent, ClearCallback
  <1> HIDE DEF s, e
  <1>5. /\ eventList' \in [AllStages -> Seq(Events \cup {KillEvent})]
        /\ \A t \in Stages : eventList'[t] \in Seq(Events)
    BY <1>1, <1>3, <1>4, DataAssumption DEF TypeOK, StageTypes, AllStages
  <1>6. /\ compCB' \in [Events -> Seq(Stages)]
        /\ cbFlag' \in [Events -> BOOLEAN]
        /\ \A f \in Events : cbFlag'[f] => compCB'[f] # <<>>
    <2>1. CASE s = Killer
      BY <1>4, <2>1 DEF TypeOK, StageTypes
    <2>2. CASE s # Killer
      <3>1. e \in Events
        BY <1>3, <2>2
      <3>2. cbFlag[e] => compCB[e] # <<>> /\ compCB[e] \in Seq(Stages)
        BY <3>1 DEF TypeOK, StageTypes
      <3>3. compCB' \in [Events -> Seq(Stages)]
        <4>1. cbFlag[e] => Tail(compCB[e]) \in Seq(Stages)
          BY <3>2
        <4> QED
          BY <1>4, <2>2, <3>1, <4>1 DEF TypeOK, StageTypes
      <3>4. cbFlag' \in [Events -> BOOLEAN]
        BY <1>4, <2>2 DEF TypeOK, StageTypes
      <3>5. ASSUME NEW f \in Events, cbFlag'[f] PROVE compCB'[f] # <<>>
        <4>1. f # e
          BY <1>4, <2>2, <3>5 DEF TypeOK, StageTypes
        <4> QED
          BY <1>4, <2>2, <3>5, <4>1 DEF TypeOK, StageTypes
      <3> QED
        BY <3>3, <3>4, <3>5
    <2> QED
      BY <2>1, <2>2
  <1>7. StageTypes'
    BY <1>4, <1>5, <1>6 DEF TypeOK, StageTypes
  <1>8. PoolTypes'
    BY <1>4 DEF TypeOK, PoolTypes, runVars, killVars
  <1>9. ThreadTypes'
    <2> DEFINE at == IF s = Killer THEN "kill" ELSE "handle"
    <2>1. Fits(at, s, e)
      BY <1>1, <1>3 DEF Fits, WorkerPCs
    <2>2. pc' = [pc EXCEPT ![w] = at]
      BY <1>4
    <2>3. s \in AllStages \cup {Nil} /\ runStage' = [runStage EXCEPT ![w] = s]
      BY <1>1, <1>4 DEF s, TypeOK, ThreadTypes
    <2> QED
      BY <1>3, <1>4, <2>1, <2>2, <2>3, WorkerMoves DEF TypeOK, callVars
  <1> QED
    BY <1>7, <1>8, <1>9 DEF TypeOK

LEMMA TypeDoneDelete ==
    ASSUME TypeOK, NEW w \in Workers, DoneDelete(w)
    PROVE  TypeOK'
  <1> USE DEF DoneDelete
  <1>1. event[w] \in Events /\ runStage[w] \in Stages
    BY DEF TypeOK, ThreadTypes, Fits
  <1>2. StageTypes'
    BY <1>1 DEF TypeOK, StageTypes, stageVars
  <1>3. PoolTypes'
    BY DEF TypeOK, PoolTypes, runVars, killVars
  <1>4. ThreadTypes'
    BY ThreadsAssumption
       DEF TypeOK, ThreadTypes, Fits, WorkerPCs, ClientPCs, Procs, callVars
  <1> QED
    BY <1>2, <1>3, <1>4 DEF TypeOK

LEMMA TypeReleaseRef ==
    ASSUME TypeOK, NEW w \in Workers, pc[w] \in {"release", "killrel"},
           NEW next \in {"loop", "none"}, ReleaseRef(w, next),
           UNCHANGED <<eventList, connected, eventVars, runVars, killVars, event,
                       callVars>>
    PROVE  StageTypes' /\ ThreadTypes'
  <1>1. eventRef' \in [AllStages -> Int]
    <2>1. runStage[w] \in AllStages
      BY DEF TypeOK, ThreadTypes, Fits, AllStages
    <2> QED
      BY <2>1 DEF ReleaseRef, TypeOK, StageTypes
  <1>2. StageTypes'
    BY <1>1 DEF TypeOK, StageTypes, eventVars
  <1>3. PICK S \in SUBSET {p \in Procs : pc[p] = "discwait"} :
          pc' = [q \in Procs |-> IF q = w THEN next
                                ELSE IF q \in S THEN "discwoken" ELSE pc[q]]
    <2> DEFINE sleepers == {p \in Procs : pc[p] = "discwait"
                                         /\ target[p] = runStage[w]}
    <2>1. CASE LastRelease(runStage[w]) /\ sleepers # {}
      <3>1. PICK p \in sleepers : pc' = [pc EXCEPT ![w] = next, ![p] = "discwoken"]
        BY <2>1 DEF ReleaseRef
      <3>2. p # w
        BY DEF TypeOK, ThreadTypes, Fits, WorkerPCs
      <3>3. pc' = [q \in Procs |-> IF q = w THEN next
                                  ELSE IF q \in {p} THEN "discwoken" ELSE pc[q]]
        BY <3>1, <3>2 DEF TypeOK, ThreadTypes
      <3> QED
        BY <3>3, {p} \in SUBSET {q \in Procs : pc[q] = "discwait"}
    <2>2. CASE ~(LastRelease(runStage[w]) /\ sleepers # {})
      <3>1. pc' = [pc EXCEPT ![w] = next]
        BY <2>2 DEF ReleaseRef
      <3>2. pc' = [q \in Procs |-> IF q = w THEN next
                                  ELSE IF q \in {} THEN "discwoken" ELSE pc[q]]
        BY <3>1 DEF TypeOK, ThreadTypes
      <3> QED
        BY <3>2, {} \in SUBSET {q \in Procs : pc[q] = "discwait"}
    <2> QED
      BY <2>1, <2>2
  <1>4. /\ runStage' = [runStage EXCEPT ![w] = Nil]
        /\ UNCHANGED <<event, target, owed>>
    BY DEF ReleaseRef, callVars
  <1>5. ASSUME NEW v \in Workers PROVE Fits(pc'[v], runStage'[v], event'[v])
    <2>1. v \in Procs /\ Fits(pc[v], runStage[v], event[v]) /\ v \notin S
      BY DEF TypeOK, ThreadTypes, Procs, Fits, WorkerPCs
    <2>2. CASE v = w
      BY <1>3, <1>4, <2>1, <2>2 DEF Fits, WorkerPCs, TypeOK, ThreadTypes
    <2>3. CASE v # w
      BY <1>3, <1>4, <2>1, <2>3 DEF TypeOK, ThreadTypes
    <2> QED
      BY <2>2, <2>3
  <1>6. \A q \in Procs \ Workers : pc'[q] \in ClientPCs
    BY <1>3 DEF TypeOK, ThreadTypes, ClientPCs
  <1>7. \A q \in Procs : pc'[q] \in {"sched", "discwait", "discwoken"}
                          => target[q] \in AllStages
    BY <1>3 DEF TypeOK, ThreadTypes
  <1>8. pc' \in [Procs -> WorkerPCs \cup ClientPCs]
    BY <1>3, <1>5, <1>6 DEF Fits
  <1>9. ThreadTypes'
    BY <1>4, <1>5, <1>6, <1>7, <1>8 DEF TypeOK, ThreadTypes
  <1> QED
    BY <1>2, <1>9

LEMMA TypeReleaseEvent ==
    ASSUME TypeOK, NEW w \in Workers, ReleaseEvent(w)
    PROVE  TypeOK'
  <1>1. /\ ReleaseRef(w, "loop")
        /\ UNCHANGED <<eventList, connected, eventVars, runVars, killVars, event,
                       callVars>>
    BY DEF ReleaseEvent
  <1>2. StageTypes' /\ ThreadTypes'
    BY <1>1, TypeReleaseRef DEF ReleaseEvent
  <1>3. PoolTypes'
    BY <1>1 DEF TypeOK, PoolTypes, runVars, killVars
  <1> QED
    BY <1>2, <1>3 DEF TypeOK

LEMMA TypeThreadExit ==
    ASSUME TypeOK, NEW w \in Workers, ThreadExit(w)
    PROVE  TypeOK'
  <1>1. /\ ReleaseRef(w, "none")
        /\ UNCHANGED <<eventList, connected, eventVars, runVars, killVars, event,
                       callVars>>
    BY DEF ThreadExit
  <1>2. StageTypes' /\ ThreadTypes'
    BY <1>1, TypeReleaseRef DEF ThreadExit
  <1>3. PoolTypes'
    BY <1>1 DEF TypeOK, PoolTypes, runVars, killVars
  <1> QED
    BY <1>2, <1>3 DEF TypeOK

LEMMA TypeThreadKill ==
    ASSUME TypeOK, NEW w \in Workers, ThreadKill(w)
    PROVE  TypeOK'
  <1> USE DEF ThreadKill
  <1>1. StageTypes'
    BY DEF TypeOK, StageTypes, stageVars, eventVars
  <1>2. PoolTypes'
    BY DEF TypeOK, PoolTypes, runVars, killVars
  <1>3. ThreadTypes'
    BY ThreadsAssumption
       DEF TypeOK, ThreadTypes, Fits, WorkerPCs, ClientPCs, Procs, handVars,
           callVars
  <1> QED
    BY <1>1, <1>2, <1>3 DEF TypeOK

LEMMA TypeConnect ==
    ASSUME TypeOK, NEW c \in Controllers, NEW s \in Stages, Connect(c, s)
    PROVE  TypeOK'
  <1> USE DEF Connect, RefAtConnect, RunsAtConnect
  <1>1. StageTypes'
    BY DEF TypeOK, StageTypes, AllStages, stageVars, eventVars
  <1>2. PoolTypes'
    BY DEF TypeOK, PoolTypes, runVars, killVars
  <1>3. ThreadTypes'
    <2> DEFINE at == IF Len(eventList[s]) = 0 THEN "idle" ELSE "sched"
    <2>1. c \in Procs \ Workers
      BY ThreadsAssumption DEF Procs
    <2>2. at \in ClientPCs /\ s \in AllStages
      BY DEF ClientPCs, AllStages
    <2>3. Len(eventList[s]) \in Int
      BY DEF TypeOK, StageTypes, ThreadTypes, AllStages, Procs
    <2>4. /\ pc' = [pc EXCEPT ![c] = at]
          /\ target' = [target EXCEPT ![c] = s]
          /\ owed' = [owed EXCEPT ![c] = Len(eventList[s])]
          /\ UNCHANGED <<runStage, event>>
      BY DEF handVars, TypeOK, ThreadTypes
    <2>5. ThreadTypes
      BY DEF TypeOK
    <2> HIDE DEF at, Connect
    <2> QED
      BY <2>1, <2>2, <2>3, <2>4, <2>5, ClientMoves
  <1> QED
    BY <1>1, <1>2, <1>3 DEF TypeOK

LEMMA TypeDisconnect ==
    ASSUME TypeOK, NEW c \in Controllers, NEW s \in Stages, Disconnect(c, s)
    PROVE  TypeOK'
  <1> USE DEF Disconnect, Outstanding
  <1>1. StageTypes'
    BY DEF TypeOK, StageTypes, stageVars, eventVars
  <1>2. PoolTypes'
    BY DEF TypeOK, PoolTypes, runVars, killVars
  <1>3. ThreadTypes'
    <2> DEFINE at == IF Outstanding(s) THEN "discwait" ELSE "idle"
    <2>1. c \in Procs \ Workers
      BY ThreadsAssumption DEF Procs
    <2>2. at \in ClientPCs /\ s \in AllStages
      BY DEF ClientPCs, AllStages
    <2>3. owed[c] \in Int
      BY DEF TypeOK, StageTypes, ThreadTypes, AllStages, Procs
    <2>4. /\ pc' = [pc EXCEPT ![c] = at]
          /\ target' = [target EXCEPT ![c] = s]
          /\ owed' = [owed EXCEPT ![c] = owed[c]]
          /\ UNCHANGED <<runStage, event>>
      BY DEF handVars, TypeOK, ThreadTypes
    <2>5. ThreadTypes
      BY DEF TypeOK
    <2> HIDE DEF at, Disconnect
    <2> QED
      BY <2>1, <2>2, <2>3, <2>4, <2>5, ClientMoves
  <1> QED
    BY <1>1, <1>2, <1>3 DEF TypeOK

LEMMA TypeDisconnectKiller ==
    ASSUME TypeOK, NEW r \in Reapers, DisconnectKiller(r)
    PROVE  TypeOK'
  <1> USE DEF DisconnectKiller, Outstanding
  <1>1. StageTypes'
    BY DEF TypeOK, StageTypes, stageVars, eventVars
  <1>2. PoolTypes'
    BY DEF TypeOK, PoolTypes, runVars, killVars
  <1>3. ThreadTypes'
    <2> DEFINE at == IF Outstanding(Killer) THEN "discwait" ELSE "idle"
    <2>1. r \in Procs \ Workers
      BY ThreadsAssumption DEF Procs
    <2>2. at \in ClientPCs /\ Killer \in AllStages
      BY DEF ClientPCs, AllStages
    <2>3. owed[r] \in Int
      BY DEF TypeOK, StageTypes, ThreadTypes, AllStages, Procs
    <2>4. /\ pc' = [pc EXCEPT ![r] = at]
          /\ target' = [target EXCEPT ![r] = Killer]
          /\ owed' = [owed EXCEPT ![r] = owed[r]]
          /\ UNCHANGED <<runStage, event>>
      BY DEF handVars, TypeOK, ThreadTypes
    <2>5. ThreadTypes
      BY DEF TypeOK
    <2> HIDE DEF at, DisconnectKiller
    <2> QED
      BY <2>1, <2>2, <2>3, <2>4, <2>5, ClientMoves
  <1> QED
    BY <1>1, <1>2, <1>3 DEF TypeOK

LEMMA TypeAddThreads ==
    ASSUME TypeOK, NEW r \in Reapers, NEW W \in SUBSET Workers, AddThreads(r, W)
    PROVE  TypeOK'
  <1> USE DEF AddThreads, ThreadsWith
  <1>1. StageTypes'
    BY DEF TypeOK, StageTypes, stageVars, eventVars
  <1>2. PoolTypes'
    BY DEF TypeOK, PoolTypes, runVars, killVars
  <1>3. ThreadTypes'
    BY ThreadsAssumption
       DEF TypeOK, ThreadTypes, Fits, WorkerPCs, ClientPCs, Procs, handVars,
           callVars
  <1> QED
    BY <1>1, <1>2, <1>3 DEF TypeOK

LEMMA TypeBeginKill ==
    ASSUME TypeOK, NEW r \in Reapers, NEW n \in KillSizes, BeginKill(r, n)
    PROVE  TypeOK'
  <1> USE DEF BeginKill, Clamp, RefAtConnect
  <1>1. StageTypes'
    BY DEF TypeOK, StageTypes, AllStages, stageVars, eventVars
  <1>2. PoolTypes'
    BY DEF TypeOK, PoolTypes, runVars, killVars
  <1>3. ThreadTypes'
    BY ThreadsAssumption
       DEF TypeOK, ThreadTypes, Fits, WorkerPCs, ClientPCs, Procs, handVars,
           callVars
  <1> QED
    BY <1>1, <1>2, <1>3 DEF TypeOK

(* Stage::addEvent, whoever calls it.                                      *)
LEMMA AddEventStage ==
    ASSUME TypeOK, NEW p \in Procs, NEW s \in AllStages, NEW next,
           NEW e \in Events \cup {KillEvent}, s \in Stages => e \in Events,
           AddEvent(p, s, e, next)
    PROVE  /\ eventList' \in [AllStages -> Seq(Events \cup {KillEvent})]
           /\ \A t \in Stages : eventList'[t] \in Seq(Events)
           /\ connected' \in [AllStages -> BOOLEAN]
           /\ eventRef' \in [AllStages -> Int]
  <1> USE DEF TypeOK, StageTypes
  <1>1. eventList' = [eventList EXCEPT ![s] = Append(@, e)]
    BY DEF AddEvent
  <1>2. eventList[s] \in Seq(Events \cup {KillEvent})
    OBVIOUS
  <1>3. eventList' \in [AllStages -> Seq(Events \cup {KillEvent})]
    BY <1>1, <1>2
  <1>4. ASSUME NEW t \in Stages PROVE eventList'[t] \in Seq(Events)
    <2>1. t \in AllStages /\ eventList[t] \in Seq(Events)
      BY DEF AllStages
    <2>2. CASE t = s
      BY <1>1, <2>1, <2>2
    <2>3. CASE t # s
      BY <1>1, <2>1, <2>3
    <2> QED
      BY <2>2, <2>3
  <1>5. connected' \in [AllStages -> BOOLEAN] /\ eventRef' \in [AllStages -> Int]
    BY DEF AddEvent
  <1> QED
    BY <1>3, <1>4, <1>5

LEMMA AddEventThread ==
    ASSUME TypeOK, NEW p \in Procs, NEW s \in AllStages, NEW next, NEW e,
           AddEvent(p, s, e, next),
           next \notin {"sched", "discwait", "discwoken"}
    PROVE  /\ pc' = [pc EXCEPT ![p] = IF connected[s] THEN "sched" ELSE next]
           /\ target' \in [Procs -> AllStages \cup {Nil}]
           /\ owed' \in [Procs -> Int]
           /\ \A q \in Procs : pc'[q] \in {"sched", "discwait", "discwoken"}
                                => target'[q] \in AllStages
  <1>1. CASE connected[s]
    <2>1. /\ target' = [target EXCEPT ![p] = s]
          /\ owed' = [owed EXCEPT ![p] = 1]
          /\ pc' = [pc EXCEPT ![p] = "sched"]
      BY <1>1 DEF AddEvent
    <2> QED
      BY <1>1, <2>1 DEF TypeOK, ThreadTypes
  <1>2. CASE ~connected[s]
    <2>1. pc' = [pc EXCEPT ![p] = next] /\ UNCHANGED <<target, owed>>
      BY <1>2 DEF AddEvent
    <2> QED
      BY <1>2, <2>1 DEF TypeOK, ThreadTypes
  <1> QED
    BY <1>1, <1>2

LEMMA WorkerAdds ==
    ASSUME TypeOK, NEW w \in Workers, NEW s \in AllStages, NEW next, NEW e,
           AddEvent(w, s, e, next), pc[w] = "handle",
           NEW ev \in Events \cup {Nil}, event' = [event EXCEPT ![w] = ev],
           next = "release" \/ (next = "handle" /\ ev \in Events),
           UNCHANGED runStage
    PROVE  ThreadTypes'
  <1>1. /\ pc' = [pc EXCEPT ![w] = IF connected[s] THEN "sched" ELSE next]
        /\ target' \in [Procs -> AllStages \cup {Nil}]
        /\ owed' \in [Procs -> Int]
        /\ \A q \in Procs : pc'[q] \in {"sched", "discwait", "discwoken"}
                             => target'[q] \in AllStages
    BY AddEventThread DEF Procs
  <1>2. Fits(IF connected[s] THEN "sched" ELSE next, runStage[w], ev)
    BY DEF TypeOK, ThreadTypes, Fits, WorkerPCs
  <1>3. \A v \in Workers : Fits(pc'[v], runStage'[v], event'[v])
    BY <1>1, <1>2 DEF TypeOK, ThreadTypes, Procs
  <1>4. pc' \in [Procs -> WorkerPCs \cup ClientPCs]
    BY <1>1, <1>2 DEF TypeOK, ThreadTypes, Fits
  <1> QED
    BY <1>1, <1>3, <1>4 DEF TypeOK, ThreadTypes

LEMMA ClientAdds ==
    ASSUME TypeOK, NEW p \in Procs \ Workers, NEW s \in AllStages, NEW next,
           NEW e, AddEvent(p, s, e, next), next \in {"idle", "gen"},
           UNCHANGED handVars
    PROVE  ThreadTypes'
  <1>1. /\ pc' = [pc EXCEPT ![p] = IF connected[s] THEN "sched" ELSE next]
        /\ target' \in [Procs -> AllStages \cup {Nil}]
        /\ owed' \in [Procs -> Int]
        /\ \A q \in Procs : pc'[q] \in {"sched", "discwait", "discwoken"}
                             => target'[q] \in AllStages
    BY AddEventThread
  <1>2. \A v \in Workers : Fits(pc'[v], runStage'[v], event'[v])
    BY <1>1 DEF TypeOK, ThreadTypes, Procs, handVars
  <1>3. \A q \in Procs \ Workers : pc'[q] \in ClientPCs
    BY <1>1 DEF TypeOK, ThreadTypes, ClientPCs
  <1>4. pc' \in [Procs -> WorkerPCs \cup ClientPCs]
    BY <1>1, <1>2, <1>3 DEF TypeOK, ThreadTypes, ClientPCs
  <1> QED
    BY <1>1, <1>2, <1>3, <1>4 DEF TypeOK, ThreadTypes, handVars

LEMMA PushType ==
    ASSUME TypeOK, NEW e \in Events, NEW s \in Stages, MayPushCallback(e, s)
    PROVE  /\ compCB' \in [Events -> Seq(Stages)]
           /\ \A f \in Events : cbFlag[f] => compCB'[f] # <<>>
  <1>1. CASE UNCHANGED compCB
    BY <1>1 DEF TypeOK, StageTypes
  <1>2. CASE compCB' = [compCB EXCEPT ![e] = <<s>> \o @]
    <2>1. compCB[e] \in Seq(Stages) /\ <<s>> \in Seq(Stages)
      BY DEF TypeOK, StageTypes
    <2>2. <<s>> \o compCB[e] \in Seq(Stages) /\ <<s>> \o compCB[e] # <<>>
      BY <2>1
    <2> QED
      BY <1>2, <2>2 DEF TypeOK, StageTypes
  <1> QED
    BY <1>1, <1>2 DEF MayPushCallback

LEMMA TypeForward ==
    ASSUME TypeOK, NEW w \in Workers, NEW s \in Stages, Forward(w, s)
    PROVE  TypeOK'
  <1>1. /\ pc[w] = "handle"
        /\ MayPushCallback(event[w], runStage[w])
        /\ AddEvent(w, s, event[w], "release")
        /\ event' = [event EXCEPT ![w] = Nil]
        /\ UNCHANGED <<cbFlag, fresh, runVars, killVars, runStage>>
    BY DEF Forward
  <1>2. w \in Procs /\ s \in AllStages /\ event[w] \in Events /\ runStage[w] \in Stages
    BY <1>1 DEF TypeOK, ThreadTypes, Fits, Procs, AllStages
  <1>3. StageTypes'
    BY <1>1, <1>2, AddEventStage, PushType DEF TypeOK, StageTypes
  <1>4. PoolTypes'
    BY <1>1 DEF TypeOK, PoolTypes, runVars, killVars
  <1>5. ThreadTypes'
    BY <1>1, <1>2, WorkerAdds
  <1> QED
    BY <1>3, <1>4, <1>5 DEF TypeOK

LEMMA TypeDoneReschedule ==
    ASSUME TypeOK, NEW w \in Workers, DoneReschedule(w)
    PROVE  TypeOK'
  <1> DEFINE e == event[w]
             s == Head(compCB[e])
  <1>1. /\ pc[w] = "handle" /\ compCB[e] # <<>>
        /\ cbFlag' = [cbFlag EXCEPT ![e] = TRUE]
        /\ AddEvent(w, s, e, "release")
        /\ event' = [event EXCEPT ![w] = Nil]
        /\ UNCHANGED <<compCB, fresh, runVars, killVars, runStage>>
    BY DEF DoneReschedule
  <1>2. w \in Procs /\ e \in Events
    BY <1>1 DEF TypeOK, ThreadTypes, Fits, Procs
  <1>3. s \in Stages /\ s \in AllStages
    <2>1. compCB[e] \in Seq(Stages) /\ compCB[e] # <<>>
      BY <1>1, <1>2 DEF TypeOK, StageTypes
    <2> QED
      BY <2>1 DEF AllStages
  <1> HIDE DEF s
  <1>4. StageTypes'
    BY <1>1, <1>2, <1>3, AddEventStage DEF TypeOK, StageTypes
  <1>5. PoolTypes'
    BY <1>1 DEF TypeOK, PoolTypes, runVars, killVars
  <1>6. ThreadTypes'
    BY <1>1, <1>2, <1>3, WorkerAdds
  <1> QED
    BY <1>4, <1>5, <1>6 DEF TypeOK

LEMMA TypeSpawn ==
    ASSUME TypeOK, NEW w \in Workers, NEW e \in Events, NEW s \in Stages,
           Spawn(w, e, s)
    PROVE  TypeOK'
  <1>1. /\ pc[w] = "handle"
        /\ fresh' = fresh \ {e}
        /\ MayPushCallback(e, runStage[w])
        /\ AddEvent(w, s, e, "handle")
        /\ UNCHANGED <<cbFlag, runVars, killVars, handVars>>
    BY DEF Spawn
  <1>2. /\ w \in Procs /\ s \in AllStages /\ runStage[w] \in Stages
        /\ event[w] \in Events
    BY <1>1 DEF TypeOK, ThreadTypes, Fits, Procs, AllStages
  <1>3. StageTypes'
    BY <1>1, <1>2, AddEventStage, PushType DEF TypeOK, StageTypes
  <1>4. PoolTypes'
    BY <1>1 DEF TypeOK, PoolTypes, runVars, killVars
  <1>5. event' = [event EXCEPT ![w] = event[w]] /\ UNCHANGED runStage
    BY <1>1 DEF TypeOK, ThreadTypes, handVars
  <1>6. ThreadTypes'
    BY <1>1, <1>2, <1>5, WorkerAdds
  <1> QED
    BY <1>3, <1>4, <1>6 DEF TypeOK

LEMMA TypeProduce ==
    ASSUME TypeOK, NEW p \in Producers, NEW e \in Events, NEW s \in Stages,
           Produce(p, e, s)
    PROVE  TypeOK'
  <1>1. /\ fresh' = fresh \ {e}
        /\ \E b \in Stages : MayPushCallback(e, b)
        /\ AddEvent(p, s, e, "idle")
        /\ UNCHANGED <<cbFlag, runVars, killVars, handVars>>
    BY DEF Produce
  <1>2. p \in Procs \ Workers /\ s \in AllStages
    BY ThreadsAssumption DEF Procs, AllStages
  <1>3. StageTypes'
    BY <1>1, <1>2, AddEventStage, PushType DEF TypeOK, StageTypes
  <1>4. PoolTypes'
    BY <1>1 DEF TypeOK, PoolTypes, runVars, killVars
  <1>5. ThreadTypes'
    BY <1>1, <1>2, ClientAdds
  <1> QED
    BY <1>3, <1>4, <1>5 DEF TypeOK

LEMMA TypeGenKillEvent ==
    ASSUME TypeOK, NEW r \in Reapers, GenKillEvent(r)
    PROVE  TypeOK'
  <1>1. /\ killLeft' = killLeft - 1
        /\ AddEvent(r, Killer, KillEvent, "gen")
        /\ UNCHANGED <<eventVars, runVars, nthreads, threadsToKill, threadMutex,
                       killAsked, handVars>>
    BY DEF GenKillEvent
  <1>2. r \in Procs \ Workers /\ Killer \in AllStages /\ Killer \notin Stages
    BY ThreadsAssumption, DataAssumption DEF Procs, AllStages
  <1>3. StageTypes'
    BY <1>1, <1>2, AddEventStage DEF TypeOK, StageTypes, eventVars
  <1>4. PoolTypes'
    BY <1>1 DEF TypeOK, PoolTypes, runVars
  <1>5. ThreadTypes'
    BY <1>1, <1>2, ClientAdds
  <1> QED
    BY <1>3, <1>4, <1>5 DEF TypeOK

LEMMA TypeNext == TypeOK /\ [Next]_vars => TypeOK'
  <1> SUFFICES ASSUME TypeOK, [Next]_vars PROVE TypeOK'
    OBVIOUS
  <1>1. CASE UNCHANGED vars
    <2>1. StageTypes'
      BY <1>1 DEF TypeOK, StageTypes, vars
    <2>2. PoolTypes'
      BY <1>1 DEF TypeOK, PoolTypes, vars
    <2>3. ThreadTypes'
      BY <1>1 DEF TypeOK, ThreadTypes, vars
    <2> QED
      BY <2>1, <2>2, <2>3 DEF TypeOK
  <1>2. CASE \E p \in Procs : Schedule(p)
    BY <1>2, TypeSchedule
  <1>3. CASE \E w \in Workers : WorkerStep(w)
    BY <1>3, TypeSleep, TypeSpuriousRunWake, TypePopStage, TypeRemoveEvent,
       TypeForward, TypeDoneReschedule, TypeDoneDelete, TypeSpawn,
       TypeReleaseEvent, TypeThreadKill, TypeThreadExit DEF WorkerStep, Handler
  <1>4. CASE \E p \in Producers, e \in Events, s \in Stages : Produce(p, e, s)
    BY <1>4, TypeProduce
  <1>5. CASE \E c \in Controllers : ControlStep(c)
    BY <1>5, TypeConnect, TypeDisconnect DEF ControlStep
  <1>6. CASE \E r \in Reapers : ReaperStep(r)
    BY <1>6, TypeAddThreads, TypeBeginKill, TypeAbortKill, TypeGenKillEvent,
       TypeAwaitKills, TypeSpuriousKillWake, TypeDisconnectKiller DEF ReaperStep
  <1>7. CASE \E p \in Controllers \cup Reapers :
               SpuriousDiscWake(p) \/ DisconnectResume(p)
    BY <1>7, TypeSpuriousDiscWake, TypeDisconnectResume
  <1> QED
    BY <1>1, <1>2, <1>3, <1>4, <1>5, <1>6, <1>7 DEF Next

(* The state keeps its type: every action leaves well-typed queues and     *)
(* counters, every thread holds a stage and an event that fit the place it *)
(* is at, and an event marked as a callback in transit has a callback.     *)
THEOREM TypeCorrect == Spec => []TypeOK
  BY TypeInit, TypeNext, PTL DEF Spec

-----------------------------------------------------------------------------
Awake == {"loop", "woken", "popped", "handle", "sched", "release"}

LEMMA WorkersFinite ==
    ASSUME NEW S \in SUBSET Workers
    PROVE  IsFiniteSet(S) /\ Cardinality(S) \in Nat
  <1>1. S \in SUBSET Procs
    BY DEF Procs
  <1> QED
    BY <1>1, ThreadsAssumption, FS_Subset, FS_CardinalityType

(* The two facts together.                                                 *)
Wakeup == IdleCount /\ NoLostWakeup

LEMMA WakeupInit == Init => Wakeup
  <1> SUFFICES ASSUME Init PROVE Wakeup
    OBVIOUS
  <1>1. \A w \in Workers : w \in Procs /\ pc[w] \in {"none", "loop"}
    BY DEF Init, Procs
  <1>2. Idle = {} /\ Waiting = {}
    BY <1>1 DEF Idle, Waiting
  <1> QED
    BY <1>2, FS_EmptySet DEF Init, Wakeup, IdleCount, NoLostWakeup

(* A step after which the same threads are inside COND_WAIT, no thread     *)
(* fell asleep and none stopped being available.                           *)
Steady ==
    /\ UNCHANGED runVars
    /\ \A v \in Workers :
         /\ pc'[v] \in {"wait", "woken"} <=> pc[v] \in {"wait", "woken"}
         /\ pc'[v] = "wait" => pc[v] = "wait"
         /\ v \in Available => v \in Available'

LEMMA SteadyKeeps ==
    ASSUME TypeOK, Wakeup, Steady
    PROVE  Wakeup'
  <1>1. Idle' = Idle
    BY DEF Steady, Idle
  <1>2. Waiting' \subseteq Waiting
    BY DEF Steady, Waiting
  <1>3. Available \in SUBSET Available' /\ Available' \in SUBSET Workers
    BY DEF Steady, Available
  <1>4. Cardinality(Available) <= Cardinality(Available')
    BY <1>3, WorkersFinite, FS_Subset
  <1>5. Cardinality(Available) \in Nat /\ Cardinality(Available') \in Nat
    BY <1>3, WorkersFinite
  <1>6. Len(runQueue) \in Nat
    BY DEF TypeOK, PoolTypes
  <1>7. IdleCount'
    BY <1>1 DEF Wakeup, IdleCount, Steady, runVars
  <1>8. NoLostWakeup'
    BY <1>2, <1>4, <1>5, <1>6 DEF Wakeup, NoLostWakeup, Steady, runVars
  <1> QED
    BY <1>7, <1>8 DEF Wakeup

(* Threads outside the pool leave the pool's threads alone.                *)
LEMMA OthersSteady ==
    ASSUME UNCHANGED runVars,
           \A v \in Workers : pc'[v] = pc[v] /\ runStage'[v] = runStage[v]
    PROVE  Steady
  BY DEF Steady, Available

(* One pool thread moves on, from outside COND_WAIT.                       *)
LEMMA WorkerSteady ==
    ASSUME NEW w \in Workers, UNCHANGED runVars,
           \A v \in Workers \ {w} :
              pc'[v] = pc[v] /\ runStage'[v] = runStage[v],
           pc[w] \notin {"wait", "woken"},
           pc'[w] \notin {"wait", "woken"},
           w \in Available => pc'[w] \in Awake /\ runStage'[w] # Killer
    PROVE  Steady
  BY DEF Steady, Available, Awake

(* The steps of clients, controllers and reapers.                          *)
LEMMA ClientsSteady ==
    ASSUME TypeOK, NEW p \in Producers \cup Controllers \cup Reapers,
           UNCHANGED runStage, UNCHANGED runVars,
           NEW at, pc' = [pc EXCEPT ![p] = at]
    PROVE  Steady
  <1>1. p \notin Workers
    BY ThreadsAssumption
  <1>2. \A v \in Workers : pc'[v] = pc[v] /\ runStage'[v] = runStage[v]
    BY <1>1 DEF TypeOK, ThreadTypes
  <1> QED
    BY <1>2, OthersSteady

LEMMA AddEventPc ==
    ASSUME NEW p, NEW s, NEW e, NEW next, AddEvent(p, s, e, next)
    PROVE  \/ pc' = [pc EXCEPT ![p] = "sched"]
           \/ pc' = [pc EXCEPT ![p] = next]
  BY DEF AddEvent

LEMMA ProduceSteady ==
    ASSUME TypeOK, NEW p \in Producers, NEW e \in Events, NEW s \in Stages,
           Produce(p, e, s)
    PROVE  Steady
  <1>1. UNCHANGED runStage /\ UNCHANGED runVars
    BY DEF Produce, handVars
  <1>2. \E at : pc' = [pc EXCEPT ![p] = at]
    BY AddEventPc DEF Produce
  <1> QED
    BY <1>1, <1>2, ClientsSteady

LEMMA ControlSteady ==
    ASSUME TypeOK, NEW c \in Controllers, NEW s \in Stages,
           Connect(c, s) \/ Disconnect(c, s)
    PROVE  Steady
  <1>1. UNCHANGED runStage /\ UNCHANGED runVars
    BY DEF Connect, Disconnect, handVars
  <1>2. \E at : pc' = [pc EXCEPT ![c] = at]
    BY DEF Connect, Disconnect
  <1> QED
    BY <1>1, <1>2, ClientsSteady

LEMMA DisconnectingSteady ==
    ASSUME TypeOK, NEW p \in Controllers \cup Reapers,
           SpuriousDiscWake(p) \/ DisconnectResume(p)
    PROVE  Steady
  <1>1. UNCHANGED runStage /\ UNCHANGED runVars
    BY DEF SpuriousDiscWake, DisconnectResume, handVars
  <1>2. \E at : pc' = [pc EXCEPT ![p] = at]
    BY DEF SpuriousDiscWake, DisconnectResume
  <1> QED
    BY <1>1, <1>2, ClientsSteady

LEMMA KillingSteady ==
    ASSUME TypeOK, NEW r \in Reapers,
           \/ \E n \in KillSizes : BeginKill(r, n)
           \/ AbortKill(r) \/ GenKillEvent(r) \/ AwaitKills(r)
           \/ SpuriousKillWake(r) \/ DisconnectKiller(r)
    PROVE  Steady
  <1>1. UNCHANGED runStage /\ UNCHANGED runVars
    BY DEF BeginKill, AbortKill, GenKillEvent, AwaitKills, SpuriousKillWake,
           DisconnectKiller, handVars
  <1>2. \E at : pc' = [pc EXCEPT ![r] = at]
    <2>1. CASE GenKillEvent(r)
      BY <2>1, AddEventPc DEF GenKillEvent
    <2>2. CASE ~GenKillEvent(r)
      BY <2>2 DEF BeginKill, AbortKill, AwaitKills, SpuriousKillWake,
                  DisconnectKiller
    <2> QED
      BY <2>1, <2>2
  <1> QED
    BY <1>1, <1>2, ClientsSteady

LEMMA AddThreadsSteady ==
    ASSUME TypeOK, NEW r \in Reapers, NEW W \in SUBSET Workers, AddThreads(r, W)
    PROVE  Steady
  <1>1. \A v \in Workers : pc'[v] = IF v \in W THEN "loop" ELSE pc[v]
    BY DEF AddThreads, Procs
  <1>2. \A v \in W : pc[v] = "none"
    BY DEF AddThreads
  <1>3. UNCHANGED runStage /\ UNCHANGED runVars
    BY DEF AddThreads, handVars
  <1> QED
    BY <1>1, <1>2, <1>3 DEF Steady, Available

-----------------------------------------------------------------------------
(* The steps of pool threads between taking a stage off the run queue and  *)
(* coming back to it.                                                      *)
LEMMA MoveSteady ==
    ASSUME TypeOK, NEW w \in Workers, UNCHANGED runVars, NEW at,
           pc' = [pc EXCEPT ![w] = at],
           pc[w] \notin {"wait", "woken"}, at \notin {"wait", "woken"},
           UNCHANGED runStage, w \in Available => at \in Awake
    PROVE  Steady
  <1>1. w \in Procs /\ \A v \in Workers : v \in Procs
    BY DEF Procs
  <1>2. /\ pc'[w] = at
        /\ \A v \in Workers \ {w} : pc'[v] = pc[v] /\ runStage'[v] = runStage[v]
    BY <1>1 DEF TypeOK, ThreadTypes
  <1>3. w \in Available => runStage'[w] # Killer
    BY DEF Available
  <1> QED
    BY <1>2, <1>3, WorkerSteady

LEMMA RemoveEventSteady ==
    ASSUME TypeOK, NEW w \in Workers, RemoveEvent(w)
    PROVE  Steady
  <1>1. /\ pc[w] = "popped"
        /\ UNCHANGED runVars /\ UNCHANGED runStage
        /\ \/ runStage[w] = Killer /\ pc' = [pc EXCEPT ![w] = "kill"]
           \/ pc' = [pc EXCEPT ![w] = "handle"]
    BY DEF RemoveEvent
  <1>2. CASE runStage[w] = Killer /\ pc' = [pc EXCEPT ![w] = "kill"]
    BY <1>1, <1>2, MoveSteady DEF Available
  <1>3. CASE pc' = [pc EXCEPT ![w] = "handle"]
    BY <1>1, <1>3, MoveSteady DEF Awake
  <1> QED
    BY <1>1, <1>2, <1>3

LEMMA HandlerSteady ==
    ASSUME TypeOK, NEW w \in Workers,
           \/ Handler(w)
           \/ \E e \in Events, s \in Stages : Spawn(w, e, s)
    PROVE  Steady
  <1>1. /\ pc[w] = "handle"
        /\ UNCHANGED runVars /\ UNCHANGED runStage
        /\ \/ \E s, e, next : /\ next \in {"handle", "release"}
                              /\ AddEvent(w, s, e, next)
           \/ pc' = [pc EXCEPT ![w] = "release"]
    BY DEF Handler, Forward, DoneReschedule, DoneDelete, Spawn, handVars
  <1>2. \E at \in {"handle", "release", "sched"} : pc' = [pc EXCEPT ![w] = at]
    BY <1>1, AddEventPc
  <1> QED
    BY <1>1, <1>2, MoveSteady DEF Awake

(* A thread that waits for a stage to drain or for kills is not the pool's.*)
LEMMA WaiterNoWorker ==
    ASSUME TypeOK, NEW p \in Procs, pc[p] \in {"discwait", "killwait"}
    PROVE  p \notin Workers
  BY DEF TypeOK, ThreadTypes, Fits, WorkerPCs

LEMMA ReleaseRefPc ==
    ASSUME TypeOK, NEW w \in Workers, NEW next, ReleaseRef(w, next)
    PROVE  pc'[w] = next /\ \A v \in Workers \ {w} : pc'[v] = pc[v]
  <1>1. \/ pc' = [pc EXCEPT ![w] = next]
        \/ \E p \in Procs : /\ pc[p] = "discwait"
                            /\ pc' = [pc EXCEPT ![w] = next, ![p] = "discwoken"]
    BY DEF ReleaseRef
  <1>2. CASE pc' = [pc EXCEPT ![w] = next]
    BY <1>2 DEF TypeOK, ThreadTypes, Procs
  <1>3. CASE \E p \in Procs : /\ pc[p] = "discwait"
                               /\ pc' = [pc EXCEPT ![w] = next, ![p] = "discwoken"]
    <2>1. PICK p \in Procs : /\ pc[p] = "discwait"
                             /\ pc' = [pc EXCEPT ![w] = next, ![p] = "discwoken"]
      BY <1>3
    <2>2. p \notin Workers
      BY <2>1, WaiterNoWorker
    <2> QED
      BY <2>1, <2>2 DEF TypeOK, ThreadTypes, Procs
  <1> QED
    BY <1>1, <1>2, <1>3

LEMMA ReleaseRefSteady ==
    ASSUME TypeOK, NEW w \in Workers, NEW next, ReleaseRef(w, next),
           UNCHANGED runVars, pc[w] \notin {"wait", "woken"},
           next \notin {"wait", "woken"}, w \in Available => next \in Awake
    PROVE  Steady
  <1>1. pc'[w] = next /\ \A v \in Workers \ {w} : pc'[v] = pc[v]
    BY ReleaseRefPc
  <1>2. /\ runStage'[w] = Nil
        /\ \A v \in Workers \ {w} : runStage'[v] = runStage[v]
    BY DEF ReleaseRef, TypeOK, ThreadTypes
  <1>3. Nil # Killer
    BY ThreadsAssumption DEF AllStages
  <1> QED
    BY <1>1, <1>2, <1>3, WorkerSteady

LEMMA ReleaseSteady ==
    ASSUME TypeOK, NEW w \in Workers, ReleaseEvent(w) \/ ThreadExit(w)
    PROVE  Steady
  <1>1. CASE ReleaseEvent(w)
    BY <1>1, ReleaseRefSteady DEF ReleaseEvent, Awake
  <1>2. CASE ThreadExit(w)
    BY <1>2, ReleaseRefSteady DEF ThreadExit, Available
  <1> QED
    BY <1>1, <1>2

LEMMA ThreadKillPc ==
    ASSUME TypeOK, NEW w \in Workers, ThreadKill(w)
    PROVE  pc'[w] = "killrel" /\ \A v \in Workers \ {w} : pc'[v] = pc[v]
  <1>1. \/ pc' = [pc EXCEPT ![w] = "killrel"]
        \/ \E r \in Reapers : pc' = [pc EXCEPT ![w] = "killrel", ![r] = "killwoken"]
    BY DEF ThreadKill
  <1>2. \A r \in Reapers : r \notin Workers
    BY ThreadsAssumption
  <1> QED
    BY <1>1, <1>2 DEF TypeOK, ThreadTypes, Procs

LEMMA ThreadKillSteady ==
    ASSUME TypeOK, NEW w \in Workers, ThreadKill(w)
    PROVE  Steady
  <1>1. pc[w] = "kill" /\ UNCHANGED runVars /\ UNCHANGED runStage
    BY DEF ThreadKill
  <1>2. w \notin Available
    BY <1>1 DEF Available
  <1>3. pc'[w] = "killrel" /\ \A v \in Workers \ {w} : pc'[v] = pc[v]
    BY ThreadKillPc
  <1> QED
    BY <1>1, <1>2, <1>3, WorkerSteady

-----------------------------------------------------------------------------
(* A thread falls asleep only on an empty run queue.                       *)
LEMMA WakeupSleep ==
    ASSUME TypeOK, Wakeup, NEW w \in Workers, Sleep(w)
    PROVE  Wakeup'
  <1>1. /\ pc[w] \in {"loop", "woken"}
        /\ runQueue' = <<>>
        /\ nIdles' = IF pc[w] = "loop" THEN nIdles + 1 ELSE nIdles
        /\ pc' = [pc EXCEPT ![w] = "wait"]
    BY DEF Sleep, IdlesAtSleep
  <1>2. Idle' = Idle \cup {w}
    BY <1>1 DEF Idle, TypeOK, ThreadTypes, Procs
  <1>3. pc[w] = "loop" <=> w \notin Idle
    BY <1>1 DEF Idle
  <1>4. IsFiniteSet(Idle)
    BY WorkersFinite DEF Idle
  <1>5. IdleCount'
    BY <1>1, <1>2, <1>3, <1>4, FS_AddElement DEF Wakeup, IdleCount
  <1>6. Cardinality(Available') \in Nat
    BY WorkersFinite DEF Available
  <1>7. NoLostWakeup'
    BY <1>1, <1>6 DEF NoLostWakeup
  <1> QED
    BY <1>5, <1>7 DEF Wakeup

LEMMA WakeupSpurious ==
    ASSUME TypeOK, Wakeup, NEW w \in Workers, SpuriousRunWake(w)
    PROVE  Wakeup'
  <1>1. Steady
    BY DEF SpuriousRunWake, Steady, Available, handVars, TypeOK, ThreadTypes,
           Procs, Fits
  <1> QED
    BY <1>1, SteadyKeeps

(* The head of the run queue leaves together with the thread taking it.    *)
LEMMA WakeupPopStage ==
    ASSUME TypeOK, Wakeup, NEW w \in Workers, PopStage(w)
    PROVE  Wakeup'
  <1>1. /\ pc[w] \in {"loop", "woken"}
        /\ runQueue # <<>> /\ runQueue' = Tail(runQueue)
        /\ nIdles' = IF pc[w] = "woken" THEN nIdles - 1 ELSE nIdles
        /\ pc' = [pc EXCEPT ![w] = "popped"]
        /\ \A v \in Workers \ {w} : runStage'[v] = runStage[v]
    BY DEF PopStage, IdlesAtPop, TypeOK, ThreadTypes
  <1>2. Idle' = Idle \ {w}
    BY <1>1 DEF Idle, TypeOK, ThreadTypes, Procs
  <1>3. pc[w] = "woken" <=> w \in Idle
    BY <1>1 DEF Idle
  <1>4. IsFiniteSet(Idle)
    BY WorkersFinite DEF Idle
  <1>5. IdleCount'
    BY <1>1, <1>2, <1>3, <1>4, FS_RemoveElement DEF Wakeup, IdleCount
  <1>6. NoLostWakeup'
    <2>1. Waiting' = Waiting
      BY <1>1 DEF Waiting, TypeOK, ThreadTypes, Procs
    <2>2. Available \ {w} \in SUBSET Available' /\ Available' \in SUBSET Workers
      BY <1>1 DEF Available, TypeOK, ThreadTypes, Procs
    <2>3. Available \in SUBSET Workers
      BY DEF Available
    <2>4. Cardinality(Available \ {w}) >= Cardinality(Available) - 1
      BY <2>3, WorkersFinite, FS_RemoveElement
    <2>5. Cardinality(Available \ {w}) <= Cardinality(Available')
      BY <2>2, WorkersFinite, FS_Subset
    <2>6. /\ Cardinality(Available) \in Nat /\ Cardinality(Available') \in Nat
          /\ Cardinality(Available \ {w}) \in Nat
      BY <2>2, <2>3, WorkersFinite
    <2>7. Len(runQueue) \in Nat /\ Len(runQueue') = Len(runQueue) - 1
      BY <1>1 DEF TypeOK, PoolTypes
    <2> QED
      BY <2>1, <2>4, <2>5, <2>6, <2>7 DEF Wakeup, NoLostWakeup
  <1> QED
    BY <1>5, <1>6 DEF Wakeup

(* What schedule() appends is covered by the thread it wakes; if it wakes  *)
(* none although some thread sleeps, the queue was empty and the caller    *)
(* itself will come for the new entry.                                     *)
LEMMA WakeupSchedule ==
    ASSUME TypeOK, Wakeup, NEW p \in Procs, Schedule(p)
    PROVE  Wakeup'
  <1>1. PICK S \in SUBSET Waiting :
          /\ pc' = [q \in Procs |-> IF q = p THEN ScheduleNext(p)
                                    ELSE IF q \in S THEN "woken" ELSE pc[q]]
          /\ Signals(p) /\ Waiting # {} => S # {}
    BY SchedulePc
  <1>2. /\ pc[p] = "sched"
        /\ runQueue' = Append(runQueue, target[p])
        /\ UNCHANGED nIdles /\ UNCHANGED runStage
    BY DEF Schedule, handVars
  <1>3. ScheduleNext(p) \notin {"wait", "woken"}
    BY <1>2, ThreadsAssumption, ScheduleNextType
       DEF ScheduleNext, AfterSchedule
  <1>4. /\ runQueue \in Seq(AllStages) /\ target[p] \in AllStages
        /\ Len(runQueue) \in Nat /\ Len(runQueue') = Len(runQueue) + 1
    BY <1>2, ScheduleNextType DEF TypeOK, PoolTypes
  <1>5. \A v \in Workers : v \in Procs
    BY DEF Procs
  <1>6. Idle' = Idle
    BY <1>1, <1>2, <1>3, <1>5 DEF Idle, Waiting
  <1>7. IdleCount'
    BY <1>2, <1>6 DEF Wakeup, IdleCount
  <1>8. Waiting' \subseteq Waiting
    BY <1>1, <1>3, <1>5 DEF Waiting
  <1>9. p \in Workers => p \in Available'
    <2>1. p \in Workers => /\ ScheduleNext(p) \in Awake
                           /\ runStage[p] # Killer
      BY <1>2, DataAssumption
         DEF ScheduleNext, AfterSchedule, Awake, TypeOK, ThreadTypes, Fits
    <2> QED
      BY <1>1, <1>2, <2>1 DEF Available, Awake
  <1>10. Available \cup S \in SUBSET Available' /\ Available' \in SUBSET Workers
    <2>1. \A v \in Available : v \in Available'
      BY <1>1, <1>2, <1>5, <1>9 DEF Available, Waiting
    <2>2. \A v \in S : v \in Available'
      <3>1. ASSUME NEW v \in S PROVE runStage[v] = Nil /\ pc'[v] = "woken"
        BY <1>1, <1>2, <1>5 DEF Waiting, TypeOK, ThreadTypes, Fits
      <3>2. Nil # Killer
        BY ThreadsAssumption DEF AllStages
      <3> QED
        BY <1>2, <3>1, <3>2 DEF Available, Waiting
    <2> QED
      BY <2>1, <2>2 DEF Available
  <1>11. Cardinality(Available) \in Nat /\ Cardinality(Available') \in Nat
    BY WorkersFinite DEF Available
  <1>12. NoLostWakeup'
    <2> SUFFICES ASSUME Waiting' # {}
                 PROVE  Len(runQueue') <= Cardinality(Available')
      BY DEF NoLostWakeup
    <2>1. Waiting # {} /\ Len(runQueue) <= Cardinality(Available)
      BY <1>8 DEF Wakeup, NoLostWakeup
    <2>2. CASE Signals(p)
      <3>1. PICK v \in S : TRUE
        BY <1>1, <2>1, <2>2
      <3>2. v \notin Available
        BY DEF Waiting, Available
      <3>3. Available \in SUBSET Workers
        BY DEF Available
      <3>4. /\ IsFiniteSet(Available)
            /\ Cardinality(Available \cup {v}) = Cardinality(Available) + 1
        BY <3>2, <3>3, WorkersFinite, FS_AddElement
      <3>5. Cardinality(Available \cup {v}) <= Cardinality(Available')
        BY <1>10, WorkersFinite, FS_Subset
      <3> QED
        BY <1>4, <1>11, <2>1, <3>4, <3>5
    <2>3. CASE ~Signals(p)
      <3>1. nIdles > 0
        <4>1. Waiting \subseteq Idle /\ Idle \in SUBSET Workers
          BY DEF Waiting, Idle
        <4>2. Cardinality(Idle) \in Nat /\ Cardinality(Idle) # 0
          BY <2>1, <4>1, WorkersFinite, FS_EmptySet
        <4> QED
          BY <4>2 DEF Wakeup, IdleCount
      <3>2. runQueue = <<>> /\ p \in Workers
        BY <2>3, <3>1 DEF Signals
      <3>3. Cardinality(Available') # 0
        BY <1>9, <1>10, <3>2, WorkersFinite, FS_EmptySet
      <3> QED
        BY <1>4, <1>11, <3>2, <3>3
    <2> QED
      BY <2>2, <2>3
  <1> QED
    BY <1>7, <1>12 DEF Wakeup

LEMMA WakeupNext == TypeOK /\ Wakeup /\ [Next]_vars => Wakeup'
  <1> SUFFICES ASSUME TypeOK, Wakeup, [Next]_vars PROVE Wakeup'
    OBVIOUS
  <1>1. CASE UNCHANGED vars
    <2>1. UNCHANGED runVars /\ UNCHANGED pc /\ UNCHANGED runStage
      BY <1>1 DEF vars, runVars
    <2> QED
      BY <2>1, OthersSteady, SteadyKeeps
  <1>2. CASE \E p \in Procs : Schedule(p)
    BY <1>2, WakeupSchedule
  <1>3. ASSUME NEW w \in Workers, WorkerStep(w) PROVE Wakeup'
    <2>1. CASE Sleep(w)
      BY <2>1, WakeupSleep
    <2>2. CASE SpuriousRunWake(w)
      BY <2>2, WakeupSpurious
    <2>3. CASE PopStage(w)
      BY <2>3, WakeupPopStage
    <2>4. CASE RemoveEvent(w)
      BY <2>4, RemoveEventSteady, SteadyKeeps
    <2>5. CASE \/ Handler(w)
               \/ \E e \in Events, s \in Stages : Spawn(w, e, s)
      BY <2>5, HandlerSteady, SteadyKeeps
    <2>6. CASE ReleaseEvent(w) \/ ThreadExit(w)
      BY <2>6, ReleaseSteady, SteadyKeeps
    <2>7. CASE ThreadKill(w)
      BY <2>7, ThreadKillSteady, SteadyKeeps
    <2> QED
      BY <1>3, <2>1, <2>2, <2>3, <2>4, <2>5, <2>6, <2>7 DEF WorkerStep
  <1>4. CASE \E p \in Producers, e \in Events, s \in Stages : Produce(p, e, s)
    BY <1>4, ProduceSteady, SteadyKeeps
  <1>5. CASE \E c \in Controllers : ControlStep(c)
    BY <1>5, ControlSteady, SteadyKeeps DEF ControlStep
  <1>6. ASSUME NEW r \in Reapers, ReaperStep(r) PROVE Wakeup'
    <2>1. CASE \E W \in SUBSET Workers : AddThreads(r, W)
      BY <2>1, AddThreadsSteady, SteadyKeeps
    <2>2. CASE ~\E W \in SUBSET Workers : AddThreads(r, W)
      BY <1>6, <2>2, KillingSteady, SteadyKeeps DEF ReaperStep
    <2> QED
      BY <2>1, <2>2
  <1>7. CASE \E p \in Controllers \cup Reapers :
               SpuriousDiscWake(p) \/ DisconnectResume(p)
    BY <1>7, DisconnectingSteady, SteadyKeeps
  <1> QED
    BY <1>1, <1>2, <1>3, <1>4, <1>5, <1>6, <1>7 DEF Next

(* Threadpool::nIdles counts the threads inside COND_WAIT, and whenever a  *)
(* thread sleeps there, every entry of runQueue has an awake thread coming *)
(* for it, although schedule() leaves out the signal when a thread of the  *)
(* pool finds the queue empty, and although kill events end threads.       *)
THEOREM WakeupCorrect == Spec => [](IdleCount /\ NoLostWakeup)
  <1>1. Init => TypeOK /\ Wakeup
    BY TypeInit, WakeupInit
  <1>2. TypeOK /\ Wakeup /\ [Next]_vars => (TypeOK /\ Wakeup)'
    BY TypeNext, WakeupNext
  <1>3. TypeOK /\ Wakeup => IdleCount /\ NoLostWakeup
    BY DEF Wakeup
  <1> QED
    BY <1>1, <1>2, <1>3, PTL DEF Spec

-----------------------------------------------------------------------------
(* The threads that the pool counts as its own.                            *)
Live == {w \in Workers : pc[w] \notin {"none", "killrel"}}

LEMMA ThreadsInit == Init => ThreadsExact
  <1> SUFFICES ASSUME Init PROVE ThreadsExact
    OBVIOUS
  <1>1. \A w \in Workers : pc[w] = IF w \in InitThreads THEN "loop" ELSE "none"
    BY DEF Init, Procs
  <1>2. Live = InitThreads
    BY <1>1, ThreadsAssumption DEF Live
  <1> QED
    BY <1>2 DEF Init, ThreadsExact, Live

(* A step after which the same threads count and so does nthreads.         *)
LEMMA SameThreads ==
    ASSUME ThreadsExact, nthreads' = nthreads,
           \A v \in Workers : pc'[v] \in {"none", "killrel"}
                                <=> pc[v] \in {"none", "killrel"}
    PROVE  ThreadsExact'
  <1>1. Live' = Live
    BY DEF Live
  <1> QED
    BY <1>1 DEF ThreadsExact, Live

LEMMA ClientKeepsThreads ==
    ASSUME TypeOK, ThreadsExact, nthreads' = nthreads,
           NEW p \in Producers \cup Controllers \cup Reapers,
           NEW at, pc' = [pc EXCEPT ![p] = at]
    PROVE  ThreadsExact'
  <1>1. p \notin Workers
    BY ThreadsAssumption
  <1>2. \A v \in Workers : pc'[v] = pc[v]
    BY <1>1 DEF TypeOK, ThreadTypes
  <1> QED
    BY <1>2, SameThreads

LEMMA WorkerKeepsThreads ==
    ASSUME TypeOK, ThreadsExact, nthreads' = nthreads, NEW w \in Workers,
           NEW at, pc' = [pc EXCEPT ![w] = at],
           pc[w] \notin {"none", "killrel"}, at \notin {"none", "killrel"}
    PROVE  ThreadsExact'
  <1>1. pc'[w] = at /\ \A v \in Workers \ {w} : pc'[v] = pc[v]
    BY DEF TypeOK, ThreadTypes, Procs
  <1> QED
    BY <1>1, SameThreads

-----------------------------------------------------------------------------
LEMMA ThreadsSchedule ==
    ASSUME TypeOK, ThreadsExact, NEW p \in Procs, Schedule(p)
    PROVE  ThreadsExact'
  <1>1. PICK S \in SUBSET Waiting :
          pc' = [q \in Procs |-> IF q = p THEN ScheduleNext(p)
                                 ELSE IF q \in S THEN "woken" ELSE pc[q]]
    BY SchedulePc
  <1>2. pc[p] = "sched" /\ nthreads' = nthreads
    BY DEF Schedule, killVars
  <1>3. ScheduleNext(p) \notin {"none", "killrel"}
    BY DEF ScheduleNext, AfterSchedule
  <1>4. \A v \in Workers : pc'[v] \in {"none", "killrel"}
                              <=> pc[v] \in {"none", "killrel"}
    BY <1>1, <1>2, <1>3 DEF Waiting, Procs
  <1> QED
    BY <1>2, <1>4, SameThreads

LEMMA ThreadsRun ==
    ASSUME TypeOK, ThreadsExact, NEW w \in Workers,
           \/ Sleep(w) \/ SpuriousRunWake(w) \/ PopStage(w) \/ RemoveEvent(w)
           \/ Handler(w) \/ (\E e \in Events, s \in Stages : Spawn(w, e, s))
    PROVE  ThreadsExact'
  <1>1. nthreads' = nthreads
    BY DEF Sleep, SpuriousRunWake, PopStage, RemoveEvent, Handler, Forward,
           DoneReschedule, DoneDelete, Spawn, killVars
  <1>2. /\ pc[w] \notin {"none", "killrel"}
        /\ \E at : /\ at \notin {"none", "killrel"}
                   /\ pc' = [pc EXCEPT ![w] = at]
    <2>1. CASE Sleep(w) \/ SpuriousRunWake(w) \/ PopStage(w) \/ RemoveEvent(w)
      BY <2>1 DEF Sleep, SpuriousRunWake, PopStage, RemoveEvent
    <2>2. CASE Handler(w) \/ (\E e \in Events, s \in Stages : Spawn(w, e, s))
      <3>1. pc[w] = "handle"
        BY <2>2 DEF Handler, Forward, DoneReschedule, DoneDelete, Spawn
      <3>2. \/ \E s, e, next : /\ next \in {"handle", "release"}
                               /\ AddEvent(w, s, e, next)
            \/ pc' = [pc EXCEPT ![w] = "release"]
        BY <2>2 DEF Handler, Forward, DoneReschedule, DoneDelete, Spawn
      <3> QED
        BY <3>1, <3>2, AddEventPc
    <2> QED
      BY <2>1, <2>2
  <1> QED
    BY <1>1, <1>2, WorkerKeepsThreads

LEMMA ThreadsRelease ==
    ASSUME TypeOK, ThreadsExact, NEW w \in Workers,
           ReleaseEvent(w) \/ ThreadExit(w)
    PROVE  ThreadsExact'
  <1>1. PICK next :
          /\ ReleaseRef(w, next)
          /\ next \in {"none", "killrel"} <=> pc[w] \in {"none", "killrel"}
    BY DEF ReleaseEvent, ThreadExit
  <1>2. nthreads' = nthreads
    BY DEF ReleaseEvent, ThreadExit, killVars
  <1>3. pc'[w] = next /\ \A v \in Workers \ {w} : pc'[v] = pc[v]
    BY <1>1, ReleaseRefPc
  <1> QED
    BY <1>1, <1>2, <1>3, SameThreads

(* threadKill takes one thread out of both the count and the pool.         *)
LEMMA ThreadsKill ==
    ASSUME TypeOK, ThreadsExact, NEW w \in Workers, ThreadKill(w)
    PROVE  ThreadsExact'
  <1>1. pc[w] = "kill" /\ nthreads' = nthreads - 1
    BY DEF ThreadKill
  <1>2. pc'[w] = "killrel" /\ \A v \in Workers \ {w} : pc'[v] = pc[v]
    BY ThreadKillPc
  <1>3. Live' = Live \ {w} /\ w \in Live
    BY <1>1, <1>2 DEF Live
  <1>4. IsFiniteSet(Live)
    BY WorkersFinite DEF Live
  <1> QED
    BY <1>1, <1>3, <1>4, FS_RemoveElement DEF ThreadsExact, Live

LEMMA ThreadsAdd ==
    ASSUME TypeOK, ThreadsExact, NEW r \in Reapers, NEW W \in SUBSET Workers,
           AddThreads(r, W)
    PROVE  ThreadsExact'
  <1>1. /\ \A v \in Workers : pc'[v] = IF v \in W THEN "loop" ELSE pc[v]
        /\ \A v \in W : pc[v] = "none"
        /\ nthreads' = nthreads + Cardinality(W)
    BY DEF AddThreads, ThreadsWith, Procs
  <1>2. Live' = Live \cup W /\ Live \cap W = {}
    BY <1>1 DEF Live
  <1>3. IsFiniteSet(Live) /\ IsFiniteSet(W)
    BY WorkersFinite DEF Live
  <1>4. Cardinality(Live \cup W)
          = Cardinality(Live) + Cardinality(W) - Cardinality(Live \cap W)
    BY <1>3, FS_Union
  <1>5. Cardinality(Live \cup W) = Cardinality(Live) + Cardinality(W)
    <2>1. Cardinality(Live) \in Nat /\ Cardinality(W) \in Nat
      BY <1>3, FS_CardinalityType
    <2> QED
      BY <1>2, <1>4, <2>1, FS_EmptySet
  <1> QED
    BY <1>1, <1>2, <1>5 DEF ThreadsExact, Live

LEMMA ThreadsClients ==
    ASSUME TypeOK, ThreadsExact, NEW p \in Producers \cup Controllers \cup Reapers,
           \/ \E e \in Events, s \in Stages : Produce(p, e, s)
           \/ ControlStep(p)
           \/ \E n \in KillSizes : BeginKill(p, n)
           \/ AbortKill(p) \/ GenKillEvent(p) \/ AwaitKills(p)
           \/ SpuriousKillWake(p) \/ DisconnectKiller(p)
           \/ SpuriousDiscWake(p) \/ DisconnectResume(p)
    PROVE  ThreadsExact'
  <1>1. nthreads' = nthreads
    BY DEF Produce, ControlStep, Connect, Disconnect, BeginKill, AbortKill,
           GenKillEvent, AwaitKills, SpuriousKillWake, DisconnectKiller,
           SpuriousDiscWake, DisconnectResume, killVars
  <1>2. \E at : pc' = [pc EXCEPT ![p] = at]
    <2>1. CASE \E s, e, next : AddEvent(p, s, e, next)
      BY <2>1, AddEventPc
    <2>2. CASE ~\E s, e, next : AddEvent(p, s, e, next)
      BY <2>2 DEF Produce, ControlStep, Connect, Disconnect, BeginKill,
              AbortKill, GenKillEvent, AwaitKills, SpuriousKillWake,
              DisconnectKiller, SpuriousDiscWake, DisconnectResume
    <2> QED
      BY <2>1, <2>2
  <1> QED
    BY <1>1, <1>2, ClientKeepsThreads

LEMMA ThreadsNext == TypeOK /\ ThreadsExact /\ [Next]_vars => ThreadsExact'
  <1> SUFFICES ASSUME TypeOK, ThreadsExact, [Next]_vars PROVE ThreadsExact'
    OBVIOUS
  <1>1. CASE UNCHANGED vars
    <2>1. UNCHANGED pc /\ UNCHANGED nthreads
      BY <1>1 DEF vars
    <2> QED
      BY <2>1, SameThreads
  <1>2. CASE \E p \in Procs : Schedule(p)
    BY <1>2, ThreadsSchedule
  <1>3. CASE \E w \in Workers : WorkerStep(w)
    BY <1>3, ThreadsRun, ThreadsRelease, ThreadsKill DEF WorkerStep
  <1>4. CASE \E p \in Producers, e \in Events, s \in Stages : Produce(p, e, s)
    BY <1>4, ThreadsClients
  <1>5. CASE \E c \in Controllers : ControlStep(c)
    BY <1>5, ThreadsClients
  <1>6. CASE \E r \in Reapers : ReaperStep(r)
    BY <1>6, ThreadsAdd, ThreadsClients DEF ReaperStep
  <1>7. CASE \E p \in Controllers \cup Reapers :
               SpuriousDiscWake(p) \/ DisconnectResume(p)
    BY <1>7, ThreadsClients
  <1> QED
    BY <1>1, <1>2, <1>3, <1>4, <1>5, <1>6, <1>7 DEF Next

(* Threadpool::numThreads is exact between addThreads, killThreads and     *)
(* threadKill: nthreads is the number of threads that will still take work.*)
THEOREM ThreadsCorrect == Spec => []ThreadsExact
  <1>1. Init => TypeOK /\ ThreadsExact
    BY TypeInit, ThreadsInit
  <1>2. TypeOK /\ ThreadsExact /\ [Next]_vars => (TypeOK /\ ThreadsExact)'
    BY TypeNext, ThreadsNext
  <1> QED
    BY <1>1, <1>2, PTL DEF Spec

-----------------------------------------------------------------------------
(* Part 2.  RefBalance, stage by stage.  The killer stage gets no event    *)
(* while it is not connected.                                              *)
Runs(s) == Cardinality(QueuedRuns(s))
Calls(s) == Cardinality(Owing(s))
Takers(s) == Cardinality(Popped(s))
Handlers(s) == Cardinality(Serving(s))

Balance(s) ==
    /\ IsFiniteSet(Owing(s))
    /\ eventRef[s] = Runs(s) + Calls(s) + Handlers(s)
    /\ Runs(s) + Calls(s) + Takers(s) <= Len(eventList[s])
    /\ connected[s] \/ s = Killer
         => Runs(s) + Calls(s) + Takers(s) = Len(eventList[s])

(* Only a thread in Stage::addEvent or connect owes calls of schedule().   *)
OwedExact ==
    \A p \in Procs : owed[p] \in Nat /\ (owed[p] > 0 <=> pc[p] = "sched")

(* A stage is connected or disconnected by one controller at a time, which *)
(* waits only for a stage that is no longer connected.                     *)
Controlled ==
    /\ \A p \in Producers : pc[p] \in {"idle", "sched"}
    /\ \A c \in Controllers :
         /\ pc[c] \in {"idle", "sched", "discwait", "discwoken"}
         /\ pc[c] # "idle" => target[c] \in Stages
         /\ pc[c] \in {"discwait", "discwoken"} => ~connected[target[c]]
         /\ pc[c] = "discwait" => eventRef[target[c]] > 0
    /\ \A c, d \in Controllers :
         pc[c] # "idle" /\ pc[d] # "idle" /\ target[c] = target[d] => c = d
    /\ \A s \in Stages :
         ~connected[s] /\ eventRef[s] # 0 => \E c \in Controllers : Leaving(c, s)

(* One call of killThreads at a time has the killer stage connected, and   *)
(* threadMutex but for its wait.                                           *)
Killing(r) == pc[r] \in {"gen", "sched", "killwait", "killwoken"}

Reaped ==
    /\ \A r \in Reapers :
         /\ Killing(r) => connected[Killer]
         /\ pc[r] \in {"gen", "sched"} => threadMutex = r
         /\ pc[r] \in {"sched", "discwait", "discwoken"} => target[r] = Killer
         /\ pc[r] \in {"discwait", "discwoken"}
              => threadMutex = r /\ ~connected[Killer]
         /\ pc[r] = "discwait" => eventRef[Killer] > 0
    /\ \A r, q \in Reapers : Killing(r) /\ Killing(q) => r = q
    /\ ~connected[Killer] /\ eventRef[Killer] # 0
         => \E r \in Reapers : Leaving(r, Killer)

Balanced == \A s \in AllStages : Balance(s)
RefInv == Balanced /\ OwedExact /\ Controlled /\ Reaped

-----------------------------------------------------------------------------
(* How the sets that are counted change.                                   *)
Places(q, s) == {i \in DOMAIN q : q[i] = s}

LEMMA PlacesFinite ==
    ASSUME NEW q \in Seq(AllStages), NEW s
    PROVE  IsFiniteSet(Places(q, s)) /\ Cardinality(Places(q, s)) \in Nat
  <1>1. IsFiniteSet(1..Len(q))
    BY FS_Interval
  <1>2. Places(q, s) \in SUBSET (1..Len(q))
    BY DEF Places
  <1> QED
    BY <1>1, <1>2, FS_Subset, FS_CardinalityType

LEMMA PlacesAppend ==
    ASSUME NEW q \in Seq(AllStages), NEW t \in AllStages, NEW s
    PROVE  Cardinality(Places(Append(q, t), s))
             = Cardinality(Places(q, s)) + IF t = s THEN 1 ELSE 0
  <1> DEFINE n == Len(q) + 1
  <1>1. /\ n \in Nat /\ DOMAIN Append(q, t) = 1..n /\ DOMAIN q = 1..n - 1
        /\ \A i \in 1..n - 1 : Append(q, t)[i] = q[i]
        /\ Append(q, t)[n] = t
    OBVIOUS
  <1> HIDE DEF n
  <1>2. IsFiniteSet(Places(q, s)) /\ n \notin Places(q, s)
    <2>1. n \notin Places(q, s)
      BY <1>1 DEF Places
    <2> QED
      BY <2>1, PlacesFinite
  <1>3. CASE t = s
    <2>1. Places(Append(q, t), s) = Places(q, s) \cup {n}
      BY <1>1, <1>3 DEF Places
    <2> QED
      BY <1>2, <1>3, <2>1, FS_AddElement
  <1>4. CASE t # s
    <2>1. Places(Append(q, t), s) = Places(q, s)
      BY <1>1, <1>4 DEF Places
    <2> QED
      BY <1>4, <2>1, PlacesFinite
  <1> QED
    BY <1>3, <1>4

LEMMA PlacesTail ==
    ASSUME NEW q \in Seq(AllStages), q # <<>>, NEW s
    PROVE  Cardinality(Places(q, s))
             = Cardinality(Places(Tail(q), s)) + IF Head(q) = s THEN 1 ELSE 0
  <1> DEFINE S == Places(Tail(q), s)
             T == Places(q, s) \ {1}
             f == [i \in S |-> i + 1]
  <1>0. /\ Len(q) \in Nat /\ Len(q) > 0 /\ DOMAIN q = 1..Len(q)
        /\ DOMAIN Tail(q) = 1..Len(q) - 1
        /\ \A i \in DOMAIN Tail(q) : Tail(q)[i] = q[i + 1]
        /\ Head(q) = q[1] /\ Tail(q) \in Seq(AllStages)
    OBVIOUS
  <1>1. IsFiniteSet(S) /\ IsFiniteSet(Places(q, s))
    BY <1>0, PlacesFinite
  <1>2. \A i \in S : i \in Int /\ i + 1 \in T
    BY <1>0 DEF Places
  <1>3. \A j \in T : j - 1 \in S /\ j = (j - 1) + 1
    BY <1>0 DEF Places
  <1> HIDE DEF S, T
  <1>4. f \in Bijection(S, T)
    BY <1>2, <1>3 DEF Bijection, Injection, Surjection, IsInjective
  <1>5. Cardinality(T) = Cardinality(S)
    BY <1>1, <1>4, FS_Bijection DEF ExistsBijection
  <1>6. 1 \in Places(q, s) <=> Head(q) = s
    BY <1>0 DEF Places
  <1>7. Cardinality(Places(q, s)) \in Nat /\ Cardinality(S) \in Nat
    BY <1>1, FS_CardinalityType
  <1>8. Cardinality(T) = IF 1 \in Places(q, s) THEN Cardinality(Places(q, s)) - 1
                         ELSE Cardinality(Places(q, s))
    BY <1>1, FS_RemoveElement DEF T
  <1> QED
    BY <1>5, <1>6, <1>7, <1>8 DEF S

LEMMA OwingIn ==
    ASSUME NEW s, NEW x
    PROVE  x \in Owing(s) <=>
             \E p \in Procs : \E i \in 1..owed[p] : target[p] = s /\ x = <<p, i>>
  BY DEF Owing

LEMMA OwingSame ==
    ASSUME NEW s, \A p \in Procs : /\ owed'[p] = owed[p]
                                   /\ 1..owed[p] = {} \/ target'[p] = target[p]
    PROVE  Owing(s)' = Owing(s)
  <1>1. \A x : x \in Owing(s)' <=>
          \E p \in Procs : \E i \in 1..owed'[p] : target'[p] = s /\ x = <<p, i>>
    BY DEF Owing
  <1> QED
    BY <1>1, OwingIn

(* The numbers of a balance.                                               *)
LEMMA Numbers ==
    ASSUME TypeOK, NEW s \in AllStages, Balance(s)
    PROVE  /\ Runs(s) \in Nat /\ Calls(s) \in Nat /\ Takers(s) \in Nat /\ Handlers(s) \in Nat
           /\ IsFiniteSet(Popped(s)) /\ IsFiniteSet(Serving(s)) /\ Takers(s) <= Handlers(s)
           /\ Len(eventList[s]) \in Nat /\ eventRef[s] \in Int
           /\ runQueue \in Seq(AllStages) /\ QueuedRuns(s) = Places(runQueue, s)
  <1>1. QueuedRuns(s) = Places(runQueue, s) /\ runQueue \in Seq(AllStages)
    BY DEF QueuedRuns, Places, TypeOK, PoolTypes
  <1>2. Popped(s) \in SUBSET Serving(s) /\ Serving(s) \in SUBSET Workers
    BY DEF Popped, Serving
  <1>3. IsFiniteSet(Popped(s)) /\ IsFiniteSet(Serving(s))
        /\ Takers(s) \in Nat /\ Handlers(s) \in Nat /\ Takers(s) <= Handlers(s)
    BY <1>2, WorkersFinite, FS_Subset DEF Takers, Handlers
  <1>4. Runs(s) \in Nat
    BY <1>1, PlacesFinite DEF Runs
  <1>5. Calls(s) \in Nat
    BY FS_CardinalityType DEF Calls, Balance
  <1> QED
    BY <1>1, <1>3, <1>4, <1>5 DEF TypeOK, StageTypes

(* A step that changes none of them for s.                                 *)
LEMMA SameBalance ==
    ASSUME TypeOK, NEW s \in AllStages, Balance(s), runQueue' = runQueue,
           Owing(s)' = Owing(s), Popped(s)' = Popped(s), Serving(s)' = Serving(s),
           eventRef'[s] = eventRef[s], eventList'[s] = eventList[s],
           connected'[s] => connected[s]
    PROVE  Balance(s)'
  <1>1. QueuedRuns(s)' = QueuedRuns(s)
    BY DEF QueuedRuns
  <1> QED
    BY <1>1 DEF Balance, Runs, Calls, Takers, Handlers

-----------------------------------------------------------------------------
(* Every step keeps the balance.                                           *)
LEMMA WorkersSame ==
    ASSUME NEW s, \A v \in Workers : /\ runStage'[v] = runStage[v]
                                     /\ pc'[v] = "popped" <=> pc[v] = "popped"
    PROVE  Popped(s)' = Popped(s) /\ Serving(s)' = Serving(s)
  BY DEF Popped, Serving

(* No count changes, and no stage is connected.                            *)
Calm ==
    /\ UNCHANGED <<runQueue, eventRef, eventList>>
    /\ \A p \in Procs : /\ owed'[p] = owed[p]
                        /\ pc[p] # "sched" => owed[p] = 0
                        /\ pc[p] = "sched" => target'[p] = target[p]
    /\ \A v \in Workers : /\ runStage'[v] = runStage[v]
                          /\ pc'[v] = "popped" <=> pc[v] = "popped"
    /\ \A s \in AllStages : connected'[s] => connected[s]

LEMMA CalmBalance ==
    ASSUME TypeOK, Balanced, Calm
    PROVE  Balanced'
  <1> SUFFICES ASSUME NEW s \in AllStages PROVE Balance(s)'
    BY DEF Balanced
  <1>1. Owing(s)' = Owing(s)
    BY OwingSame DEF Calm
  <1>2. Popped(s)' = Popped(s) /\ Serving(s)' = Serving(s)
    BY WorkersSame DEF Calm
  <1> QED
    BY <1>1, <1>2, SameBalance DEF Calm, Balanced

LEMMA ScheduleBalance ==
    ASSUME TypeOK, Balanced, OwedExact, NEW p \in Procs, Schedule(p)
    PROVE  Balanced'
  <1> SUFFICES ASSUME NEW s \in AllStages PROVE Balance(s)'
    BY DEF Balanced
  <1>1. /\ pc[p] = "sched" /\ runQueue' = Append(runQueue, target[p])
        /\ owed' = [owed EXCEPT ![p] = @ - 1]
        /\ UNCHANGED <<eventList, connected, eventRef, target, runStage>>
    BY DEF Schedule, stageVars, handVars
  <1>2. target[p] \in AllStages /\ owed[p] \in Nat /\ owed[p] > 0
    BY <1>1 DEF TypeOK, ThreadTypes, OwedExact
  <1>3. Balance(s)
    BY DEF Balanced
  <1> DEFINE d == IF target[p] = s THEN 1 ELSE 0
  <1>4. Runs(s)' = Runs(s) + d
    <2>1. QueuedRuns(s)' = Places(Append(runQueue, target[p]), s)
      BY <1>1 DEF QueuedRuns, Places
    <2> QED
      BY <1>2, <1>3, <2>1, Numbers, PlacesAppend DEF Runs
  <1>5. IsFiniteSet(Owing(s))' /\ Calls(s)' = Calls(s) - d
    <2>1. \A q \in Procs : owed'[q] = IF q = p THEN owed[p] - 1 ELSE owed[q]
      BY <1>1 DEF TypeOK, ThreadTypes
    <2>2. \A x : x \in Owing(s)' <=>
            \E q \in Procs : \E i \in 1..owed'[q] : target[q] = s /\ x = <<q, i>>
      BY <1>1 DEF Owing
    <2>3. CASE target[p] = s
      <3>1. <<p, owed[p]>> \in Owing(s)
        BY <1>2, <2>3, OwingIn
      <3>2. \A x : x \in Owing(s)' <=> x \in Owing(s) /\ x # <<p, owed[p]>>
        <4>1. \A q \in Procs : \A i : i \in 1..owed'[q]
                <=> i \in 1..owed[q] /\ <<q, i>> # <<p, owed[p]>>
          BY <1>2, <2>1 DEF OwedExact
        <4> QED
          BY <2>2, <4>1, OwingIn
      <3>3. Owing(s)' = Owing(s) \ {<<p, owed[p]>>}
        BY <3>2
      <3>4. IsFiniteSet(Owing(s))
        BY <1>3 DEF Balance
      <3> QED
        BY <2>3, <3>1, <3>3, <3>4, FS_RemoveElement DEF Calls
    <2>4. CASE target[p] # s
      <3>1. \A x : x \in Owing(s)' <=> x \in Owing(s)
        BY <2>1, <2>2, <2>4, OwingIn
      <3>2. Owing(s)' = Owing(s)
        BY <3>1
      <3> QED
        BY <1>3, <2>4, <3>2, Numbers DEF Calls, Balance
    <2> QED
      BY <2>3, <2>4
  <1>6. Popped(s)' = Popped(s) /\ Serving(s)' = Serving(s)
    <2>1. \A v \in Workers : pc'[v] = "popped" <=> pc[v] = "popped"
      <3>1. PICK S \in SUBSET Waiting :
              pc' = [q \in Procs |-> IF q = p THEN ScheduleNext(p)
                                     ELSE IF q \in S THEN "woken" ELSE pc[q]]
        BY SchedulePc
      <3>2. ScheduleNext(p) # "popped"
        BY DEF ScheduleNext, AfterSchedule
      <3> QED
        BY <1>1, <3>1, <3>2 DEF Procs, Waiting
    <2> QED
      BY <1>1, <2>1, WorkersSame
  <1> QED
    BY <1>1, <1>3, <1>4, <1>5, <1>6, Numbers DEF Balance, Takers, Handlers

LEMMA PopBalance ==
    ASSUME TypeOK, Balanced, NEW w \in Workers, PopStage(w)
    PROVE  Balanced'
  <1> SUFFICES ASSUME NEW s \in AllStages PROVE Balance(s)'
    BY DEF Balanced
  <1>1. /\ pc[w] \in {"loop", "woken"} /\ runQueue # <<>>
        /\ runStage' = [runStage EXCEPT ![w] = Head(runQueue)]
        /\ runQueue' = Tail(runQueue)
        /\ pc' = [pc EXCEPT ![w] = "popped"]
        /\ UNCHANGED <<eventList, connected, eventRef, target, owed>>
    BY DEF PopStage, stageVars, callVars
  <1>2. Balance(s)
    BY DEF Balanced
  <1>3. runStage[w] = Nil /\ Nil # s
    BY <1>1, ThreadsAssumption DEF TypeOK, ThreadTypes, Fits
  <1> DEFINE d == IF Head(runQueue) = s THEN 1 ELSE 0
  <1>4. Runs(s) = Runs(s)' + d /\ Runs(s)' \in Nat
    <2>1. QueuedRuns(s)' = Places(Tail(runQueue), s)
      BY <1>1 DEF QueuedRuns, Places
    <2>2. runQueue \in Seq(AllStages) /\ Tail(runQueue) \in Seq(AllStages)
      BY <1>1 DEF TypeOK, PoolTypes
    <2> QED
      BY <1>1, <1>2, <2>1, <2>2, Numbers, PlacesTail, PlacesFinite DEF Runs
  <1>5. Owing(s)' = Owing(s)
    BY <1>1, OwingSame
  <1>6. \A v \in Workers : /\ runStage'[v] = IF v = w THEN Head(runQueue) ELSE runStage[v]
                           /\ pc'[v] = IF v = w THEN "popped" ELSE pc[v]
    BY <1>1 DEF TypeOK, ThreadTypes, Procs
  <1>7. Takers(s)' = Takers(s) + d /\ Handlers(s)' = Handlers(s) + d
    <2>1. w \notin Popped(s) /\ w \notin Serving(s)
      BY <1>3 DEF Popped, Serving
    <2>2. CASE Head(runQueue) = s
      <3>1. Popped(s)' = Popped(s) \cup {w} /\ Serving(s)' = Serving(s) \cup {w}
        BY <1>6, <2>2 DEF Popped, Serving
      <3> QED
        BY <1>2, <2>1, <2>2, <3>1, Numbers, FS_AddElement DEF Takers, Handlers
    <2>3. CASE Head(runQueue) # s
      <3>1. Popped(s)' = Popped(s) /\ Serving(s)' = Serving(s)
        BY <1>3, <1>6, <2>3 DEF Popped, Serving
      <3> QED
        BY <1>2, <2>3, <3>1, Numbers DEF Takers, Handlers
    <2> QED
      BY <2>2, <2>3
  <1>8. Calls(s)' = Calls(s) /\ IsFiniteSet(Owing(s))'
    BY <1>2, <1>5 DEF Calls, Balance
  <1>9. /\ Runs(s) \in Nat /\ Calls(s) \in Nat /\ Takers(s) \in Nat
        /\ Handlers(s) \in Nat /\ Len(eventList[s]) \in Nat
    BY <1>2, Numbers
  <1>10. UNCHANGED <<eventList, connected, eventRef>>
    BY <1>1
  <1>11. d \in {0, 1}
    OBVIOUS
  <1> HIDE DEF d
  <1> QED
    BY SMTT(30), <1>2, <1>4, <1>7, <1>8, <1>9, <1>10, <1>11 DEF Balance

LEMMA RemoveBalance ==
    ASSUME TypeOK, Balanced, NEW w \in Workers, RemoveEvent(w)
    PROVE  Balanced'
  <1> SUFFICES ASSUME NEW s \in AllStages PROVE Balance(s)'
    BY DEF Balanced
  <1>1. /\ pc[w] = "popped" /\ eventList[runStage[w]] # <<>>
        /\ eventList' = [eventList EXCEPT ![runStage[w]] = Tail(@)]
        /\ UNCHANGED <<connected, eventRef, runQueue, runStage, target, owed>>
    BY DEF RemoveEvent, runVars, callVars
  <1>2. \A v \in Workers : (pc'[v] = "popped") <=> (pc[v] = "popped" /\ v # w)
    <2>1. \/ pc' = [pc EXCEPT ![w] = "kill"]
          \/ pc' = [pc EXCEPT ![w] = "handle"]
      BY DEF RemoveEvent
    <2> QED
      BY <2>1 DEF TypeOK, ThreadTypes, Procs
  <1>3. Balance(s) /\ runStage[w] \in AllStages
    BY <1>1 DEF Balanced, TypeOK, ThreadTypes, Fits
  <1>4. Runs(s)' = Runs(s) /\ Owing(s)' = Owing(s) /\ Serving(s)' = Serving(s)
    BY <1>1, OwingSame DEF Runs, QueuedRuns, Serving
  <1>5. Popped(s)' = Popped(s) \ {w} /\ (w \in Popped(s) <=> runStage[w] = s)
    BY <1>1, <1>2 DEF Popped
  <1> DEFINE d == IF runStage[w] = s THEN 1 ELSE 0
  <1>6. Takers(s)' = Takers(s) - d
    <2>1. IsFiniteSet(Popped(s)) /\ Takers(s) \in Nat
      BY <1>3, Numbers
    <2>2. Cardinality(Popped(s) \ {w})
            = IF w \in Popped(s) THEN Takers(s) - 1 ELSE Takers(s)
      BY <2>1, FS_RemoveElement DEF Takers
    <2>3. Takers(s)' = Cardinality(Popped(s) \ {w})
      BY <1>5 DEF Takers
    <2> QED
      BY <1>5, <2>1, <2>2, <2>3
  <1>7. Len(eventList'[s]) = Len(eventList[s]) - d
    <2>1. eventList[s] \in Seq(Events \cup {KillEvent})
      BY DEF TypeOK, StageTypes
    <2>2. CASE runStage[w] = s
      <3>1. eventList'[s] = Tail(eventList[s]) /\ eventList[s] # <<>>
        BY <1>1, <2>2 DEF TypeOK, StageTypes
      <3> QED
        BY <2>1, <2>2, <3>1
    <2>3. CASE runStage[w] # s
      <3>1. eventList'[s] = eventList[s]
        BY <1>1, <2>3 DEF TypeOK, StageTypes
      <3> QED
        BY <2>1, <2>3, <3>1
    <2> QED
      BY <2>2, <2>3
  <1>8. Calls(s)' = Calls(s) /\ IsFiniteSet(Owing(s))' /\ Handlers(s)' = Handlers(s)
    BY <1>3, <1>4 DEF Calls, Balance, Handlers
  <1>9. /\ Runs(s) \in Nat /\ Calls(s) \in Nat /\ Takers(s) \in Nat
        /\ Handlers(s) \in Nat /\ Len(eventList[s]) \in Nat
    BY <1>3, Numbers
  <1>10. UNCHANGED <<connected, eventRef>> /\ Runs(s)' = Runs(s)
    BY <1>1, <1>4
  <1>11. d \in {0, 1}
    OBVIOUS
  <1> HIDE DEF d
  <1>12. eventRef'[s] = Runs(s)' + Calls(s)' + Handlers(s)'
    BY <1>3, <1>8, <1>10 DEF Balance
  <1>13. Runs(s)' + Calls(s)' + Takers(s)' <= Len(eventList'[s])
    BY <1>3, <1>6, <1>7, <1>8, <1>9, <1>10, <1>11 DEF Balance
  <1>14. connected'[s] \/ s = Killer
           => Runs(s)' + Calls(s)' + Takers(s)' = Len(eventList'[s])
    BY <1>3, <1>6, <1>7, <1>8, <1>9, <1>10, <1>11 DEF Balance
  <1> QED
    BY <1>8, <1>12, <1>13, <1>14 DEF Balance

LEMMA ReleaseBalance ==
    ASSUME TypeOK, Balanced, NEW w \in Workers, NEW next \in {"loop", "none"},
           pc[w] \in {"release", "killrel"}, ReleaseRef(w, next),
           UNCHANGED <<eventList, connected, runQueue, target, owed>>
    PROVE  Balanced'
  <1> SUFFICES ASSUME NEW s \in AllStages PROVE Balance(s)'
    BY DEF Balanced
  <1>1. /\ eventRef' = [eventRef EXCEPT ![runStage[w]] = @ - 1]
        /\ runStage' = [runStage EXCEPT ![w] = Nil]
    BY DEF ReleaseRef
  <1>2. pc'[w] = next /\ \A v \in Workers \ {w} : pc'[v] = pc[v]
    BY ReleaseRefPc
  <1>3. Balance(s) /\ runStage[w] \in AllStages /\ Nil # s
    BY ThreadsAssumption DEF Balanced, TypeOK, ThreadTypes, Fits, AllStages
  <1>4. Runs(s)' = Runs(s) /\ Owing(s)' = Owing(s)
    BY OwingSame DEF Runs, QueuedRuns
  <1>5. \A v \in Workers : runStage'[v] = IF v = w THEN Nil ELSE runStage[v]
    BY <1>1 DEF TypeOK, ThreadTypes
  <1>6. /\ Popped(s)' = Popped(s) /\ Serving(s)' = Serving(s) \ {w}
        /\ w \in Serving(s) <=> runStage[w] = s
    BY <1>2, <1>3, <1>5 DEF Popped, Serving
  <1> DEFINE d == IF runStage[w] = s THEN 1 ELSE 0
  <1>7. Handlers(s)' = Handlers(s) - d
    <2>1. IsFiniteSet(Serving(s)) /\ Handlers(s) \in Nat
      BY <1>3, Numbers
    <2>2. Cardinality(Serving(s) \ {w})
            = IF w \in Serving(s) THEN Handlers(s) - 1 ELSE Handlers(s)
      BY <2>1, FS_RemoveElement DEF Handlers
    <2>3. Handlers(s)' = Cardinality(Serving(s) \ {w})
      BY <1>6 DEF Handlers
    <2> QED
      BY <1>6, <2>1, <2>2, <2>3
  <1>8. eventRef'[s] = eventRef[s] - d
    BY <1>1 DEF TypeOK, StageTypes
  <1>9. Calls(s)' = Calls(s) /\ IsFiniteSet(Owing(s))' /\ Takers(s)' = Takers(s)
    BY <1>3, <1>4, <1>6 DEF Calls, Balance, Takers
  <1>10. /\ Runs(s) \in Nat /\ Calls(s) \in Nat /\ Takers(s) \in Nat
         /\ Handlers(s) \in Nat /\ Len(eventList[s]) \in Nat
    BY <1>3, Numbers
  <1>11. d \in {0, 1}
    OBVIOUS
  <1> HIDE DEF d
  <1>12. eventRef'[s] = Runs(s)' + Calls(s)' + Handlers(s)'
    BY <1>3, <1>4, <1>7, <1>8, <1>9, <1>10, <1>11 DEF Balance
  <1> QED
    BY <1>3, <1>4, <1>9, <1>12 DEF Balance

(* Stage::addEvent by a thread that owes no call yet.                      *)
LEMMA AddBalance ==
    ASSUME TypeOK, Balanced, OwedExact, NEW p \in Procs, NEW s \in AllStages,
           NEW e \in Events \cup {KillEvent}, NEW next, AddEvent(p, s, e, next),
           pc[p] \notin {"sched", "popped"}, next # "popped",
           s = Killer => connected[Killer], UNCHANGED <<runQueue, runStage>>
    PROVE  Balanced'
  <1> SUFFICES ASSUME NEW t \in AllStages PROVE Balance(t)'
    BY DEF Balanced
  <1>1. eventList' = [eventList EXCEPT ![s] = Append(@, e)] /\ connected' = connected
    BY DEF AddEvent
  <1>2. owed[p] = 0
    BY DEF OwedExact
  <1>3. Popped(t)' = Popped(t) /\ Serving(t)' = Serving(t)
    <2>1. PICK at : at # "popped" /\ pc' = [pc EXCEPT ![p] = at]
      BY DEF AddEvent
    <2>2. \A v \in Workers : pc'[v] = "popped" <=> pc[v] = "popped"
      BY <2>1 DEF TypeOK, ThreadTypes, Procs
    <2> QED
      BY <2>2, WorkersSame
  <1>4. Balance(t)
    BY DEF Balanced
  <1>5. /\ Runs(t) \in Nat /\ Calls(t) \in Nat /\ Takers(t) \in Nat
        /\ Handlers(t) \in Nat /\ Len(eventList[t]) \in Nat
    BY <1>4, Numbers
  <1>6. Runs(t)' = Runs(t) /\ Takers(t)' = Takers(t) /\ Handlers(t)' = Handlers(t)
    BY <1>3 DEF Runs, QueuedRuns, Takers, Handlers
  <1> DEFINE d == IF s = t THEN 1 ELSE 0
  <1>7. Len(eventList'[t]) = Len(eventList[t]) + d
    <2>1. eventList[t] \in Seq(Events \cup {KillEvent})
      BY DEF TypeOK, StageTypes
    <2>2. CASE s = t
      <3>1. eventList'[t] = Append(eventList[t], e)
        BY <1>1, <2>2 DEF TypeOK, StageTypes
      <3> QED
        BY <2>1, <2>2, <3>1
    <2>3. CASE s # t
      <3>1. eventList'[t] = eventList[t]
        BY <1>1, <2>3 DEF TypeOK, StageTypes
      <3> QED
        BY <1>5, <2>3, <3>1
    <2> QED
      BY <2>2, <2>3
  <1>8. d \in {0, 1}
    OBVIOUS
  <1>9. CASE ~connected[s]
    <2>1. UNCHANGED <<eventRef, target, owed>>
      BY <1>9 DEF AddEvent
    <2>2. Owing(t)' = Owing(t)
      BY <2>1, OwingSame
    <2>3. IsFiniteSet(Owing(t))' /\ Calls(t)' = Calls(t)
      BY <1>4, <2>2 DEF Balance, Calls
    <2>4. eventRef'[t] = Runs(t)' + Calls(t)' + Handlers(t)'
      BY <1>4, <1>6, <2>1, <2>3 DEF Balance
    <2>5. d = 1 => ~connected'[t] /\ t # Killer
      BY <1>1, <1>9
    <2> HIDE DEF d
    <2>6. Runs(t)' + Calls(t)' + Takers(t)' <= Len(eventList'[t])
      BY <1>4, <1>5, <1>6, <1>7, <1>8, <2>3 DEF Balance
    <2>7. connected'[t] \/ t = Killer
            => Runs(t)' + Calls(t)' + Takers(t)' = Len(eventList'[t])
      BY <1>1, <1>4, <1>5, <1>6, <1>7, <1>8, <2>3, <2>5 DEF Balance
    <2> QED
      BY <2>3, <2>4, <2>6, <2>7 DEF Balance
  <1>10. CASE connected[s]
    <2>1. /\ eventRef' = [eventRef EXCEPT ![s] = @ + 1]
          /\ target' = [target EXCEPT ![p] = s] /\ owed' = [owed EXCEPT ![p] = 1]
      BY <1>10 DEF AddEvent
    <2>2. eventRef'[t] = eventRef[t] + d /\ eventRef[t] \in Int
      BY <2>1 DEF TypeOK, StageTypes
    <2>3. \A q \in Procs : /\ owed'[q] = IF q = p THEN 1 ELSE owed[q]
                           /\ target'[q] = IF q = p THEN s ELSE target[q]
      BY <2>1 DEF TypeOK, ThreadTypes
    <2>4. IsFiniteSet(Owing(t))' /\ Calls(t)' = Calls(t) + d
      <3>1. \A x : x \in Owing(t)' <=>
              \E q \in Procs : \E i \in 1..owed'[q] : target'[q] = t /\ x = <<q, i>>
        BY DEF Owing
      <3>2. CASE s = t
        <4>1. \A x : x \in Owing(t)' <=> x \in Owing(t) \/ x = <<p, 1>>
          BY <1>2, <2>3, <3>1, <3>2, OwingIn
        <4>2. Owing(t)' = Owing(t) \cup {<<p, 1>>}
          BY <4>1
        <4>3. <<p, 1>> \notin Owing(t)
          BY <1>2, OwingIn
        <4>4. IsFiniteSet(Owing(t))
          BY <1>4 DEF Balance
        <4> QED
          BY <3>2, <4>2, <4>3, <4>4, FS_AddElement DEF Calls
      <3>3. CASE s # t
        <4>1. \A x : x \in Owing(t)' <=> x \in Owing(t)
          BY <1>2, <2>3, <3>1, <3>3, OwingIn
        <4>2. Owing(t)' = Owing(t)
          BY <4>1
        <4> QED
          BY <1>4, <1>5, <3>3, <4>2 DEF Calls, Balance
      <3> QED
        BY <3>2, <3>3
    <2> HIDE DEF d
    <2>5. eventRef'[t] = Runs(t)' + Calls(t)' + Handlers(t)'
      BY <1>4, <1>5, <1>6, <1>8, <2>2, <2>4 DEF Balance
    <2>6. Runs(t)' + Calls(t)' + Takers(t)' <= Len(eventList'[t])
      BY <1>4, <1>5, <1>6, <1>7, <1>8, <2>4 DEF Balance
    <2>7. connected'[t] \/ t = Killer
            => Runs(t)' + Calls(t)' + Takers(t)' = Len(eventList'[t])
      BY <1>1, <1>4, <1>5, <1>6, <1>7, <1>8, <2>4 DEF Balance
    <2> QED
      BY <2>4, <2>5, <2>6, <2>7 DEF Balance
  <1> QED
    BY <1>9, <1>10

(* A stage that is not connected and that nobody waits for has nothing     *)
(* outstanding: what connect counts is what has arrived meanwhile.         *)
LEMMA NothingOutstanding ==
    ASSUME TypeOK, NEW s \in AllStages, Balance(s), eventRef[s] = 0
    PROVE  Runs(s) = 0 /\ Calls(s) = 0 /\ Takers(s) = 0 /\ Handlers(s) = 0 /\ Owing(s) = {}
  <1>1. /\ Runs(s) \in Nat /\ Calls(s) \in Nat /\ Takers(s) \in Nat
        /\ Handlers(s) \in Nat /\ Takers(s) <= Handlers(s)
    BY Numbers
  <1>2. Runs(s) = 0 /\ Calls(s) = 0 /\ Takers(s) = 0 /\ Handlers(s) = 0
    BY <1>1 DEF Balance
  <1>3. IsFiniteSet(Owing(s)) /\ Cardinality(Owing(s)) = 0
    BY <1>2 DEF Balance, Calls
  <1> QED
    BY <1>2, <1>3, FS_EmptySet

LEMMA ConnectBalance ==
    ASSUME TypeOK, Balanced, OwedExact, Controlled, NEW c \in Controllers,
           NEW s \in Stages, Connect(c, s)
    PROVE  Balanced'
  <1> SUFFICES ASSUME NEW t \in AllStages PROVE Balance(t)'
    BY DEF Balanced
  <1>1. /\ pc[c] = "idle" /\ ~connected[s]
        /\ ~\E d \in Controllers : pc[d] # "idle" /\ target[d] = s
        /\ connected' = [connected EXCEPT ![s] = TRUE]
        /\ eventRef' = [eventRef EXCEPT ![s] = Len(eventList[s])]
        /\ target' = [target EXCEPT ![c] = s]
        /\ owed' = [owed EXCEPT ![c] = Len(eventList[s])]
        /\ UNCHANGED <<eventList, runQueue, runStage>>
    BY DEF Connect, RefAtConnect, RunsAtConnect, runVars, handVars
  <1>2. c \in Procs /\ owed[c] = 0
    BY <1>1 DEF Procs, OwedExact
  <1>3. Popped(t)' = Popped(t) /\ Serving(t)' = Serving(t)
    <2>1. PICK at : at # "popped" /\ pc' = [pc EXCEPT ![c] = at]
      BY DEF Connect
    <2>2. \A v \in Workers : v # c
      BY ThreadsAssumption
    <2>3. \A v \in Workers : pc'[v] = "popped" <=> pc[v] = "popped"
      BY <2>1, <2>2 DEF TypeOK, ThreadTypes, Procs
    <2> QED
      BY <1>1, <2>3, WorkersSame
  <1>4. Balance(t)
    BY DEF Balanced
  <1>5. /\ Runs(t) \in Nat /\ Calls(t) \in Nat /\ Takers(t) \in Nat
        /\ Handlers(t) \in Nat /\ Len(eventList[t]) \in Nat
    BY <1>4, Numbers
  <1>6. Runs(t)' = Runs(t) /\ Takers(t)' = Takers(t) /\ Handlers(t)' = Handlers(t)
    BY <1>1, <1>3 DEF Runs, QueuedRuns, Takers, Handlers
  <1>7. \A q \in Procs : /\ owed'[q] = IF q = c THEN Len(eventList[s]) ELSE owed[q]
                         /\ target'[q] = IF q = c THEN s ELSE target[q]
    BY <1>1 DEF TypeOK, ThreadTypes
  <1>8. \A x : x \in Owing(t)' <=>
          \E q \in Procs : \E i \in 1..owed'[q] : target'[q] = t /\ x = <<q, i>>
    BY DEF Owing
  <1>9. CASE t # s
    <2>1. \A x : x \in Owing(t)' <=> x \in Owing(t)
      BY <1>2, <1>7, <1>8, <1>9, OwingIn
    <2>2. Owing(t)' = Owing(t)
      BY <2>1
    <2>3. IsFiniteSet(Owing(t))' /\ Calls(t)' = Calls(t)
      BY <1>4, <2>2 DEF Balance, Calls
    <2>4. eventRef'[t] = eventRef[t] /\ connected'[t] = connected[t]
      BY <1>1, <1>9 DEF TypeOK, StageTypes
    <2> QED
      BY <1>1, <1>4, <1>6, <2>3, <2>4 DEF Balance
  <1>10. CASE t = s
    <2>1. eventRef[t] = 0
      BY <1>1, <1>10 DEF Controlled, Leaving
    <2>2. /\ Runs(t) = 0 /\ Calls(t) = 0 /\ Takers(t) = 0 /\ Handlers(t) = 0
          /\ Owing(t) = {}
      BY <1>4, <2>1, NothingOutstanding
    <2>3. \A x : x \in Owing(t)' <=> x \in {c} \X (1..Len(eventList[t]))
      BY <1>2, <1>7, <1>8, <1>10, <2>2, OwingIn
    <2>4. Owing(t)' = {c} \X (1..Len(eventList[t]))
      BY <2>3
    <2>5. /\ IsFiniteSet({c}) /\ Cardinality({c}) = 1
          /\ IsFiniteSet(1..Len(eventList[t]))
          /\ Cardinality(1..Len(eventList[t])) = Len(eventList[t])
      <3>1. \A n \in Nat : IsFiniteSet(1..n) /\ Cardinality(1..n) = n
        <4> SUFFICES ASSUME NEW n \in Nat
                     PROVE  IsFiniteSet(1..n) /\ Cardinality(1..n) = n
          OBVIOUS
        <4>1. IsFiniteSet(1..n) /\ Cardinality(1..n) = IF 1 > n THEN 0 ELSE n - 1 + 1
          BY FS_Interval
        <4> QED
          BY <4>1
      <3> QED
        BY <1>5, <3>1, FS_Singleton
    <2>6. IsFiniteSet(Owing(t))' /\ Calls(t)' = Len(eventList[t])
      <3>1. /\ IsFiniteSet({c} \X (1..Len(eventList[t])))
            /\ Cardinality({c} \X (1..Len(eventList[t]))) = 1 * Len(eventList[t])
        BY ZenonT(30), <2>5, FS_Product
      <3> QED
        BY <1>5, <2>4, <3>1 DEF Calls
    <2>7. eventRef'[t] = Len(eventList[t])
      BY <1>1, <1>10 DEF TypeOK, StageTypes
    <2> QED
      BY <1>1, <1>5, <1>6, <2>2, <2>6, <2>7 DEF Balance
  <1> QED
    BY <1>9, <1>10

LEMMA BeginKillBalance ==
    ASSUME TypeOK, Balanced, Reaped, NEW r \in Reapers, NEW n \in KillSizes,
           BeginKill(r, n)
    PROVE  Balanced'
  <1> SUFFICES ASSUME NEW s \in AllStages PROVE Balance(s)'
    BY DEF Balanced
  <1>1. /\ pc[r] = "idle" /\ threadMutex = Nil /\ ~connected[Killer]
        /\ connected' = [connected EXCEPT ![Killer] = TRUE]
        /\ eventRef' = [eventRef EXCEPT ![Killer] = Len(eventList[Killer])]
        /\ UNCHANGED <<eventList, runQueue, runStage, target, owed>>
    BY DEF BeginKill, runVars, handVars, callVars
  <1>2. Popped(s)' = Popped(s) /\ Serving(s)' = Serving(s)
    <2>1. pc' = [pc EXCEPT ![r] = "gen"] /\ \A v \in Workers : v # r
      BY ThreadsAssumption DEF BeginKill
    <2>2. \A v \in Workers : pc'[v] = "popped" <=> pc[v] = "popped"
      BY <2>1 DEF TypeOK, ThreadTypes, Procs
    <2> QED
      BY <1>1, <2>2, WorkersSame
  <1>3. Owing(s)' = Owing(s)
    BY <1>1, OwingSame
  <1>4. Balance(s) /\ Balance(Killer)
    BY DEF Balanced, AllStages
  <1>5. eventRef[Killer] = 0
    <2>1. \A q \in Reapers : q # Nil
      BY ThreadsAssumption DEF Procs
    <2> QED
      BY <1>1, <2>1 DEF Reaped, Leaving
  <1>6. Len(eventList[Killer]) = 0
    <2>1. Runs(Killer) = 0 /\ Calls(Killer) = 0 /\ Takers(Killer) = 0
      BY <1>4, <1>5, NothingOutstanding DEF AllStages
    <2> QED
      BY <1>4, <2>1 DEF Balance
  <1>7. eventRef' = eventRef
    BY <1>1, <1>5, <1>6 DEF TypeOK, StageTypes
  <1>8. s # Killer => connected'[s] = connected[s]
    BY <1>1 DEF TypeOK, StageTypes
  <1>9. /\ Runs(s)' = Runs(s) /\ Calls(s)' = Calls(s) /\ Takers(s)' = Takers(s)
        /\ Handlers(s)' = Handlers(s) /\ IsFiniteSet(Owing(s))'
    BY <1>1, <1>2, <1>3, <1>4
       DEF Balance, Runs, QueuedRuns, Calls, Takers, Handlers
  <1> QED
    BY <1>1, <1>4, <1>7, <1>8, <1>9 DEF Balance

(* The steps that leave every count as it is.                              *)
LEMMA WorkerCalm ==
    ASSUME TypeOK, OwedExact, NEW w \in Workers,
           Sleep(w) \/ SpuriousRunWake(w) \/ DoneDelete(w) \/ ThreadKill(w)
    PROVE  Calm
  <1>1. PICK at : at # "popped" /\ pc'[w] = at
                  /\ \A v \in Workers \ {w} : pc'[v] = pc[v]
    <2>1. CASE ThreadKill(w)
      BY <2>1, ThreadKillPc
    <2>2. CASE Sleep(w) \/ SpuriousRunWake(w) \/ DoneDelete(w)
      BY <2>2 DEF Sleep, SpuriousRunWake, DoneDelete, TypeOK, ThreadTypes, Procs
    <2> QED
      BY <2>1, <2>2
  <1>2. /\ UNCHANGED <<runQueue, eventRef, eventList, connected, target, owed, runStage>>
        /\ pc[w] # "popped"
    BY DEF Sleep, SpuriousRunWake, DoneDelete, ThreadKill, stageVars, runVars,
           callVars, handVars
  <1> QED
    BY <1>1, <1>2 DEF Calm, OwedExact

LEMMA ClientCalm ==
    ASSUME TypeOK, OwedExact, NEW p \in Controllers \cup Reapers, NEW at,
           pc' = [pc EXCEPT ![p] = at], pc[p] # "sched",
           \/ target' = target
           \/ \E s \in AllStages : target' = [target EXCEPT ![p] = s],
           \/ connected' = connected
           \/ \E s \in AllStages : connected' = [connected EXCEPT ![s] = FALSE],
           UNCHANGED <<runQueue, eventRef, eventList, owed, runStage>>
    PROVE  Calm
  <1>1. \A v \in Workers : v # p /\ v \in Procs
    BY ThreadsAssumption DEF Procs
  <1>2. \A v \in Workers : pc'[v] = pc[v]
    BY <1>1 DEF TypeOK, ThreadTypes
  <1>3. \A q \in Procs : q # p => target'[q] = target[q]
    BY DEF TypeOK, ThreadTypes
  <1>4. \A s \in AllStages : connected'[s] => connected[s]
    BY DEF TypeOK, StageTypes
  <1> QED
    BY <1>2, <1>3, <1>4 DEF Calm, OwedExact

LEMMA ControlCalm ==
    ASSUME TypeOK, OwedExact, NEW p \in Controllers \cup Reapers,
           \/ SpuriousDiscWake(p) \/ DisconnectResume(p)
           \/ \E s \in Stages : Disconnect(p, s)
           \/ DisconnectKiller(p) \/ AbortKill(p) \/ AwaitKills(p)
           \/ SpuriousKillWake(p) \/ \E W \in SUBSET Workers : AddThreads(p, W)
    PROVE  Calm
  <1>1. CASE SpuriousDiscWake(p) \/ DisconnectResume(p) \/ AbortKill(p)
             \/ AwaitKills(p) \/ SpuriousKillWake(p)
    <2>1. /\ UNCHANGED <<connected, target>> /\ pc[p] # "sched"
          /\ UNCHANGED <<runQueue, eventRef, eventList, owed, runStage>>
          /\ \E at : pc' = [pc EXCEPT ![p] = at]
      BY <1>1 DEF SpuriousDiscWake, DisconnectResume, AbortKill, AwaitKills,
                  SpuriousKillWake, stageVars, runVars, callVars, handVars
    <2> QED
      BY <2>1, ClientCalm
  <1>2. CASE \E s \in Stages : Disconnect(p, s)
    <2>1. /\ \E s \in AllStages : target' = [target EXCEPT ![p] = s]
          /\ \E s \in AllStages : connected' = [connected EXCEPT ![s] = FALSE]
          /\ UNCHANGED <<runQueue, eventRef, eventList, owed, runStage>>
          /\ pc[p] # "sched" /\ \E at : pc' = [pc EXCEPT ![p] = at]
      BY <1>2 DEF Disconnect, AllStages, runVars, handVars
    <2> QED
      BY <2>1, ClientCalm
  <1>3. CASE DisconnectKiller(p)
    <2>1. /\ \E s \in AllStages : target' = [target EXCEPT ![p] = s]
          /\ \E s \in AllStages : connected' = [connected EXCEPT ![s] = FALSE]
          /\ UNCHANGED <<runQueue, eventRef, eventList, owed, runStage>>
          /\ pc[p] # "sched" /\ \E at : pc' = [pc EXCEPT ![p] = at]
      BY <1>3 DEF DisconnectKiller, AllStages, runVars, handVars
    <2> QED
      BY <2>1, ClientCalm
  <1>4. CASE \E W \in SUBSET Workers : AddThreads(p, W)
    <2>1. \A v \in Workers : pc'[v] = "popped" <=> pc[v] = "popped"
      BY <1>4 DEF AddThreads, Procs
    <2>2. UNCHANGED <<runQueue, eventRef, eventList, connected, target, owed, runStage>>
      BY <1>4 DEF AddThreads, stageVars, runVars, callVars, handVars
    <2> QED
      BY <2>1, <2>2 DEF Calm, OwedExact
  <1> QED
    BY <1>1, <1>2, <1>3, <1>4

LEMMA WorkerAddsBalance ==
    ASSUME TypeOK, Balanced, OwedExact, NEW w \in Workers,
           \/ \E s \in Stages : Forward(w, s)
           \/ DoneReschedule(w)
           \/ \E e \in Events, s \in Stages : Spawn(w, e, s)
    PROVE  Balanced'
  <1>1. PICK s \in Stages, e \in Events, next \in {"handle", "release"} :
          AddEvent(w, s, e, next)
    <2>1. pc[w] = "handle"
      BY DEF Forward, DoneReschedule, Spawn
    <2>2. event[w] \in Events
      BY <2>1 DEF TypeOK, ThreadTypes, Fits
    <2>3. DoneReschedule(w) => Head(compCB[event[w]]) \in Stages
      BY <2>2 DEF DoneReschedule, TypeOK, StageTypes
    <2> QED
      BY <2>2, <2>3 DEF Forward, DoneReschedule, Spawn
  <1>2. pc[w] = "handle" /\ UNCHANGED <<runQueue, runStage>>
    BY DEF Forward, DoneReschedule, Spawn, runVars, handVars
  <1>3. w \in Procs /\ s \in AllStages /\ s # Killer /\ next # "popped"
    BY DataAssumption DEF Procs, AllStages
  <1> QED
    BY <1>1, <1>2, <1>3, AddBalance

LEMMA ClientAddsBalance ==
    ASSUME TypeOK, Balanced, OwedExact, Reaped,
           \/ \E p \in Producers, e \in Events, s \in Stages : Produce(p, e, s)
           \/ \E r \in Reapers : GenKillEvent(r)
    PROVE  Balanced'
  <1>1. CASE \E p \in Producers, e \in Events, s \in Stages : Produce(p, e, s)
    <2>1. PICK p \in Producers, e \in Events, s \in Stages : Produce(p, e, s)
      BY <1>1
    <2>2. /\ AddEvent(p, s, e, "idle") /\ pc[p] = "idle"
          /\ UNCHANGED <<runQueue, runStage>>
      BY <2>1 DEF Produce, runVars, handVars
    <2>3. p \in Procs /\ s \in AllStages /\ s # Killer
      BY DataAssumption DEF Procs, AllStages
    <2> QED
      BY <2>2, <2>3, AddBalance
  <1>2. CASE \E r \in Reapers : GenKillEvent(r)
    <2>1. PICK r \in Reapers : GenKillEvent(r)
      BY <1>2
    <2>2. /\ AddEvent(r, Killer, KillEvent, "gen") /\ pc[r] = "gen"
          /\ UNCHANGED <<runQueue, runStage>>
      BY <2>1 DEF GenKillEvent, runVars, handVars
    <2>3. r \in Procs /\ Killer \in AllStages /\ connected[Killer]
      BY <2>2 DEF Procs, AllStages, Reaped, Killing
    <2> QED
      BY <2>2, <2>3, AddBalance
  <1> QED
    BY <1>1, <1>2

LEMMA ExitBalance ==
    ASSUME TypeOK, Balanced, NEW w \in Workers, ReleaseEvent(w) \/ ThreadExit(w)
    PROVE  Balanced'
  <1>1. PICK next \in {"loop", "none"} : ReleaseRef(w, next)
    BY DEF ReleaseEvent, ThreadExit
  <1>2. /\ pc[w] \in {"release", "killrel"}
        /\ UNCHANGED <<eventList, connected, runQueue, target, owed>>
    BY DEF ReleaseEvent, ThreadExit, runVars, callVars
  <1> QED
    BY <1>1, <1>2, ReleaseBalance

LEMMA BalanceNext ==
    ASSUME TypeOK, RefInv, Next
    PROVE  Balanced'
  <1>1. Balanced /\ OwedExact /\ Controlled /\ Reaped
    BY DEF RefInv
  <1>2. CASE \E p \in Procs : Schedule(p)
    BY <1>1, <1>2, ScheduleBalance
  <1>3. CASE \E w \in Workers : PopStage(w) \/ RemoveEvent(w)
    BY <1>1, <1>3, PopBalance, RemoveBalance
  <1>4. CASE \E w \in Workers : ReleaseEvent(w) \/ ThreadExit(w)
    BY <1>1, <1>4, ExitBalance
  <1>5. CASE \E w \in Workers : \/ \E s \in Stages : Forward(w, s)
                                \/ DoneReschedule(w)
                                \/ \E e \in Events, s \in Stages : Spawn(w, e, s)
    BY <1>1, <1>5, WorkerAddsBalance
  <1>6. CASE \E w \in Workers : Sleep(w) \/ SpuriousRunWake(w) \/ DoneDelete(w)
                                \/ ThreadKill(w)
    BY <1>1, <1>6, WorkerCalm, CalmBalance
  <1>7. CASE \/ \E p \in Producers, e \in Events, s \in Stages : Produce(p, e, s)
             \/ \E r \in Reapers : GenKillEvent(r)
    BY <1>1, <1>7, ClientAddsBalance
  <1>8. CASE \E c \in Controllers : \E s \in Stages : Connect(c, s)
    BY <1>1, <1>8, ConnectBalance
  <1>9. CASE \E r \in Reapers : \E n \in KillSizes : BeginKill(r, n)
    BY <1>1, <1>9, BeginKillBalance
  <1>10. CASE \E p \in Controllers \cup Reapers :
                \/ SpuriousDiscWake(p) \/ DisconnectResume(p)
                \/ \E s \in Stages : Disconnect(p, s)
                \/ DisconnectKiller(p) \/ AbortKill(p) \/ AwaitKills(p)
                \/ SpuriousKillWake(p) \/ \E W \in SUBSET Workers : AddThreads(p, W)
    BY <1>1, <1>10, ControlCalm, CalmBalance
  <1> QED
    BY <1>2, <1>3, <1>4, <1>5, <1>6, <1>7, <1>8, <1>9, <1>10
       DEF Next, WorkerStep, Handler, ControlStep, ReaperStep

-----------------------------------------------------------------------------
(* Who owes calls of schedule().                                           *)
LEMMA SameOwed ==
    ASSUME OwedExact, \A p \in Procs : /\ owed'[p] = owed[p]
                                       /\ pc'[p] = "sched" <=> pc[p] = "sched"
    PROVE  OwedExact'
  BY DEF OwedExact

LEMMA ScheduleOwed ==
    ASSUME TypeOK, OwedExact, NEW p \in Procs, Schedule(p)
    PROVE  OwedExact'
  <1>1. PICK S \in SUBSET Waiting :
          pc' = [q \in Procs |-> IF q = p THEN ScheduleNext(p)
                                 ELSE IF q \in S THEN "woken" ELSE pc[q]]
    BY SchedulePc
  <1>2. pc[p] = "sched" /\ owed' = [owed EXCEPT ![p] = @ - 1]
    BY DEF Schedule
  <1>3. \A q \in Procs : owed'[q] = IF q = p THEN owed[p] - 1 ELSE owed[q]
    BY <1>2 DEF TypeOK, ThreadTypes
  <1>4. ScheduleNext(p) = "sched" <=> owed[p] # 1
    BY DEF ScheduleNext, AfterSchedule
  <1>5. \A q \in Procs : q # p => (pc'[q] = "sched" <=> pc[q] = "sched")
    BY <1>1 DEF Waiting
  <1>6. owed'[p] \in Nat /\ (owed'[p] > 0 <=> pc'[p] = "sched")
    BY <1>1, <1>2, <1>3, <1>4 DEF OwedExact
  <1> QED
    BY <1>3, <1>5, <1>6 DEF OwedExact

LEMMA AddOwed ==
    ASSUME TypeOK, OwedExact, NEW p \in Procs, NEW s, NEW e, NEW next,
           AddEvent(p, s, e, next), pc[p] # "sched", next # "sched"
    PROVE  OwedExact'
  <1>1. CASE connected[s]
    <2>1. \A q \in Procs : /\ owed'[q] = IF q = p THEN 1 ELSE owed[q]
                           /\ pc'[q] = IF q = p THEN "sched" ELSE pc[q]
      BY <1>1 DEF AddEvent, TypeOK, ThreadTypes
    <2> QED
      BY <2>1 DEF OwedExact
  <1>2. CASE ~connected[s]
    <2>1. \A q \in Procs : /\ owed'[q] = owed[q]
                           /\ pc'[q] = IF q = p THEN next ELSE pc[q]
      BY <1>2 DEF AddEvent, TypeOK, ThreadTypes
    <2> QED
      BY <2>1, SameOwed
  <1> QED
    BY <1>1, <1>2

LEMMA ConnectOwed ==
    ASSUME TypeOK, OwedExact, NEW c \in Controllers, NEW s \in Stages, Connect(c, s)
    PROVE  OwedExact'
  <1> DEFINE n == Len(eventList[s])
  <1>1. n \in Nat
    BY DEF TypeOK, StageTypes
  <1>2. \A q \in Procs :
          /\ owed'[q] = IF q = c THEN n ELSE owed[q]
          /\ pc'[q] = IF q = c THEN (IF n = 0 THEN "idle" ELSE "sched") ELSE pc[q]
    BY DEF Connect, RunsAtConnect, TypeOK, ThreadTypes
  <1> HIDE DEF n
  <1> QED
    BY <1>1, <1>2 DEF OwedExact

(* The thread that moves and the one it wakes owe nothing.                 *)
LEMMA MoveOwed ==
    ASSUME TypeOK, OwedExact, owed' = owed, NEW p \in Procs, pc[p] # "sched",
           NEW at, at # "sched",
           \/ pc' = [pc EXCEPT ![p] = at]
           \/ \E q \in Procs : \E to : /\ pc[q] # "sched" /\ to # "sched"
                                      /\ pc' = [pc EXCEPT ![p] = at, ![q] = to]
    PROVE  OwedExact'
  <1>1. \A q \in Procs : pc'[q] = "sched" <=> pc[q] = "sched"
    BY DEF TypeOK, ThreadTypes
  <1> QED
    BY <1>1, SameOwed

LEMMA OwedNext ==
    ASSUME TypeOK, OwedExact, Next
    PROVE  OwedExact'
  <1>1. CASE \E p \in Procs : Schedule(p)
    BY <1>1, ScheduleOwed
  <1>2. CASE \E w \in Workers : \/ \E s \in Stages : Forward(w, s)
                                \/ DoneReschedule(w)
                                \/ \E e \in Events, s \in Stages : Spawn(w, e, s)
    <2>1. \E w \in Procs : \E s, e, next : /\ AddEvent(w, s, e, next)
                                           /\ pc[w] # "sched" /\ next # "sched"
      BY <1>2 DEF Forward, DoneReschedule, Spawn, Procs
    <2> QED
      BY <2>1, AddOwed
  <1>3. CASE \/ \E p \in Producers, e \in Events, s \in Stages : Produce(p, e, s)
             \/ \E r \in Reapers : GenKillEvent(r)
    <2>1. \E p \in Procs : \E s, e, next : /\ AddEvent(p, s, e, next)
                                           /\ pc[p] # "sched" /\ next # "sched"
      BY <1>3 DEF Produce, GenKillEvent, Procs
    <2> QED
      BY <2>1, AddOwed
  <1>4. CASE \E c \in Controllers : \E s \in Stages : Connect(c, s)
    BY <1>4, ConnectOwed
  <1>5. CASE \E w \in Workers : \/ Sleep(w) \/ SpuriousRunWake(w) \/ DoneDelete(w)
                                \/ PopStage(w) \/ RemoveEvent(w)
    <2>1. owed' = owed /\ \E w \in Procs : \E at :
                            /\ pc[w] # "sched" /\ at # "sched"
                            /\ pc' = [pc EXCEPT ![w] = at]
      BY <1>5 DEF Sleep, SpuriousRunWake, DoneDelete, PopStage, RemoveEvent,
                  callVars, Procs
    <2> QED
      BY <2>1, MoveOwed
  <1>6. CASE \E w \in Workers : ReleaseEvent(w) \/ ThreadExit(w)
    <2>1. PICK w \in Workers, next \in {"loop", "none"} :
            ReleaseRef(w, next) /\ pc[w] # "sched" /\ owed' = owed
      BY <1>6 DEF ReleaseEvent, ThreadExit, callVars
    <2>2. \/ pc' = [pc EXCEPT ![w] = next]
          \/ \E p \in Procs : /\ pc[p] # "sched"
                              /\ pc' = [pc EXCEPT ![w] = next, ![p] = "discwoken"]
      BY <2>1 DEF ReleaseRef
    <2>3. w \in Procs /\ next # "sched"
      BY DEF Procs
    <2> QED
      BY <2>1, <2>2, <2>3, MoveOwed
  <1>7. CASE \E w \in Workers : ThreadKill(w)
    <2>1. PICK w \in Workers : ThreadKill(w)
      BY <1>7
    <2>2. /\ pc[w] # "sched" /\ owed' = owed
          /\ \/ pc' = [pc EXCEPT ![w] = "killrel"]
             \/ \E r \in Procs : /\ pc[r] # "sched"
                                 /\ pc' = [pc EXCEPT ![w] = "killrel", ![r] = "killwoken"]
      BY <2>1 DEF ThreadKill, callVars, Procs
    <2> QED
      BY <2>2, MoveOwed DEF Procs
  <1>8. CASE \E c \in Controllers : \E s \in Stages : Disconnect(c, s)
    <2>1. owed' = owed /\ \E p \in Procs : \E at :
                            /\ pc[p] # "sched" /\ at # "sched"
                            /\ pc' = [pc EXCEPT ![p] = at]
      BY <1>8 DEF Disconnect, Procs
    <2> QED
      BY <2>1, MoveOwed
  <1>9. CASE \E r \in Reapers : \/ \E n \in KillSizes : BeginKill(r, n)
                                \/ AbortKill(r) \/ AwaitKills(r)
                                \/ SpuriousKillWake(r) \/ DisconnectKiller(r)
    <2>1. owed' = owed /\ \E p \in Procs : \E at :
                            /\ pc[p] # "sched" /\ at # "sched"
                            /\ pc' = [pc EXCEPT ![p] = at]
      BY <1>9 DEF BeginKill, AbortKill, AwaitKills, SpuriousKillWake,
                  DisconnectKiller, callVars, Procs
    <2> QED
      BY <2>1, MoveOwed
  <1>10. CASE \E p \in Controllers \cup Reapers :
                SpuriousDiscWake(p) \/ DisconnectResume(p)
    <2>1. owed' = owed /\ \E p \in Procs : \E at :
                            /\ pc[p] # "sched" /\ at # "sched"
                            /\ pc' = [pc EXCEPT ![p] = at]
      BY <1>10 DEF SpuriousDiscWake, DisconnectResume, callVars, Procs
    <2> QED
      BY <2>1, MoveOwed
  <1>11. CASE \E r \in Reapers, W \in SUBSET Workers : AddThreads(r, W)
    <2>1. \A p \in Procs : /\ owed'[p] = owed[p]
                           /\ pc'[p] = "sched" <=> pc[p] = "sched"
      BY <1>11 DEF AddThreads, callVars, Procs
    <2> QED
      BY <2>1, SameOwed
  <1> QED
    BY <1>1, <1>2, <1>3, <1>4, <1>5, <1>6, <1>7, <1>8, <1>9, <1>10, <1>11
       DEF Next, WorkerStep, Handler, ControlStep, ReaperStep

-----------------------------------------------------------------------------
(* Who connects and disconnects the stages.                                *)
LEMMA KindsApart ==
    /\ \A w \in Workers : w \notin Producers \cup Controllers \cup Reapers
    /\ \A p \in Producers : p \notin Controllers \cup Reapers
    /\ \A c \in Controllers : c \notin Reapers
    /\ \A p \in Producers \cup Controllers \cup Reapers : p \in Procs /\ p # Nil
    /\ \A w \in Workers : w \in Procs /\ w # Nil
  BY ThreadsAssumption DEF Procs

(* What a step that is nobody's connect or disconnect may do.              *)
ControlKept ==
    /\ \A p \in Producers : pc'[p] \in {"idle", "sched"}
    /\ \A c \in Controllers :
         /\ target'[c] = target[c]
         /\ \/ pc'[c] = pc[c]
            \/ pc[c] = "sched" /\ pc'[c] = "idle"
            \/ pc[c] = "discwait" /\ pc'[c] = "discwoken"
    /\ \A s \in Stages : /\ connected'[s] = connected[s]
                         /\ ~connected[s] => eventRef'[s] = eventRef[s]

LEMMA SameControl ==
    ASSUME Controlled, ControlKept
    PROVE  Controlled'
  <1>1. /\ \A p \in Producers : pc'[p] \in {"idle", "sched"}
        /\ \A c \in Controllers :
             pc'[c] \in {"idle", "sched", "discwait", "discwoken"}
    BY DEF Controlled, ControlKept
  <1>2. \A c \in Controllers :
          /\ pc'[c] # "idle" => target'[c] \in Stages
          /\ pc'[c] \in {"discwait", "discwoken"} => ~connected'[target'[c]]
          /\ pc'[c] = "discwait" => eventRef'[target'[c]] > 0
    <2> SUFFICES ASSUME NEW c \in Controllers
                 PROVE  /\ pc'[c] # "idle" => target'[c] \in Stages
                        /\ pc'[c] \in {"discwait", "discwoken"} => ~connected'[target'[c]]
                        /\ pc'[c] = "discwait" => eventRef'[target'[c]] > 0
      OBVIOUS
    <2>1. target'[c] = target[c] /\ (pc'[c] # "idle" => target[c] \in Stages)
      BY DEF Controlled, ControlKept
    <2>2. pc'[c] \in {"discwait", "discwoken"} => ~connected[target[c]]
      BY DEF Controlled, ControlKept
    <2>3. pc'[c] = "discwait" => eventRef[target[c]] > 0
      BY DEF Controlled, ControlKept
    <2> QED
      BY <2>1, <2>2, <2>3 DEF ControlKept
  <1>3. \A c, d \in Controllers :
          pc'[c] # "idle" /\ pc'[d] # "idle" /\ target'[c] = target'[d] => c = d
    BY DEF Controlled, ControlKept
  <1>4. \A s \in Stages :
          ~connected'[s] /\ eventRef'[s] # 0
            => \E c \in Controllers : pc'[c] \in {"discwait", "discwoken"} /\ target'[c] = s
    BY DEF Controlled, ControlKept, Leaving
  <1> QED
    BY <1>1, <1>2, <1>3, <1>4 DEF Controlled, Leaving

LEMMA ScheduleControl ==
    ASSUME TypeOK, Controlled, NEW p \in Procs, Schedule(p)
    PROVE  Controlled'
  <1>1. PICK S \in SUBSET Waiting :
          pc' = [q \in Procs |-> IF q = p THEN ScheduleNext(p)
                                 ELSE IF q \in S THEN "woken" ELSE pc[q]]
    BY SchedulePc
  <1>2. pc[p] = "sched" /\ UNCHANGED <<connected, eventRef, target>>
    BY DEF Schedule, stageVars
  <1>3. \A q \in Producers \cup Controllers :
          pc'[q] = pc[q] \/ (pc[q] = "sched" /\ pc'[q] \in {"idle", "sched"})
    BY <1>1, <1>2, KindsApart DEF Waiting, ScheduleNext, AfterSchedule
  <1>4. ControlKept
    BY <1>2, <1>3 DEF ControlKept, Controlled
  <1> QED
    BY <1>4, SameControl

(* A step of a pool thread, a producer or a reaper that changes eventRef   *)
(* only for a connected stage and its own target.                          *)
LEMMA AddControl ==
    ASSUME TypeOK, Controlled, NEW p \in Procs \ Controllers, NEW s \in AllStages,
           NEW e, NEW next, AddEvent(p, s, e, next),
           p \in Producers => next = "idle"
    PROVE  Controlled'
  <1>1. \A q \in Procs : q # p => pc'[q] = pc[q] /\ target'[q] = target[q]
    BY DEF AddEvent, TypeOK, ThreadTypes
  <1>2. p \in Producers => pc'[p] \in {"idle", "sched"}
    BY DEF AddEvent, TypeOK, ThreadTypes
  <1>3. \A t \in AllStages : connected'[t] = connected[t]
    BY DEF AddEvent
  <1>4. \A t \in AllStages : ~connected[t] => eventRef'[t] = eventRef[t]
    BY DEF AddEvent, TypeOK, StageTypes
  <1>5. ControlKept
    BY <1>1, <1>2, <1>3, <1>4, KindsApart DEF ControlKept, Controlled, AllStages
  <1> QED
    BY <1>5, SameControl

(* A step that moves neither producers nor controllers and touches no      *)
(* stage of theirs.                                                        *)
LEMMA OthersControl ==
    ASSUME Controlled,
           \A p \in Producers \cup Controllers : pc'[p] = pc[p] /\ target'[p] = target[p],
           \A s \in Stages : connected'[s] = connected[s] /\ eventRef'[s] = eventRef[s]
    PROVE  Controlled'
  <1>1. ControlKept
    BY DEF ControlKept, Controlled
  <1> QED
    BY <1>1, SameControl

LEMMA WorkerControl ==
    ASSUME TypeOK, Controlled, NEW w \in Workers,
           \/ Sleep(w) \/ SpuriousRunWake(w) \/ DoneDelete(w)
           \/ PopStage(w) \/ RemoveEvent(w) \/ ThreadKill(w)
    PROVE  Controlled'
  <1>1. UNCHANGED <<connected, eventRef, target>>
    BY DEF Sleep, SpuriousRunWake, DoneDelete, PopStage, RemoveEvent, ThreadKill,
           stageVars, callVars
  <1>2. \/ \E at : pc' = [pc EXCEPT ![w] = at]
        \/ \E r \in Reapers : \E at, to : pc' = [pc EXCEPT ![w] = at, ![r] = to]
    BY DEF Sleep, SpuriousRunWake, DoneDelete, PopStage, RemoveEvent, ThreadKill
  <1>3. \A p \in Producers \cup Controllers : pc'[p] = pc[p]
    BY <1>2, KindsApart DEF TypeOK, ThreadTypes
  <1> QED
    BY <1>1, <1>3, OthersControl

LEMMA ReaperControl ==
    ASSUME TypeOK, Controlled, NEW r \in Reapers,
           \/ \E n \in KillSizes : BeginKill(r, n)
           \/ \E W \in SUBSET Workers : AddThreads(r, W)
           \/ AbortKill(r) \/ AwaitKills(r) \/ SpuriousKillWake(r)
           \/ DisconnectKiller(r) \/ SpuriousDiscWake(r) \/ DisconnectResume(r)
    PROVE  Controlled'
  <1>1. \A p \in Producers \cup Controllers : pc'[p] = pc[p]
    <2>1. CASE \E W \in SUBSET Workers : AddThreads(r, W)
      BY <2>1, KindsApart DEF AddThreads
    <2>2. CASE \E at : pc' = [pc EXCEPT ![r] = at]
      BY <2>2, KindsApart DEF TypeOK, ThreadTypes
    <2> QED
      BY <2>1, <2>2 DEF BeginKill, AbortKill, AwaitKills, SpuriousKillWake,
                        DisconnectKiller, SpuriousDiscWake, DisconnectResume
  <1>2. \A p \in Producers \cup Controllers : target'[p] = target[p]
    <2>1. target' = target \/ target' = [target EXCEPT ![r] = Killer]
      BY DEF BeginKill, AddThreads, AbortKill, AwaitKills, SpuriousKillWake,
             DisconnectKiller, SpuriousDiscWake, DisconnectResume, callVars
    <2> QED
      BY <2>1, KindsApart DEF TypeOK, ThreadTypes
  <1>3. \A s \in Stages : connected'[s] = connected[s] /\ eventRef'[s] = eventRef[s]
    <2>1. /\ \/ connected' = connected
             \/ connected' = [connected EXCEPT ![Killer] = TRUE]
             \/ connected' = [connected EXCEPT ![Killer] = FALSE]
          /\ \/ eventRef' = eventRef
             \/ eventRef' = [eventRef EXCEPT ![Killer] = Len(eventList[Killer])]
      BY DEF BeginKill, AddThreads, AbortKill, AwaitKills, SpuriousKillWake,
             DisconnectKiller, SpuriousDiscWake, DisconnectResume, stageVars
    <2> QED
      BY <2>1, DataAssumption DEF TypeOK, StageTypes, AllStages
  <1> QED
    BY <1>1, <1>2, <1>3, OthersControl

(* The counter is positive while a thread works for the stage, and never   *)
(* negative.                                                               *)
LEMMA RefPositive ==
    ASSUME TypeOK, Balanced, NEW s \in AllStages
    PROVE  /\ eventRef[s] >= 0
           /\ \A w \in Workers : runStage[w] = s => eventRef[s] > 0
  <1>1. Balance(s)
    BY DEF Balanced
  <1>2. /\ Runs(s) \in Nat /\ Calls(s) \in Nat /\ Handlers(s) \in Nat
        /\ IsFiniteSet(Serving(s))
    BY <1>1, Numbers
  <1>3. \A w \in Workers : runStage[w] = s => Handlers(s) # 0
    BY <1>2, FS_EmptySet DEF Serving, Handlers
  <1> QED
    BY <1>1, <1>2, <1>3 DEF Balance

(* releaseEvent of the last event wakes the thread in disconnect; else the *)
(* counter stays positive.                                                 *)
LEMMA ReleaseLeaves ==
    ASSUME TypeOK, Balanced, NEW w \in Workers, NEW next, ReleaseRef(w, next),
           pc[w] \in {"release", "killrel"}
    PROVE  /\ runStage[w] \in AllStages /\ eventRef[runStage[w]] > 0
           /\ \A t \in AllStages :
                eventRef'[t] = IF t = runStage[w] THEN eventRef[t] - 1 ELSE eventRef[t]
           /\ \/ /\ pc' = [pc EXCEPT ![w] = next]
                 /\ \/ connected[runStage[w]] \/ eventRef[runStage[w]] # 1
                    \/ \A p \in Procs : ~(pc[p] = "discwait" /\ target[p] = runStage[w])
              \/ /\ ~connected[runStage[w]] /\ eventRef[runStage[w]] = 1
                 /\ \E p \in Procs : /\ pc[p] = "discwait" /\ target[p] = runStage[w]
                                     /\ pc' = [pc EXCEPT ![w] = next, ![p] = "discwoken"]
  <1>1. runStage[w] \in AllStages
    BY DEF TypeOK, ThreadTypes, Fits, AllStages
  <1>2. eventRef[runStage[w]] > 0
    BY <1>1, RefPositive
  <1>3. \A t \in AllStages :
          eventRef'[t] = IF t = runStage[w] THEN eventRef[t] - 1 ELSE eventRef[t]
    BY <1>1 DEF ReleaseRef, TypeOK, StageTypes
  <1>4. \/ /\ pc' = [pc EXCEPT ![w] = next]
           /\ \/ connected[runStage[w]] \/ eventRef[runStage[w]] # 1
              \/ \A p \in Procs : ~(pc[p] = "discwait" /\ target[p] = runStage[w])
        \/ /\ ~connected[runStage[w]] /\ eventRef[runStage[w]] = 1
           /\ \E p \in Procs : /\ pc[p] = "discwait" /\ target[p] = runStage[w]
                               /\ pc' = [pc EXCEPT ![w] = next, ![p] = "discwoken"]
    BY DEF ReleaseRef, LastRelease
  <1> QED
    BY <1>1, <1>2, <1>3, <1>4

LEMMA ReleaseControl ==
    ASSUME TypeOK, Balanced, Controlled, Reaped, NEW w \in Workers,
           ReleaseEvent(w) \/ ThreadExit(w)
    PROVE  Controlled'
  <1>1. PICK next : ReleaseRef(w, next)
    BY DEF ReleaseEvent, ThreadExit
  <1>2. pc[w] \in {"release", "killrel"} /\ UNCHANGED <<connected, target>>
    BY DEF ReleaseEvent, ThreadExit, callVars
  <1>3. PICK s \in AllStages :
          /\ s = runStage[w] /\ eventRef[s] > 0
          /\ \A t \in AllStages :
               eventRef'[t] = IF t = s THEN eventRef[t] - 1 ELSE eventRef[t]
          /\ \/ /\ pc' = [pc EXCEPT ![w] = next]
                /\ \/ connected[s] \/ eventRef[s] # 1
                   \/ \A p \in Procs : ~(pc[p] = "discwait" /\ target[p] = s)
             \/ /\ ~connected[s] /\ eventRef[s] = 1
                /\ \E p \in Procs : /\ pc[p] = "discwait" /\ target[p] = s
                                    /\ pc' = [pc EXCEPT ![w] = next, ![p] = "discwoken"]
    BY <1>1, <1>2, ReleaseLeaves
  <1>4. /\ \A p \in Producers : pc'[p] = pc[p]
        /\ \A c \in Controllers :
             pc'[c] = pc[c] \/ (pc[c] = "discwait" /\ pc'[c] = "discwoken")
    <2>1. \A p \in Producers : pc[p] # "discwait"
      BY DEF Controlled
    <2> QED
      BY <1>3, <2>1, KindsApart DEF TypeOK, ThreadTypes
  <1>5. \A c \in Controllers : pc'[c] = "discwait" => eventRef'[target[c]] > 0
    <2> SUFFICES ASSUME NEW c \in Controllers, pc'[c] = "discwait"
                 PROVE  eventRef'[target[c]] > 0
      OBVIOUS
    <2>1. /\ pc[c] = "discwait" /\ target[c] \in Stages
          /\ ~connected[target[c]] /\ eventRef[target[c]] > 0
      BY <1>4 DEF Controlled
    <2>2. CASE target[c] # s
      BY <1>3, <2>1, <2>2 DEF AllStages
    <2>3. CASE target[c] = s
      <3>1. eventRef[s] # 1
        <4> SUFFICES ASSUME eventRef[s] = 1 PROVE FALSE
          OBVIOUS
        <4>1. PICK p \in Procs :
                /\ pc[p] = "discwait" /\ target[p] = s
                /\ pc' = [pc EXCEPT ![w] = next, ![p] = "discwoken"]
          BY <1>3, <2>1, <2>3, KindsApart
        <4>2. p \in Controllers
          <5>1. p \in Controllers \cup Reapers
            BY <4>1 DEF Procs, Controlled, TypeOK, ThreadTypes, Fits, WorkerPCs
          <5>2. p \in Reapers => target[p] = Killer
            BY <4>1 DEF Reaped
          <5> QED
            BY <2>1, <2>3, <4>1, <5>1, <5>2, DataAssumption
        <4>3. p # c
          BY <2>1, <4>1, KindsApart DEF TypeOK, ThreadTypes
        <4>4. pc[c] = "discwait" /\ pc'[c] = "discwait"
          BY <2>1
        <4> QED
          BY <2>1, <2>3, <4>1, <4>2, <4>3 DEF Controlled
      <3>2. eventRef[s] \in Int
        BY DEF TypeOK, StageTypes
      <3> QED
        BY <1>3, <2>1, <2>3, <3>1, <3>2
    <2> QED
      BY <2>2, <2>3
  <1>6. /\ \A p \in Producers : pc'[p] \in {"idle", "sched"}
        /\ \A c \in Controllers :
             /\ pc'[c] \in {"idle", "sched", "discwait", "discwoken"}
             /\ pc'[c] # "idle" => target'[c] \in Stages
             /\ pc'[c] \in {"discwait", "discwoken"} => ~connected'[target'[c]]
             /\ pc'[c] = "discwait" => eventRef'[target'[c]] > 0
    BY <1>2, <1>4, <1>5 DEF Controlled
  <1>7. \A c, d \in Controllers :
          pc'[c] # "idle" /\ pc'[d] # "idle" /\ target'[c] = target'[d] => c = d
    BY <1>2, <1>4 DEF Controlled
  <1>8. \A t \in Stages :
          ~connected'[t] /\ eventRef'[t] # 0
            => \E c \in Controllers : pc'[c] \in {"discwait", "discwoken"} /\ target'[c] = t
    <2>1. \A t \in Stages : eventRef'[t] # 0 => eventRef[t] # 0
      BY <1>3 DEF AllStages
    <2> QED
      BY <1>2, <1>4, <2>1 DEF Controlled, Leaving
  <1> QED
    BY <1>6, <1>7, <1>8 DEF Controlled, Leaving

LEMMA ConnectControl ==
    ASSUME TypeOK, Controlled, NEW c \in Controllers, NEW s \in Stages, Connect(c, s)
    PROVE  Controlled'
  <1>1. /\ pc[c] = "idle" /\ ~connected[s]
        /\ \A d \in Controllers : pc[d] # "idle" => target[d] # s
        /\ \A t \in Stages : connected'[t] = IF t = s THEN TRUE ELSE connected[t]
    BY DEF Connect, TypeOK, StageTypes, AllStages
  <1>2. \A t \in Stages : t # s => eventRef'[t] = eventRef[t]
    BY DEF Connect, TypeOK, StageTypes, AllStages
  <1>3. /\ target'[c] = s /\ pc'[c] \in {"idle", "sched"}
        /\ \A q \in Producers \cup Controllers :
             q # c => pc'[q] = pc[q] /\ target'[q] = target[q]
    BY KindsApart DEF Connect, TypeOK, ThreadTypes
  <1>4. /\ \A p \in Producers : pc'[p] \in {"idle", "sched"}
        /\ \A d \in Controllers :
             pc'[d] \in {"idle", "sched", "discwait", "discwoken"}
    BY <1>3, KindsApart DEF Controlled
  <1>5. \A d \in Controllers :
          /\ pc'[d] # "idle" => target'[d] \in Stages
          /\ pc'[d] \in {"discwait", "discwoken"} => ~connected'[target'[d]]
          /\ pc'[d] = "discwait" => eventRef'[target'[d]] > 0
    <2> SUFFICES ASSUME NEW d \in Controllers
                 PROVE  /\ pc'[d] # "idle" => target'[d] \in Stages
                        /\ pc'[d] \in {"discwait", "discwoken"} => ~connected'[target'[d]]
                        /\ pc'[d] = "discwait" => eventRef'[target'[d]] > 0
      OBVIOUS
    <2>1. CASE d = c
      BY <1>3, <2>1
    <2>2. CASE d # c
      <3>1. pc'[d] = pc[d] /\ target'[d] = target[d]
        BY <1>3, <2>2
      <3>2. pc[d] # "idle" => target[d] \in Stages /\ target[d] # s
        BY <1>1 DEF Controlled
      <3>3. pc[d] \in {"discwait", "discwoken"} => ~connected'[target[d]]
        BY <1>1, <3>2 DEF Controlled
      <3>4. pc[d] = "discwait" => eventRef'[target[d]] > 0
        BY <1>2, <3>2 DEF Controlled
      <3> QED
        BY <3>1, <3>2, <3>3, <3>4
    <2> QED
      BY <2>1, <2>2
  <1>6. \A d, f \in Controllers :
          pc'[d] # "idle" /\ pc'[f] # "idle" /\ target'[d] = target'[f] => d = f
    BY <1>1, <1>3 DEF Controlled
  <1>7. \A t \in Stages :
          ~connected'[t] /\ eventRef'[t] # 0
            => \E d \in Controllers : pc'[d] \in {"discwait", "discwoken"} /\ target'[d] = t
    <2> SUFFICES ASSUME NEW t \in Stages, ~connected'[t], eventRef'[t] # 0
                 PROVE  \E d \in Controllers :
                          pc'[d] \in {"discwait", "discwoken"} /\ target'[d] = t
      OBVIOUS
    <2>1. ~connected[t] /\ eventRef[t] # 0
      BY <1>1, <1>2
    <2>2. PICK d \in Controllers : pc[d] \in {"discwait", "discwoken"} /\ target[d] = t
      BY <2>1 DEF Controlled, Leaving
    <2> QED
      BY <1>1, <1>3, <2>2
  <1> QED
    BY <1>4, <1>5, <1>6, <1>7 DEF Controlled, Leaving

LEMMA DisconnectControl ==
    ASSUME TypeOK, Balanced, Controlled, NEW c \in Controllers, NEW s \in Stages,
           Disconnect(c, s)
    PROVE  Controlled'
  <1>1. /\ pc[c] = "idle"
        /\ \A d \in Controllers : pc[d] # "idle" => target[d] # s
        /\ \A t \in Stages : connected'[t] = IF t = s THEN FALSE ELSE connected[t]
        /\ UNCHANGED eventRef
    BY DEF Disconnect, TypeOK, StageTypes, AllStages
  <1>2. /\ target'[c] = s
        /\ pc'[c] = IF eventRef[s] > 0 THEN "discwait" ELSE "idle"
        /\ \A q \in Producers \cup Controllers :
             q # c => pc'[q] = pc[q] /\ target'[q] = target[q]
    BY KindsApart DEF Disconnect, Outstanding, TypeOK, ThreadTypes
  <1>3. /\ \A p \in Producers : pc'[p] \in {"idle", "sched"}
        /\ \A d \in Controllers :
             pc'[d] \in {"idle", "sched", "discwait", "discwoken"}
    BY <1>2, KindsApart DEF Controlled
  <1>4. \A d \in Controllers :
          /\ pc'[d] # "idle" => target'[d] \in Stages
          /\ pc'[d] \in {"discwait", "discwoken"} => ~connected'[target'[d]]
          /\ pc'[d] = "discwait" => eventRef'[target'[d]] > 0
    <2> SUFFICES ASSUME NEW d \in Controllers
                 PROVE  /\ pc'[d] # "idle" => target'[d] \in Stages
                        /\ pc'[d] \in {"discwait", "discwoken"} => ~connected'[target'[d]]
                        /\ pc'[d] = "discwait" => eventRef'[target'[d]] > 0
      OBVIOUS
    <2>1. CASE d = c
      BY <1>1, <1>2, <2>1
    <2>2. CASE d # c
      <3>1. pc'[d] = pc[d] /\ target'[d] = target[d]
        BY <1>2, <2>2
      <3>2. pc[d] # "idle" => target[d] \in Stages /\ target[d] # s
        BY <1>1 DEF Controlled
      <3>3. pc[d] \in {"discwait", "discwoken"} => ~connected'[target[d]]
        BY <1>1, <3>2 DEF Controlled
      <3>4. pc[d] = "discwait" => eventRef'[target[d]] > 0
        BY <1>1 DEF Controlled
      <3> QED
        BY <3>1, <3>2, <3>3, <3>4
    <2> QED
      BY <2>1, <2>2
  <1>5. \A d, f \in Controllers :
          pc'[d] # "idle" /\ pc'[f] # "idle" /\ target'[d] = target'[f] => d = f
    BY <1>1, <1>2 DEF Controlled
  <1>6. \A t \in Stages :
          ~connected'[t] /\ eventRef'[t] # 0
            => \E d \in Controllers : pc'[d] \in {"discwait", "discwoken"} /\ target'[d] = t
    <2> SUFFICES ASSUME NEW t \in Stages, ~connected'[t], eventRef'[t] # 0
                 PROVE  \E d \in Controllers :
                          pc'[d] \in {"discwait", "discwoken"} /\ target'[d] = t
      OBVIOUS
    <2>1. CASE t = s
      <3>1. eventRef[s] \in Int /\ eventRef[s] >= 0
        BY RefPositive DEF AllStages, TypeOK, StageTypes
      <3>2. eventRef[s] > 0
        BY <1>1, <2>1, <3>1
      <3> QED
        BY <1>2, <2>1, <3>2
    <2>2. CASE t # s
      <3>1. PICK d \in Controllers : pc[d] \in {"discwait", "discwoken"} /\ target[d] = t
        BY <1>1, <2>2 DEF Controlled, Leaving
      <3> QED
        BY <1>1, <1>2, <3>1
    <2> QED
      BY <2>1, <2>2
  <1> QED
    BY <1>3, <1>4, <1>5, <1>6 DEF Controlled, Leaving

LEMMA ResumeControl ==
    ASSUME TypeOK, Balanced, Controlled, NEW c \in Controllers,
           SpuriousDiscWake(c) \/ DisconnectResume(c)
    PROVE  Controlled'
  <1>1. UNCHANGED <<connected, eventRef, target>>
    BY DEF SpuriousDiscWake, DisconnectResume, stageVars, callVars
  <1>2. /\ \A q \in Producers \cup Controllers : q # c => pc'[q] = pc[q]
        /\ \/ pc[c] = "discwait" /\ pc'[c] = "discwoken"
           \/ /\ pc[c] = "discwoken"
              /\ pc'[c] = IF eventRef[target[c]] > 0 THEN "discwait" ELSE "idle"
    BY KindsApart DEF SpuriousDiscWake, DisconnectResume, Outstanding, TypeOK,
                      ThreadTypes
  <1>3. CASE pc'[c] \in {"discwait", "discwoken"}
    BY <1>1, <1>2, <1>3, KindsApart DEF Controlled, Leaving
  <1>4. CASE pc'[c] = "idle"
    <2>1. pc[c] = "discwoken" /\ ~(eventRef[target[c]] > 0) /\ target[c] \in Stages
      BY <1>2, <1>4 DEF Controlled
    <2>2. eventRef[target[c]] = 0
      <3>1. /\ eventRef[target[c]] \in Int
            /\ eventRef[target[c]] >= 0
        BY <2>1, RefPositive DEF AllStages, TypeOK, StageTypes
      <3> QED
        BY <2>1, <3>1
    <2> QED
      BY <1>1, <1>2, <1>4, <2>1, <2>2, KindsApart DEF Controlled, Leaving
  <1> QED
    BY <1>2, <1>3, <1>4

LEMMA ControlNext ==
    ASSUME TypeOK, RefInv, Next
    PROVE  Controlled'
  <1>1. Balanced /\ Controlled /\ Reaped
    BY DEF RefInv
  <1>2. CASE \E p \in Procs : Schedule(p)
    BY <1>1, <1>2, ScheduleControl
  <1>3. CASE \E w \in Workers : \/ \E s \in Stages : Forward(w, s)
                                \/ DoneReschedule(w)
                                \/ \E e \in Events, s \in Stages : Spawn(w, e, s)
    <2>1. PICK w \in Workers, s \in AllStages, e \in Events,
               next \in {"handle", "release"} : AddEvent(w, s, e, next)
      <3>1. PICK w \in Workers : \/ \E s \in Stages : Forward(w, s)
                                 \/ DoneReschedule(w)
                                 \/ \E e \in Events, s \in Stages : Spawn(w, e, s)
        BY <1>3
      <3>2. event[w] \in Events
        BY <3>1 DEF Forward, DoneReschedule, Spawn, TypeOK, ThreadTypes, Fits
      <3>3. DoneReschedule(w) => Head(compCB[event[w]]) \in Stages
        BY <3>2 DEF DoneReschedule, TypeOK, StageTypes
      <3> QED
        BY <3>1, <3>2, <3>3 DEF Forward, DoneReschedule, Spawn, AllStages
    <2>2. w \in Procs \ Controllers /\ w \notin Producers
      BY KindsApart
    <2> QED
      BY <1>1, <2>1, <2>2, AddControl
  <1>4. CASE \/ \E p \in Producers, e \in Events, s \in Stages : Produce(p, e, s)
             \/ \E r \in Reapers : GenKillEvent(r)
    <2>1. PICK p \in Producers \cup Reapers, s \in AllStages,
               e \in Events \cup {KillEvent}, next \in {"idle", "gen"} :
            AddEvent(p, s, e, next) /\ (p \in Producers => next = "idle")
      BY <1>4, KindsApart DEF Produce, GenKillEvent, AllStages
    <2>2. p \in Procs \ Controllers
      BY KindsApart
    <2> QED
      BY <1>1, <2>1, <2>2, AddControl
  <1>5. CASE \E w \in Workers : \/ Sleep(w) \/ SpuriousRunWake(w) \/ DoneDelete(w)
                                \/ PopStage(w) \/ RemoveEvent(w) \/ ThreadKill(w)
    BY <1>1, <1>5, WorkerControl
  <1>6. CASE \E w \in Workers : ReleaseEvent(w) \/ ThreadExit(w)
    BY <1>1, <1>6, ReleaseControl
  <1>7. CASE \E r \in Reapers :
                \/ \E n \in KillSizes : BeginKill(r, n)
                \/ \E W \in SUBSET Workers : AddThreads(r, W)
                \/ AbortKill(r) \/ AwaitKills(r) \/ SpuriousKillWake(r)
                \/ DisconnectKiller(r) \/ SpuriousDiscWake(r) \/ DisconnectResume(r)
    BY <1>1, <1>7, ReaperControl
  <1>8. CASE \E c \in Controllers, s \in Stages : Connect(c, s) \/ Disconnect(c, s)
    BY <1>1, <1>8, ConnectControl, DisconnectControl
  <1>9. CASE \E c \in Controllers : SpuriousDiscWake(c) \/ DisconnectResume(c)
    BY <1>1, <1>9, ResumeControl
  <1> QED
    BY <1>2, <1>3, <1>4, <1>5, <1>6, <1>7, <1>8, <1>9
       DEF Next, WorkerStep, Handler, ControlStep, ReaperStep

-----------------------------------------------------------------------------
(* Who connects and disconnects the killer stage.                          *)
ReapKept ==
    /\ \A r \in Reapers :
         /\ target'[r] = target[r]
         /\ \/ pc'[r] = pc[r]
            \/ pc[r] = "sched" /\ pc'[r] = "gen"
            \/ pc[r] = "discwait" /\ pc'[r] = "discwoken"
            \/ pc[r] = "killwait" /\ pc'[r] = "killwoken"
    /\ threadMutex' = threadMutex
    /\ connected'[Killer] = connected[Killer]
    /\ ~connected[Killer] => eventRef'[Killer] = eventRef[Killer]

LEMMA SameReap ==
    ASSUME Reaped, ReapKept
    PROVE  Reaped'
  <1>1. \A r \in Reapers :
          /\ pc'[r] \in {"gen", "sched", "killwait", "killwoken"} => connected'[Killer]
          /\ pc'[r] \in {"gen", "sched"} => threadMutex' = r
          /\ pc'[r] \in {"sched", "discwait", "discwoken"} => target'[r] = Killer
          /\ pc'[r] \in {"discwait", "discwoken"}
               => threadMutex' = r /\ ~connected'[Killer]
          /\ pc'[r] = "discwait" => eventRef'[Killer] > 0
    BY DEF Reaped, ReapKept, Killing
  <1>2. \A r, q \in Reapers :
          pc'[r] \in {"gen", "sched", "killwait", "killwoken"}
            /\ pc'[q] \in {"gen", "sched", "killwait", "killwoken"} => r = q
    BY DEF Reaped, ReapKept, Killing
  <1>3. ~connected'[Killer] /\ eventRef'[Killer] # 0
          => \E r \in Reapers : pc'[r] \in {"discwait", "discwoken"} /\ target'[r] = Killer
    BY DEF Reaped, ReapKept, Leaving
  <1> QED
    BY <1>1, <1>2, <1>3 DEF Reaped, Killing, Leaving

LEMMA ScheduleReap ==
    ASSUME TypeOK, Reaped, NEW p \in Procs, Schedule(p)
    PROVE  Reaped'
  <1>1. PICK S \in SUBSET Waiting :
          pc' = [q \in Procs |-> IF q = p THEN ScheduleNext(p)
                                 ELSE IF q \in S THEN "woken" ELSE pc[q]]
    BY SchedulePc
  <1>2. pc[p] = "sched" /\ UNCHANGED <<connected, eventRef, target, threadMutex>>
    BY DEF Schedule, stageVars, killVars
  <1>3. \A r \in Reapers : pc'[r] = pc[r] \/ (pc[r] = "sched" /\ pc'[r] = "gen")
    BY <1>1, <1>2, KindsApart DEF Waiting, ScheduleNext, AfterSchedule
  <1>4. ReapKept
    BY <1>2, <1>3 DEF ReapKept
  <1> QED
    BY <1>4, SameReap

LEMMA AddReap ==
    ASSUME TypeOK, Reaped, NEW p \in Workers \cup Producers, NEW s \in AllStages,
           NEW e, NEW next, AddEvent(p, s, e, next), UNCHANGED threadMutex
    PROVE  Reaped'
  <1>1. \A r \in Reapers : pc'[r] = pc[r] /\ target'[r] = target[r]
    BY KindsApart DEF AddEvent, TypeOK, ThreadTypes
  <1>2. connected'[Killer] = connected[Killer]
    BY DEF AddEvent
  <1>3. ~connected[Killer] => eventRef'[Killer] = eventRef[Killer]
    BY DEF AddEvent, TypeOK, StageTypes, AllStages
  <1>4. ReapKept
    BY <1>1, <1>2, <1>3 DEF ReapKept
  <1> QED
    BY <1>4, SameReap

LEMMA WorkerReap ==
    ASSUME TypeOK, Reaped, NEW w \in Workers,
           \/ Sleep(w) \/ SpuriousRunWake(w) \/ DoneDelete(w)
           \/ PopStage(w) \/ RemoveEvent(w) \/ ThreadKill(w)
    PROVE  Reaped'
  <1>1. UNCHANGED <<connected, eventRef, target, threadMutex>>
    BY DEF Sleep, SpuriousRunWake, DoneDelete, PopStage, RemoveEvent, ThreadKill,
           stageVars, callVars, killVars
  <1>2. \/ \E at : pc' = [pc EXCEPT ![w] = at]
        \/ \E r \in Reapers : \E at : /\ pc[r] = "killwait"
                                     /\ pc' = [pc EXCEPT ![w] = at, ![r] = "killwoken"]
    BY DEF Sleep, SpuriousRunWake, DoneDelete, PopStage, RemoveEvent, ThreadKill
  <1>3. \A r \in Reapers :
          pc'[r] = pc[r] \/ (pc[r] = "killwait" /\ pc'[r] = "killwoken")
    BY <1>2, KindsApart DEF TypeOK, ThreadTypes
  <1>4. ReapKept
    BY <1>1, <1>3 DEF ReapKept
  <1> QED
    BY <1>4, SameReap

LEMMA ControllerReap ==
    ASSUME TypeOK, Reaped, NEW c \in Controllers,
           \/ \E s \in Stages : Connect(c, s) \/ Disconnect(c, s)
           \/ SpuriousDiscWake(c) \/ DisconnectResume(c)
    PROVE  Reaped'
  <1>1. UNCHANGED threadMutex
    BY KindsApart DEF Connect, Disconnect, SpuriousDiscWake, DisconnectResume, killVars
  <1>2. connected'[Killer] = connected[Killer] /\ eventRef'[Killer] = eventRef[Killer]
    <2>1. /\ \/ connected' = connected
             \/ \E s \in Stages, b \in BOOLEAN : connected' = [connected EXCEPT ![s] = b]
          /\ \/ eventRef' = eventRef
             \/ \E s \in Stages : \E n : eventRef' = [eventRef EXCEPT ![s] = n]
      BY DEF Connect, Disconnect, SpuriousDiscWake, DisconnectResume, stageVars
    <2> QED
      BY <2>1, DataAssumption DEF TypeOK, StageTypes, AllStages
  <1>3. \A r \in Reapers : pc'[r] = pc[r] /\ target'[r] = target[r]
    <2>1. /\ \E at : pc' = [pc EXCEPT ![c] = at]
          /\ target' = target \/ \E s : target' = [target EXCEPT ![c] = s]
      BY DEF Connect, Disconnect, SpuriousDiscWake, DisconnectResume, callVars
    <2> QED
      BY <2>1, KindsApart DEF TypeOK, ThreadTypes
  <1>4. ReapKept
    BY <1>1, <1>2, <1>3 DEF ReapKept
  <1> QED
    BY <1>4, SameReap

LEMMA ReleaseReap ==
    ASSUME TypeOK, Balanced, Controlled, Reaped, NEW w \in Workers,
           ReleaseEvent(w) \/ ThreadExit(w)
    PROVE  Reaped'
  <1>1. PICK next : ReleaseRef(w, next)
    BY DEF ReleaseEvent, ThreadExit
  <1>2. /\ pc[w] \in {"release", "killrel"}
        /\ UNCHANGED <<connected, target, threadMutex>>
    BY DEF ReleaseEvent, ThreadExit, callVars, killVars
  <1>3. PICK s \in AllStages :
          /\ s = runStage[w] /\ eventRef[s] > 0
          /\ \A t \in AllStages :
               eventRef'[t] = IF t = s THEN eventRef[t] - 1 ELSE eventRef[t]
          /\ \/ /\ pc' = [pc EXCEPT ![w] = next]
                /\ \/ connected[s] \/ eventRef[s] # 1
                   \/ \A p \in Procs : ~(pc[p] = "discwait" /\ target[p] = s)
             \/ /\ ~connected[s] /\ eventRef[s] = 1
                /\ \E p \in Procs : /\ pc[p] = "discwait" /\ target[p] = s
                                    /\ pc' = [pc EXCEPT ![w] = next, ![p] = "discwoken"]
    BY <1>1, <1>2, ReleaseLeaves
  <1>4. \A r \in Reapers :
          pc'[r] = pc[r] \/ (pc[r] = "discwait" /\ pc'[r] = "discwoken")
    BY <1>3, KindsApart DEF TypeOK, ThreadTypes
  <1>5. \A r \in Reapers : pc'[r] = "discwait" => eventRef'[Killer] > 0
    <2> SUFFICES ASSUME NEW r \in Reapers, pc'[r] = "discwait"
                 PROVE  eventRef'[Killer] > 0
      OBVIOUS
    <2>1. /\ pc[r] = "discwait" /\ target[r] = Killer /\ threadMutex = r
          /\ ~connected[Killer] /\ eventRef[Killer] > 0
      BY <1>4 DEF Reaped
    <2>2. CASE Killer # s
      BY <1>3, <2>1, <2>2 DEF AllStages
    <2>3. CASE Killer = s
      <3>1. eventRef[s] # 1
        <4> SUFFICES ASSUME eventRef[s] = 1 PROVE FALSE
          OBVIOUS
        <4>1. PICK p \in Procs :
                /\ pc[p] = "discwait" /\ target[p] = s
                /\ pc' = [pc EXCEPT ![w] = next, ![p] = "discwoken"]
          BY <1>3, <2>1, <2>3, KindsApart
        <4>2. p \in Reapers
          <5>1. p \in Controllers \cup Reapers
            BY <4>1 DEF Procs, Controlled, TypeOK, ThreadTypes, Fits, WorkerPCs
          <5>2. p \in Controllers => target[p] \in Stages
            BY <4>1 DEF Controlled
          <5> QED
            BY <2>3, <4>1, <5>1, <5>2, DataAssumption
        <4>3. p = r
          BY <2>1, <4>1, <4>2 DEF Reaped
        <4>4. pc'[p] = "discwoken"
          BY <4>1, <4>2, KindsApart DEF TypeOK, ThreadTypes
        <4>5. pc'[r] = "discwait"
          OBVIOUS
        <4> QED
          BY <4>3, <4>4, <4>5
      <3>2. eventRef[s] \in Int
        BY DEF TypeOK, StageTypes
      <3> QED
        BY <1>3, <2>1, <2>3, <3>1, <3>2
    <2> QED
      BY <2>2, <2>3
  <1>6. \A r \in Reapers :
          /\ pc'[r] \in {"gen", "sched", "killwait", "killwoken"} => connected'[Killer]
          /\ pc'[r] \in {"gen", "sched"} => threadMutex' = r
          /\ pc'[r] \in {"sched", "discwait", "discwoken"} => target'[r] = Killer
          /\ pc'[r] \in {"discwait", "discwoken"}
               => threadMutex' = r /\ ~connected'[Killer]
    BY <1>2, <1>4 DEF Reaped, Killing
  <1>7. \A r, q \in Reapers :
          pc'[r] \in {"gen", "sched", "killwait", "killwoken"}
            /\ pc'[q] \in {"gen", "sched", "killwait", "killwoken"} => r = q
    BY <1>4 DEF Reaped, Killing
  <1>8. ~connected'[Killer] /\ eventRef'[Killer] # 0
          => \E r \in Reapers : pc'[r] \in {"discwait", "discwoken"} /\ target'[r] = Killer
    <2>1. eventRef'[Killer] # 0 => eventRef[Killer] # 0
      BY <1>3 DEF AllStages
    <2> QED
      BY <1>2, <1>4, <2>1 DEF Reaped, Leaving
  <1> QED
    BY <1>5, <1>6, <1>7, <1>8 DEF Reaped, Killing, Leaving

LEMMA BeginReap ==
    ASSUME TypeOK, Reaped, NEW r \in Reapers, NEW n \in KillSizes, BeginKill(r, n)
    PROVE  Reaped'
  <1>1. /\ threadMutex = Nil /\ ~connected[Killer] /\ threadMutex' = r
        /\ connected'[Killer]
    BY DEF BeginKill, TypeOK, StageTypes, AllStages
  <1>2. pc'[r] = "gen" /\ \A q \in Reapers : q # r => pc'[q] = pc[q]
    BY KindsApart DEF BeginKill, TypeOK, ThreadTypes
  <1>3. \A q \in Reapers : q # r =>
          pc'[q] \notin {"gen", "sched", "killwait", "killwoken", "discwait", "discwoken"}
    BY <1>1, <1>2, KindsApart DEF Reaped, Killing
  <1> QED
    BY <1>1, <1>2, <1>3 DEF Reaped, Killing, Leaving

LEMMA GenReap ==
    ASSUME TypeOK, Reaped, NEW r \in Reapers, GenKillEvent(r)
    PROVE  Reaped'
  <1>1. /\ pc[r] = "gen" /\ threadMutex' = threadMutex /\ connected[Killer]
        /\ AddEvent(r, Killer, KillEvent, "gen")
    BY DEF GenKillEvent, Reaped, Killing
  <1>2. /\ connected'[Killer] /\ pc'[r] = "sched" /\ target'[r] = Killer
        /\ \A q \in Reapers : q # r => pc'[q] = pc[q] /\ target'[q] = target[q]
    BY <1>1, KindsApart DEF AddEvent, TypeOK, ThreadTypes
  <1>3. \A q \in Reapers : q # r =>
          pc'[q] \notin {"gen", "sched", "killwait", "killwoken", "discwait", "discwoken"}
    BY <1>1, <1>2 DEF Reaped, Killing
  <1> QED
    BY <1>1, <1>2, <1>3 DEF Reaped, Killing, Leaving

LEMMA IdleReap ==
    ASSUME TypeOK, Reaped, NEW r \in Reapers,
           \/ \E W \in SUBSET Workers : AddThreads(r, W)
           \/ AbortKill(r) \/ SpuriousKillWake(r) \/ SpuriousDiscWake(r)
    PROVE  Reaped'
  <1>1. UNCHANGED <<connected, eventRef, target, threadMutex>>
    BY DEF AddThreads, AbortKill, SpuriousKillWake, SpuriousDiscWake, stageVars,
           callVars, killVars
  <1>2. CASE AbortKill(r)
    <2>1. /\ pc[r] = "idle" /\ pc'[r] = "abort"
          /\ \A q \in Reapers : q # r => pc'[q] = pc[q]
      BY <1>2, KindsApart DEF AbortKill, TypeOK, ThreadTypes
    <2> QED
      BY <1>1, <2>1 DEF Reaped, Killing, Leaving
  <1>3. CASE \/ \E W \in SUBSET Workers : AddThreads(r, W)
             \/ SpuriousKillWake(r) \/ SpuriousDiscWake(r)
    <2>1. \A q \in Reapers : \/ pc'[q] = pc[q]
                             \/ pc[q] = "discwait" /\ pc'[q] = "discwoken"
                             \/ pc[q] = "killwait" /\ pc'[q] = "killwoken"
      BY <1>3, KindsApart
         DEF AddThreads, SpuriousKillWake, SpuriousDiscWake, TypeOK, ThreadTypes
    <2>2. ReapKept
      BY <1>1, <2>1 DEF ReapKept
    <2> QED
      BY <2>2, SameReap
  <1> QED
    BY <1>2, <1>3

LEMMA AwaitReap ==
    ASSUME TypeOK, Reaped, NEW r \in Reapers, AwaitKills(r)
    PROVE  Reaped'
  <1>1. /\ pc[r] = "gen" /\ threadMutex' = Nil /\ threadMutex = r /\ connected[Killer]
        /\ UNCHANGED <<connected, eventRef, target>>
    BY DEF AwaitKills, Reaped, Killing, stageVars, callVars
  <1>2. pc'[r] = "killwait" /\ \A q \in Reapers : q # r => pc'[q] = pc[q]
    BY KindsApart DEF AwaitKills, TypeOK, ThreadTypes
  <1>3. \A q \in Reapers : q # r =>
          pc'[q] \notin {"gen", "sched", "killwait", "killwoken", "discwait", "discwoken"}
    BY <1>1, <1>2 DEF Reaped, Killing
  <1> QED
    BY <1>1, <1>2, <1>3 DEF Reaped, Killing, Leaving

LEMMA DisconnectReap ==
    ASSUME TypeOK, Balanced, Reaped, NEW r \in Reapers, DisconnectKiller(r)
    PROVE  Reaped'
  <1>1. /\ pc[r] = "killwoken" /\ threadMutex = Nil /\ connected[Killer]
        /\ eventRef' = eventRef /\ eventRef[Killer] \in Int /\ eventRef[Killer] >= 0
    <2>1. eventRef[Killer] \in Int /\ eventRef[Killer] >= 0
      BY RefPositive DEF TypeOK, StageTypes, AllStages
    <2> QED
      BY <2>1 DEF DisconnectKiller, Reaped, Killing
  <1>2. /\ ~connected'[Killer] /\ target'[r] = Killer
        /\ \A q \in Reapers : q # r => pc'[q] = pc[q] /\ target'[q] = target[q]
    <2>1. ~connected'[Killer]
      BY DEF DisconnectKiller, TypeOK, StageTypes, AllStages
    <2>2. /\ target'[r] = Killer
          /\ \A q \in Reapers : q # r => target'[q] = target[q]
      BY KindsApart DEF DisconnectKiller, TypeOK, ThreadTypes
    <2>3. \A q \in Reapers : q # r => pc'[q] = pc[q]
      BY KindsApart DEF DisconnectKiller, TypeOK, ThreadTypes
    <2> QED
      BY <2>1, <2>2, <2>3
  <1>3. \A q \in Reapers : q # r =>
          pc'[q] \notin {"gen", "sched", "killwait", "killwoken", "discwait", "discwoken"}
    BY <1>1, <1>2, KindsApart DEF Reaped, Killing
  <1>4. \/ eventRef[Killer] > 0 /\ pc'[r] = "discwait" /\ threadMutex' = r
        \/ eventRef[Killer] = 0 /\ pc'[r] = "idle" /\ threadMutex' = threadMutex
    BY <1>1, KindsApart DEF DisconnectKiller, Outstanding, TypeOK, ThreadTypes
  <1> QED
    BY <1>1, <1>2, <1>3, <1>4 DEF Reaped, Killing, Leaving

LEMMA ResumeReap ==
    ASSUME TypeOK, Balanced, Reaped, NEW r \in Reapers, DisconnectResume(r)
    PROVE  Reaped'
  <1>1. /\ pc[r] = "discwoken" /\ threadMutex = r /\ target[r] = Killer
        /\ ~connected[Killer] /\ UNCHANGED <<connected, eventRef, target>>
        /\ eventRef[Killer] \in Int /\ eventRef[Killer] >= 0
    <2>1. eventRef[Killer] \in Int /\ eventRef[Killer] >= 0
      BY RefPositive DEF TypeOK, StageTypes, AllStages
    <2> QED
      BY <2>1 DEF DisconnectResume, Reaped, stageVars, callVars
  <1>2. \A q \in Reapers : q # r => pc'[q] = pc[q]
    BY KindsApart DEF DisconnectResume, TypeOK, ThreadTypes
  <1>3. \A q \in Reapers : q # r =>
          pc'[q] \notin {"gen", "sched", "killwait", "killwoken", "discwait", "discwoken"}
    BY <1>1, <1>2, KindsApart DEF Reaped, Killing
  <1>4. \/ eventRef[Killer] > 0 /\ pc'[r] = "discwait" /\ threadMutex' = threadMutex
        \/ eventRef[Killer] = 0 /\ pc'[r] = "idle"
    BY <1>1, KindsApart DEF DisconnectResume, Outstanding, TypeOK, ThreadTypes
  <1> QED
    BY <1>1, <1>3, <1>4 DEF Reaped, Killing, Leaving

LEMMA ReapNext ==
    ASSUME TypeOK, RefInv, Next
    PROVE  Reaped'
  <1>1. Balanced /\ Controlled /\ Reaped
    BY DEF RefInv
  <1>2. CASE \E p \in Procs : Schedule(p)
    BY <1>1, <1>2, ScheduleReap
  <1>3. CASE \E w \in Workers : \/ \E s \in Stages : Forward(w, s)
                                \/ DoneReschedule(w)
                                \/ \E e \in Events, s \in Stages : Spawn(w, e, s)
    <2>1. PICK w \in Workers : \/ \E s \in Stages : Forward(w, s)
                               \/ DoneReschedule(w)
                               \/ \E e \in Events, s \in Stages : Spawn(w, e, s)
      BY <1>3
    <2>2. event[w] \in Events
      BY <2>1 DEF Forward, DoneReschedule, Spawn, TypeOK, ThreadTypes, Fits
    <2>3. DoneReschedule(w) => Head(compCB[event[w]]) \in Stages
      BY <2>2 DEF DoneReschedule, TypeOK, StageTypes
    <2>4. /\ \E s \in AllStages : \E e, next : AddEvent(w, s, e, next)
          /\ UNCHANGED threadMutex
      BY <2>1, <2>3 DEF Forward, DoneReschedule, Spawn, AllStages, killVars
    <2> QED
      BY <1>1, <2>4, AddReap
  <1>4. CASE \E p \in Producers, e \in Events, s \in Stages : Produce(p, e, s)
    <2>1. \E p \in Producers, s \in AllStages : \E e, next : AddEvent(p, s, e, next)
      BY <1>4 DEF Produce, AllStages
    <2>2. UNCHANGED threadMutex
      BY <1>4 DEF Produce, killVars
    <2> QED
      BY <1>1, <2>1, <2>2, AddReap
  <1>5. CASE \E w \in Workers : \/ Sleep(w) \/ SpuriousRunWake(w) \/ DoneDelete(w)
                                \/ PopStage(w) \/ RemoveEvent(w) \/ ThreadKill(w)
    BY <1>1, <1>5, WorkerReap
  <1>6. CASE \E w \in Workers : ReleaseEvent(w) \/ ThreadExit(w)
    BY <1>1, <1>6, ReleaseReap
  <1>7. CASE \E c \in Controllers :
                \/ \E s \in Stages : Connect(c, s) \/ Disconnect(c, s)
                \/ SpuriousDiscWake(c) \/ DisconnectResume(c)
    BY <1>1, <1>7, ControllerReap
  <1>8. CASE \E r \in Reapers :
                \/ \E n \in KillSizes : BeginKill(r, n)
                \/ \E W \in SUBSET Workers : AddThreads(r, W)
                \/ AbortKill(r) \/ SpuriousKillWake(r) \/ SpuriousDiscWake(r)
    BY <1>1, <1>8, BeginReap, IdleReap
  <1>9. CASE \E r \in Reapers : \/ GenKillEvent(r) \/ AwaitKills(r)
                                \/ DisconnectKiller(r) \/ DisconnectResume(r)
    BY <1>1, <1>9, GenReap, AwaitReap, DisconnectReap, ResumeReap
  <1> QED
    BY <1>2, <1>3, <1>4, <1>5, <1>6, <1>7, <1>8, <1>9
       DEF Next, WorkerStep, Handler, ControlStep, ReaperStep

-----------------------------------------------------------------------------
LEMMA RefInit == Init => RefInv
  <1> SUFFICES ASSUME Init PROVE RefInv
    OBVIOUS
  <1>1. Balanced
    <2> SUFFICES ASSUME NEW s \in AllStages PROVE Balance(s)
      BY DEF Balanced
    <2>1. Nil # s
      BY ThreadsAssumption
    <2>2. QueuedRuns(s) = {} /\ Owing(s) = {} /\ Popped(s) = {} /\ Serving(s) = {}
      <3>1. QueuedRuns(s) = {}
        BY DEF Init, QueuedRuns
      <3>2. Owing(s) = {}
        BY <2>1 DEF Init, Owing
      <3>3. Popped(s) = {} /\ Serving(s) = {}
        BY <2>1 DEF Init, Popped, Serving
      <3> QED
        BY <3>1, <3>2, <3>3
    <2>3. Runs(s) = 0 /\ Calls(s) = 0 /\ Takers(s) = 0 /\ Handlers(s) = 0
      BY <2>2, FS_EmptySet DEF Runs, Calls, Takers, Handlers
    <2>4. IsFiniteSet(Owing(s))
      BY <2>2, FS_EmptySet
    <2>5. eventRef[s] = 0 /\ Len(eventList[s]) = 0
      BY DEF Init
    <2> QED
      BY <2>3, <2>4, <2>5 DEF Balance
  <1>2. \A p \in Producers \cup Controllers \cup Reapers : pc[p] = "idle"
    BY KindsApart, ThreadsAssumption DEF Init
  <1>3. OwedExact
    BY DEF Init, OwedExact
  <1>4. Controlled
    BY <1>2 DEF Init, Controlled, AllStages
  <1>5. Reaped
    BY <1>2 DEF Init, Reaped, Killing, AllStages
  <1> QED
    BY <1>1, <1>3, <1>4, <1>5 DEF RefInv

LEMMA RefStutter ==
    ASSUME RefInv, UNCHANGED vars
    PROVE  RefInv'
  <1>1. UNCHANGED <<eventList, connected, eventRef, runQueue, threadMutex, pc,
                    runStage, target, owed>>
    BY DEF vars
  <1>2. Balanced'
    <2>1. \A s \in AllStages :
            /\ QueuedRuns(s)' = QueuedRuns(s) /\ Owing(s)' = Owing(s)
            /\ Popped(s)' = Popped(s) /\ Serving(s)' = Serving(s)
      BY <1>1 DEF QueuedRuns, Owing, Popped, Serving
    <2> QED
      BY <1>1, <2>1
         DEF RefInv, Balanced, Balance, Runs, Calls, Takers, Handlers
  <1>3. OwedExact'
    BY <1>1 DEF RefInv, OwedExact
  <1>4. Controlled'
    BY <1>1 DEF RefInv, Controlled, Leaving
  <1>5. Reaped'
    BY <1>1 DEF RefInv, Reaped, Killing, Leaving
  <1> QED
    BY <1>2, <1>3, <1>4, <1>5 DEF RefInv

LEMMA RefNext == TypeOK /\ RefInv /\ [Next]_vars => RefInv'
  <1> SUFFICES ASSUME TypeOK, RefInv, [Next]_vars PROVE RefInv'
    OBVIOUS
  <1>1. CASE Next
    <2>1. OwedExact'
      BY <1>1, OwedNext DEF RefInv
    <2> QED
      BY <1>1, <2>1, BalanceNext, ControlNext, ReapNext DEF RefInv
  <1>2. CASE UNCHANGED vars
    BY <1>2, RefStutter
  <1> QED
    BY <1>1, <1>2

LEMMA RefInvGives == TypeOK /\ RefInv => RefBalance
  <1> SUFFICES ASSUME TypeOK, RefInv PROVE RefBalance
    OBVIOUS
  <1>1. \A s \in AllStages :
          LET claims == Runs(s) + Calls(s) + Takers(s)
          IN  /\ eventRef[s] = Runs(s) + Calls(s) + Handlers(s)
              /\ claims <= Len(eventList[s])
              /\ connected[s] => claims = Len(eventList[s])
    BY DEF RefInv, Balanced, Balance
  <1>2. \A p \in Controllers \cup Reapers :
          pc[p] = "discwait" => eventRef[target[p]] > 0 /\ ~connected[target[p]]
    BY DEF RefInv, Controlled, Reaped
  <1> QED
    BY <1>1, <1>2 DEF RefBalance, Runs, Calls, Takers, Handlers

(* In every behaviour eventRef, connect, disconnect and the calls of       *)
(* killThreads fit together as RefInv says.                                *)
THEOREM RefInvariant == Spec => []RefInv
  <1>1. TypeOK /\ TypeOK' /\ RefInv /\ [Next]_vars => RefInv'
    BY RefNext
  <1> QED
    BY <1>1, RefInit, TypeCorrect, PTL DEF Spec

(* Stage::eventRef is exact for any number of stages, threads and events:  *)
(* addEvent, connect, releaseEvent and disconnect, in any order and from   *)
(* any number of threads, neither lose nor double count an event, and a    *)
(* thread asleep in disconnect has an outstanding event to be woken by.    *)
THEOREM RefCountExact == Spec => []RefBalance
  BY RefInvariant, TypeCorrect, RefInvGives, PTL

-----------------------------------------------------------------------------
(* Part 3.  Threads that took a kill event and have not called threadKill. *)
Doomed == {w \in Workers : pc[w] = "kill"}

Pending == Len(eventList[Killer]) + Cardinality(Doomed)

Generating == \E r \in Reapers : pc[r] \in {"gen", "sched"}

(* The kill events of a call of killThreads, from the first to the last:   *)
(* while they are generated nobody calls threadKill, which needs           *)
(* threadMutex.                                                            *)
KillsCounted ==
    /\ Generating => killLeft \in Nat /\ killAsked = killLeft + Pending
                       /\ killAsked <= nthreads /\ threadsToKill = 0
    /\ ~Generating => threadsToKill = Pending
    /\ Pending <= nthreads

(* Only a reaper schedules the killer stage.                               *)
AimsExact == \A p \in Procs \ Reapers : pc[p] = "sched" => target[p] \in Stages

KillInv == KillsCounted /\ AimsExact

LEMMA PendingType ==
    ASSUME TypeOK
    PROVE  /\ Len(eventList[Killer]) \in Nat /\ IsFiniteSet(Doomed)
           /\ Cardinality(Doomed) \in Nat /\ Pending \in Nat
  <1>1. Len(eventList[Killer]) \in Nat
    BY DEF TypeOK, StageTypes, AllStages
  <1>2. Doomed \in SUBSET Workers
    BY DEF Doomed
  <1>3. IsFiniteSet(Doomed) /\ Cardinality(Doomed) \in Nat
    BY <1>2, WorkersFinite
  <1> QED
    BY <1>1, <1>3 DEF Pending

LEMMA PendingSame ==
    ASSUME eventList'[Killer] = eventList[Killer],
           \A v \in Workers : pc'[v] = "kill" <=> pc[v] = "kill"
    PROVE  Pending' = Pending
  <1>1. Doomed' = Doomed
    BY DEF Doomed
  <1> QED
    BY <1>1 DEF Pending

(* A step that is nobody's killThreads or threadKill.                      *)
LEMMA KillKept ==
    ASSUME KillsCounted, Pending' = Pending,
           UNCHANGED <<nthreads, threadsToKill, killAsked, killLeft>>,
           \A r \in Reapers : pc'[r] \in {"gen", "sched"} <=> pc[r] \in {"gen", "sched"}
    PROVE  KillsCounted'
  <1>1. Generating' <=> Generating
    BY DEF Generating
  <1> QED
    BY <1>1 DEF KillsCounted

LEMMA ScheduleKill ==
    ASSUME TypeOK, KillsCounted, NEW p \in Procs, Schedule(p)
    PROVE  KillsCounted'
  <1>1. PICK S \in SUBSET Waiting :
          pc' = [q \in Procs |-> IF q = p THEN ScheduleNext(p)
                                 ELSE IF q \in S THEN "woken" ELSE pc[q]]
    BY SchedulePc
  <1>2. pc[p] = "sched" /\ eventList' = eventList /\ UNCHANGED killVars
    BY DEF Schedule, stageVars
  <1>3. /\ ScheduleNext(p) # "kill"
        /\ p \in Reapers => ScheduleNext(p) \in {"gen", "sched"}
    BY KindsApart DEF ScheduleNext, AfterSchedule
  <1>4. \A v \in Workers : pc'[v] = "kill" <=> pc[v] = "kill"
    BY <1>1, <1>2, <1>3, KindsApart DEF Waiting
  <1>5. \A r \in Reapers : pc'[r] \in {"gen", "sched"} <=> pc[r] \in {"gen", "sched"}
    BY <1>1, <1>2, <1>3, KindsApart DEF Waiting
  <1>6. Pending' = Pending
    BY <1>2, <1>4, PendingSame
  <1> QED
    BY <1>2, <1>5, <1>6, KillKept DEF killVars

LEMMA AddKill ==
    ASSUME TypeOK, KillsCounted, NEW p \in Workers \cup Producers, NEW s \in Stages,
           NEW e, NEW next, AddEvent(p, s, e, next), pc[p] # "kill", next # "kill",
           UNCHANGED killVars
    PROVE  KillsCounted'
  <1>1. eventList'[Killer] = eventList[Killer]
    BY DataAssumption DEF AddEvent, TypeOK, StageTypes, AllStages
  <1>2. \A v \in Workers : pc'[v] = "kill" <=> pc[v] = "kill"
    BY KindsApart DEF AddEvent, TypeOK, ThreadTypes
  <1>3. \A r \in Reapers : pc'[r] = pc[r]
    BY KindsApart DEF AddEvent, TypeOK, ThreadTypes
  <1>4. Pending' = Pending
    BY <1>1, <1>2, PendingSame
  <1> QED
    BY <1>3, <1>4, KillKept DEF killVars

LEMMA GenKill ==
    ASSUME TypeOK, Reaped, KillsCounted, NEW r \in Reapers, GenKillEvent(r)
    PROVE  KillsCounted'
  <1>1. /\ pc[r] = "gen" /\ killLeft > 0 /\ killLeft' = killLeft - 1
        /\ AddEvent(r, Killer, KillEvent, "gen") /\ connected[Killer]
        /\ UNCHANGED <<nthreads, threadsToKill, killAsked>>
    BY DEF GenKillEvent, Reaped, Killing
  <1>2. Generating
    BY <1>1 DEF Generating
  <1>3. pc'[r] = "sched" /\ \A v \in Workers : pc'[v] = pc[v]
    BY <1>1, KindsApart DEF AddEvent, TypeOK, ThreadTypes
  <1>4. Len(eventList'[Killer]) = Len(eventList[Killer]) + 1
    <2>1. eventList[Killer] \in Seq(Events \cup {KillEvent})
      BY DEF TypeOK, StageTypes, AllStages
    <2>2. eventList'[Killer] = Append(eventList[Killer], KillEvent)
      BY <1>1 DEF AddEvent, TypeOK, StageTypes, AllStages
    <2> QED
      BY <2>1, <2>2
  <1>5. Doomed' = Doomed
    BY <1>3 DEF Doomed
  <1>6. Pending' = Pending + 1
    BY <1>4, <1>5, PendingType DEF Pending
  <1>7. Generating'
    BY <1>3 DEF Generating
  <1>8. Pending \in Nat /\ killLeft \in Nat /\ nthreads \in Int
    BY <1>2, PendingType DEF KillsCounted, TypeOK, PoolTypes
  <1>9. killAsked = killLeft + Pending /\ killAsked <= nthreads /\ threadsToKill = 0
    BY <1>2 DEF KillsCounted
  <1>10. /\ killLeft' \in Nat /\ killAsked' = killLeft' + Pending'
         /\ killAsked' <= nthreads' /\ threadsToKill' = 0 /\ Pending' <= nthreads'
    BY <1>1, <1>6, <1>8, <1>9
  <1> QED
    BY <1>7, <1>10 DEF KillsCounted

(* A thread that takes a kill event is doomed from then on.                *)
LEMMA RemoveKill ==
    ASSUME TypeOK, KillsCounted, NEW w \in Workers, RemoveEvent(w)
    PROVE  KillsCounted'
  <1>1. /\ pc[w] = "popped" /\ eventList[runStage[w]] # <<>>
        /\ runStage[w] \in AllStages /\ UNCHANGED killVars
        /\ eventList' = [eventList EXCEPT ![runStage[w]] = Tail(@)]
        /\ pc' = [pc EXCEPT ![w] = IF runStage[w] = Killer THEN "kill" ELSE "handle"]
    BY DEF RemoveEvent, TypeOK, ThreadTypes, Fits
  <1>2. \A q \in Procs : q # w => pc'[q] = pc[q]
    BY <1>1 DEF TypeOK, ThreadTypes
  <1>3. \A r \in Reapers : pc'[r] = pc[r]
    BY <1>2, KindsApart
  <1>4. Pending' = Pending
    <2>1. CASE runStage[w] # Killer
      <3>1. eventList'[Killer] = eventList[Killer]
        BY <1>1, <2>1 DEF TypeOK, StageTypes, AllStages
      <3>2. \A v \in Workers : pc'[v] = "kill" <=> pc[v] = "kill"
        BY <1>1, <1>2, <2>1, KindsApart DEF TypeOK, ThreadTypes
      <3> QED
        BY <3>1, <3>2, PendingSame
    <2>2. CASE runStage[w] = Killer
      <3>1. eventList[Killer] \in Seq(Events \cup {KillEvent}) /\ eventList[Killer] # <<>>
        BY <1>1, <2>2 DEF TypeOK, StageTypes
      <3>2. eventList'[Killer] = Tail(eventList[Killer])
        BY <1>1, <2>2 DEF TypeOK, StageTypes
      <3>3. Len(eventList'[Killer]) = Len(eventList[Killer]) - 1
        BY <3>1, <3>2
      <3>4. Doomed' = Doomed \cup {w} /\ w \notin Doomed
        <4>1. pc'[w] = "kill"
          BY <1>1, <2>2, KindsApart DEF TypeOK, ThreadTypes
        <4> QED
          BY <1>1, <1>2, <4>1, KindsApart DEF Doomed
      <3>5. Cardinality(Doomed)' = Cardinality(Doomed) + 1
        BY <3>4, PendingType, FS_AddElement
      <3> QED
        BY <3>3, <3>5, PendingType DEF Pending
    <2> QED
      BY <2>1, <2>2
  <1> QED
    BY <1>1, <1>3, <1>4, KillKept DEF killVars

(* threadKill counts the pool, the kill events and the doomed down alike.  *)
LEMMA NotGenerating ==
    ASSUME Reaped, NEW r, threadMutex = r, r = Nil \/ pc[r] \notin {"gen", "sched"}
    PROVE  ~Generating
  BY KindsApart DEF Reaped, Generating

LEMMA ThreadKillKill ==
    ASSUME TypeOK, Reaped, KillsCounted, NEW w \in Workers, ThreadKill(w)
    PROVE  KillsCounted'
  <1>1. /\ pc[w] = "kill" /\ threadMutex = Nil /\ nthreads' = nthreads - 1
        /\ threadsToKill' = threadsToKill - 1 /\ UNCHANGED <<killAsked, killLeft>>
        /\ eventList' = eventList
    BY DEF ThreadKill, stageVars
  <1>2. ~Generating
    BY <1>1, NotGenerating
  <1>3. pc'[w] = "killrel" /\ \A v \in Workers \ {w} : pc'[v] = pc[v]
    BY ThreadKillPc
  <1>4. Doomed' = Doomed \ {w} /\ w \in Doomed
    BY <1>1, <1>3 DEF Doomed
  <1>5. Cardinality(Doomed)' = Cardinality(Doomed) - 1
    BY <1>4, PendingType, FS_RemoveElement
  <1>6. Pending' = Pending - 1
    BY <1>1, <1>5, PendingType DEF Pending
  <1>7. ~Generating'
    <2>1. \A r \in Reapers : pc'[r] = pc[r] \/ pc'[r] = "killwoken"
      BY KindsApart DEF ThreadKill, TypeOK, ThreadTypes
    <2> QED
      BY <1>2, <2>1 DEF Generating
  <1>8. Pending \in Nat /\ nthreads \in Int /\ threadsToKill = Pending /\ Pending <= nthreads
    BY <1>2, PendingType DEF KillsCounted, TypeOK, PoolTypes
  <1> QED
    BY <1>1, <1>6, <1>7, <1>8 DEF KillsCounted

LEMMA WorkerKill ==
    ASSUME TypeOK, KillsCounted, NEW w \in Workers,
           \/ Sleep(w) \/ SpuriousRunWake(w) \/ DoneDelete(w) \/ PopStage(w)
    PROVE  KillsCounted'
  <1>1. UNCHANGED <<eventList, nthreads, threadsToKill, killAsked, killLeft>>
    BY DEF Sleep, SpuriousRunWake, DoneDelete, PopStage, stageVars, killVars
  <1>2. /\ pc[w] # "kill"
        /\ \E at : at # "kill" /\ pc' = [pc EXCEPT ![w] = at]
    BY DEF Sleep, SpuriousRunWake, DoneDelete, PopStage
  <1>3. /\ \A v \in Workers : pc'[v] = "kill" <=> pc[v] = "kill"
        /\ \A r \in Reapers : pc'[r] = pc[r]
    BY <1>2, KindsApart DEF TypeOK, ThreadTypes
  <1>4. Pending' = Pending
    BY <1>1, <1>3, PendingSame
  <1> QED
    BY <1>1, <1>3, <1>4, KillKept

LEMMA ReleaseKill ==
    ASSUME TypeOK, KillsCounted, NEW w \in Workers, ReleaseEvent(w) \/ ThreadExit(w)
    PROVE  KillsCounted'
  <1>1. /\ UNCHANGED <<eventList, nthreads, threadsToKill, killAsked, killLeft>>
        /\ pc[w] \in {"release", "killrel"}
        /\ \E next \in {"loop", "none"} : ReleaseRef(w, next)
    BY DEF ReleaseEvent, ThreadExit, killVars
  <1>2. pc'[w] \in {"loop", "none"} /\ \A v \in Workers \ {w} : pc'[v] = pc[v]
    BY <1>1, ReleaseRefPc
  <1>3. \A r \in Reapers :
          pc'[r] = pc[r] \/ (pc[r] = "discwait" /\ pc'[r] = "discwoken")
    BY <1>1, KindsApart DEF ReleaseRef, TypeOK, ThreadTypes
  <1>4. Pending' = Pending
    BY <1>1, <1>2, PendingSame
  <1> QED
    BY <1>1, <1>3, <1>4, KillKept

(* A step of a controller, or of a reaper outside the generation of kill   *)
(* events.                                                                 *)
LEMMA ClientKill ==
    ASSUME TypeOK, KillsCounted, NEW p \in Controllers \cup Reapers,
           UNCHANGED <<eventList, nthreads, threadsToKill, killAsked, killLeft>>,
           NEW at, pc' = [pc EXCEPT ![p] = at],
           p \in Reapers => pc[p] \notin {"gen", "sched"} /\ at \notin {"gen", "sched"}
    PROVE  KillsCounted'
  <1>1. /\ \A v \in Workers : pc'[v] = pc[v]
        /\ \A r \in Reapers : pc'[r] \in {"gen", "sched"} <=> pc[r] \in {"gen", "sched"}
    BY KindsApart DEF TypeOK, ThreadTypes
  <1>2. Pending' = Pending
    BY <1>1, PendingSame
  <1> QED
    BY <1>1, <1>2, KillKept

LEMMA ControlKill ==
    ASSUME TypeOK, KillsCounted, NEW p \in Controllers \cup Reapers,
           \/ p \in Controllers /\ \E s \in Stages : Connect(p, s) \/ Disconnect(p, s)
           \/ SpuriousDiscWake(p) \/ DisconnectResume(p)
           \/ AbortKill(p) \/ SpuriousKillWake(p) \/ DisconnectKiller(p)
    PROVE  KillsCounted'
  <1>1. UNCHANGED <<eventList, nthreads, threadsToKill, killAsked, killLeft>>
    BY DEF Connect, Disconnect, SpuriousDiscWake, DisconnectResume, AbortKill,
           SpuriousKillWake, DisconnectKiller, stageVars, killVars
  <1>2. CASE \E s \in Stages : Connect(p, s) \/ Disconnect(p, s)
    <2>1. \E at : pc' = [pc EXCEPT ![p] = at]
      BY <1>2 DEF Connect, Disconnect
    <2>2. pc[p] = "idle"
      BY <1>2 DEF Connect, Disconnect
    <2>3. CASE p \in Controllers
      BY <1>1, <2>1, <2>3, KindsApart, ClientKill
    <2>4. CASE p \in Reapers
      <3>1. \E at : at \notin {"gen", "sched"} /\ pc' = [pc EXCEPT ![p] = at]
        BY <2>4, KindsApart DEF SpuriousDiscWake, DisconnectResume, AbortKill,
                                SpuriousKillWake, DisconnectKiller
      <3> QED
        BY <1>1, <2>2, <3>1, ClientKill
    <2> QED
      BY <2>3, <2>4
  <1>3. CASE \/ SpuriousDiscWake(p) \/ DisconnectResume(p)
             \/ AbortKill(p) \/ SpuriousKillWake(p) \/ DisconnectKiller(p)
    <2>1. /\ pc[p] \notin {"gen", "sched"}
          /\ \E at : at \notin {"gen", "sched"} /\ pc' = [pc EXCEPT ![p] = at]
      BY <1>3 DEF SpuriousDiscWake, DisconnectResume, AbortKill, SpuriousKillWake,
                  DisconnectKiller
    <2> QED
      BY <1>1, <2>1, ClientKill
  <1> QED
    BY <1>2, <1>3

LEMMA AddThreadsKill ==
    ASSUME TypeOK, KillsCounted, Reaped, NEW r \in Reapers, NEW W \in SUBSET Workers,
           AddThreads(r, W)
    PROVE  KillsCounted'
  <1>1. /\ threadMutex = Nil /\ nthreads' = nthreads + Cardinality(W)
        /\ UNCHANGED <<eventList, threadsToKill, killAsked, killLeft>>
    BY DEF AddThreads, ThreadsWith, stageVars
  <1>2. /\ \A v \in Workers : pc'[v] = "kill" <=> pc[v] = "kill"
        /\ \A q \in Reapers : pc'[q] = pc[q]
    BY KindsApart DEF AddThreads
  <1>3. ~Generating /\ ~Generating'
    <2>1. ~Generating
      BY <1>1, NotGenerating
    <2> QED
      BY <1>2, <2>1 DEF Generating
  <1>4. Pending' = Pending
    BY <1>1, <1>2, PendingSame
  <1>5. Cardinality(W) \in Nat /\ nthreads \in Int /\ Pending \in Nat
    BY WorkersFinite, PendingType DEF TypeOK, PoolTypes
  <1>6. threadsToKill = Pending /\ Pending <= nthreads
    BY <1>3 DEF KillsCounted
  <1> QED
    BY <1>1, <1>3, <1>4, <1>5, <1>6 DEF KillsCounted

LEMMA BeginCounted ==
    ASSUME TypeOK, KillsCounted, Reaped, ThreadsExact, NEW r \in Reapers,
           NEW n \in KillSizes, BeginKill(r, n)
    PROVE  KillsCounted'
  <1>1. /\ threadMutex = Nil /\ threadsToKill = 0 /\ killAsked' = Clamp(n)
        /\ killLeft' = killAsked' /\ pc' = [pc EXCEPT ![r] = "gen"]
        /\ UNCHANGED <<eventList, nthreads, threadsToKill>>
    BY DEF BeginKill
  <1>2. pc'[r] = "gen" /\ \A v \in Workers : pc'[v] = pc[v]
    BY <1>1, KindsApart DEF TypeOK, ThreadTypes
  <1>3. ~Generating /\ Generating'
    <2>1. ~Generating
      BY <1>1, NotGenerating
    <2> QED
      BY <1>2, <2>1 DEF Generating
  <1>4. Pending' = Pending
    BY <1>1, <1>2, PendingSame
  <1>5. threadsToKill = Pending /\ Pending <= nthreads
    BY <1>3 DEF KillsCounted
  <1>6. nthreads \in Nat /\ n \in Nat
    <2>1. nthreads = Cardinality(Live)
      BY DEF ThreadsExact, Live
    <2>2. Live \in SUBSET Workers
      BY DEF Live
    <2> QED
      BY <2>1, <2>2, WorkersFinite, DataAssumption
  <1>7. Clamp(n) \in Nat /\ Clamp(n) <= nthreads
    BY <1>6 DEF Clamp
  <1> QED
    BY <1>1, <1>3, <1>4, <1>5, <1>7 DEF KillsCounted

LEMMA AwaitKill ==
    ASSUME TypeOK, KillsCounted, Reaped, NEW r \in Reapers, AwaitKills(r)
    PROVE  KillsCounted'
  <1>1. /\ pc[r] = "gen" /\ killLeft = 0 /\ threadsToKill' = killAsked
        /\ pc' = [pc EXCEPT ![r] = "killwait"]
        /\ UNCHANGED <<eventList, nthreads, killAsked, killLeft>>
    BY DEF AwaitKills, stageVars
  <1>2. /\ pc'[r] = "killwait" /\ \A v \in Workers : pc'[v] = pc[v]
        /\ \A q \in Reapers : q # r => pc'[q] = pc[q]
    BY <1>1, KindsApart DEF TypeOK, ThreadTypes
  <1>3. Generating /\ ~Generating'
    <2>1. Generating
      BY <1>1 DEF Generating
    <2>2. \A q \in Reapers : q # r => pc[q] \notin {"gen", "sched"}
      BY <1>1 DEF Reaped, Killing
    <2> QED
      BY <1>2, <2>1, <2>2 DEF Generating
  <1>4. Pending' = Pending
    BY <1>1, <1>2, PendingSame
  <1>5. killAsked = killLeft + Pending /\ Pending <= nthreads /\ Pending \in Nat
    BY <1>3, PendingType DEF KillsCounted
  <1> QED
    BY <1>1, <1>3, <1>4, <1>5 DEF KillsCounted

LEMMA KillsNext ==
    ASSUME TypeOK, RefInv, ThreadsExact, KillsCounted, Next
    PROVE  KillsCounted'
  <1>1. Reaped
    BY DEF RefInv
  <1>2. CASE \E p \in Procs : Schedule(p)
    BY <1>2, ScheduleKill
  <1>3. CASE \E w \in Workers : \/ \E s \in Stages : Forward(w, s)
                                \/ DoneReschedule(w)
                                \/ \E e \in Events, s \in Stages : Spawn(w, e, s)
    <2>1. PICK w \in Workers : \/ \E s \in Stages : Forward(w, s)
                               \/ DoneReschedule(w)
                               \/ \E e \in Events, s \in Stages : Spawn(w, e, s)
      BY <1>3
    <2>2. event[w] \in Events
      BY <2>1 DEF Forward, DoneReschedule, Spawn, TypeOK, ThreadTypes, Fits
    <2>3. DoneReschedule(w) => Head(compCB[event[w]]) \in Stages
      BY <2>2 DEF DoneReschedule, TypeOK, StageTypes
    <2>4. /\ \E s \in Stages : \E e, next : AddEvent(w, s, e, next) /\ next # "kill"
          /\ pc[w] # "kill" /\ UNCHANGED killVars
      BY <2>1, <2>3 DEF Forward, DoneReschedule, Spawn
    <2> QED
      BY <2>4, AddKill
  <1>4. CASE \E p \in Producers, e \in Events, s \in Stages : Produce(p, e, s)
    <2>1. PICK p \in Producers, e \in Events, s \in Stages : Produce(p, e, s)
      BY <1>4
    <2>2. AddEvent(p, s, e, "idle") /\ pc[p] = "idle" /\ UNCHANGED killVars
      BY <2>1 DEF Produce
    <2> QED
      BY <2>2, AddKill
  <1>5. CASE \E r \in Reapers : GenKillEvent(r)
    BY <1>1, <1>5, GenKill
  <1>6. CASE \E w \in Workers : RemoveEvent(w) \/ ThreadKill(w)
    BY <1>1, <1>6, RemoveKill, ThreadKillKill
  <1>7. CASE \E w \in Workers : \/ Sleep(w) \/ SpuriousRunWake(w)
                                \/ DoneDelete(w) \/ PopStage(w)
    BY <1>7, WorkerKill
  <1>8. CASE \E w \in Workers : ReleaseEvent(w) \/ ThreadExit(w)
    BY <1>8, ReleaseKill
  <1>9. CASE \E p \in Controllers \cup Reapers :
           \/ p \in Controllers /\ \E s \in Stages : Connect(p, s) \/ Disconnect(p, s)
           \/ SpuriousDiscWake(p) \/ DisconnectResume(p)
           \/ AbortKill(p) \/ SpuriousKillWake(p) \/ DisconnectKiller(p)
    BY <1>9, ControlKill
  <1>10. CASE \E r \in Reapers : \/ \E W \in SUBSET Workers : AddThreads(r, W)
                                 \/ \E n \in KillSizes : BeginKill(r, n)
                                 \/ AwaitKills(r)
    BY <1>1, <1>10, AddThreadsKill, BeginCounted, AwaitKill
  <1> QED
    BY <1>2, <1>3, <1>4, <1>5, <1>6, <1>7, <1>8, <1>9, <1>10
       DEF Next, WorkerStep, Handler, ControlStep, ReaperStep

-----------------------------------------------------------------------------
(* The target of a thread that starts to schedule, or goes on.             *)
LEMMA AimsNext ==
    ASSUME TypeOK, AimsExact, Next
    PROVE  AimsExact'
  <1> SUFFICES ASSUME NEW q \in Procs \ Reapers, pc'[q] = "sched"
               PROVE  target'[q] \in Stages
    BY DEF AimsExact
  <1>1. ASSUME pc[q] = "sched", target'[q] = target[q]
        PROVE  target'[q] \in Stages
    BY <1>1 DEF AimsExact
  <1>2. CASE \E p \in Procs : Schedule(p)
    <2>1. PICK p \in Procs : Schedule(p)
      BY <1>2
    <2>2. PICK S \in SUBSET Waiting :
            pc' = [t \in Procs |-> IF t = p THEN ScheduleNext(p)
                                   ELSE IF t \in S THEN "woken" ELSE pc[t]]
      BY <2>1, SchedulePc
    <2>3. pc[p] = "sched" /\ target' = target
      BY <2>1 DEF Schedule
    <2> QED
      BY <1>1, <2>2, <2>3
  <1>3. CASE \E p \in Workers \cup Producers : \E s \in Stages : \E e, next :
               AddEvent(p, s, e, next) /\ next # "sched"
    <2>1. PICK p \in Workers \cup Producers, s \in Stages :
            \E e, next : AddEvent(p, s, e, next) /\ next # "sched"
      BY <1>3
    <2>2. CASE connected[s]
      <3>1. /\ pc' = [pc EXCEPT ![p] = "sched"] /\ target' = [target EXCEPT ![p] = s]
        BY <2>1, <2>2 DEF AddEvent
      <3> QED
        BY <1>1, <3>1 DEF TypeOK, ThreadTypes
    <2>3. CASE ~connected[s]
      <3>1. /\ \E next : next # "sched" /\ pc' = [pc EXCEPT ![p] = next]
            /\ target' = target
        BY <2>1, <2>3 DEF AddEvent
      <3> QED
        BY <1>1, <3>1 DEF TypeOK, ThreadTypes
    <2> QED
      BY <2>2, <2>3
  <1>4. CASE \E w \in Workers : \/ \E s \in Stages : Forward(w, s)
                                \/ DoneReschedule(w)
                                \/ \E e \in Events, s \in Stages : Spawn(w, e, s)
    <2>1. PICK w \in Workers : \/ \E s \in Stages : Forward(w, s)
                               \/ DoneReschedule(w)
                               \/ \E e \in Events, s \in Stages : Spawn(w, e, s)
      BY <1>4
    <2>2. event[w] \in Events
      BY <2>1 DEF Forward, DoneReschedule, Spawn, TypeOK, ThreadTypes, Fits
    <2>3. DoneReschedule(w) => Head(compCB[event[w]]) \in Stages
      BY <2>2 DEF DoneReschedule, TypeOK, StageTypes
    <2>4. \E s \in Stages : \E e, next : AddEvent(w, s, e, next) /\ next # "sched"
      BY <2>1, <2>3 DEF Forward, DoneReschedule, Spawn
    <2> QED
      BY <1>3, <2>4
  <1>5. CASE \E p \in Producers, e \in Events, s \in Stages : Produce(p, e, s)
    <2>1. \E p \in Producers : \E s \in Stages : \E e, next :
            AddEvent(p, s, e, next) /\ next # "sched"
      BY <1>5 DEF Produce
    <2> QED
      BY <1>3, <2>1
  <1>6. CASE \E c \in Controllers, s \in Stages : Connect(c, s)
    <2>1. PICK c \in Controllers, s \in Stages : Connect(c, s)
      BY <1>6
    <2>2. \E at : pc' = [pc EXCEPT ![c] = at]
      BY <2>1 DEF Connect
    <2>3. target' = [target EXCEPT ![c] = s]
      BY <2>1 DEF Connect
    <2> QED
      BY <1>1, <2>2, <2>3 DEF TypeOK, ThreadTypes
  <1>7. CASE \E p \in Procs : \E at : /\ pc' = [pc EXCEPT ![p] = at] /\ at # "sched"
                                      /\ \/ target' = target
                                         \/ \E s : target' = [target EXCEPT ![p] = s]
    BY <1>1, <1>7 DEF TypeOK, ThreadTypes
  <1>8. CASE \E w \in Workers : ReleaseEvent(w) \/ ThreadExit(w) \/ ThreadKill(w)
    <2>1. /\ target' = target
          /\ \E w \in Workers : \E at : /\ at # "sched"
                /\ \/ pc' = [pc EXCEPT ![w] = at]
                   \/ \E r : \E to : /\ to # "sched"
                                     /\ pc' = [pc EXCEPT ![w] = at, ![r] = to]
      BY <1>8 DEF ReleaseEvent, ThreadExit, ReleaseRef, ThreadKill, callVars
    <2> QED
      BY <1>1, <2>1 DEF TypeOK, ThreadTypes
  <1>9. CASE \E w \in Workers : \/ Sleep(w) \/ SpuriousRunWake(w) \/ DoneDelete(w)
                                \/ PopStage(w) \/ RemoveEvent(w)
    <2>1. target' = target
      BY <1>9 DEF Sleep, SpuriousRunWake, DoneDelete, PopStage, RemoveEvent, callVars
    <2>2. \E w \in Procs : \E at : pc' = [pc EXCEPT ![w] = at] /\ at # "sched"
      <3>1. PICK w \in Procs : \/ Sleep(w) \/ SpuriousRunWake(w) \/ DoneDelete(w)
                               \/ PopStage(w) \/ RemoveEvent(w)
        BY <1>9 DEF Procs
      <3>2. \/ pc' = [pc EXCEPT ![w] = "wait"] \/ pc' = [pc EXCEPT ![w] = "woken"]
            \/ pc' = [pc EXCEPT ![w] = "release"] \/ pc' = [pc EXCEPT ![w] = "popped"]
            \/ pc' = [pc EXCEPT ![w] = "kill"] \/ pc' = [pc EXCEPT ![w] = "handle"]
        BY <3>1 DEF Sleep, SpuriousRunWake, DoneDelete, PopStage, RemoveEvent
      <3> QED
        BY <3>2
    <2> QED
      BY <1>7, <2>1, <2>2
  <1>10. CASE \E p \in Controllers \cup Reapers :
                \/ \E s \in Stages : Disconnect(p, s)
                \/ SpuriousDiscWake(p) \/ DisconnectResume(p) \/ DisconnectKiller(p)
                \/ AbortKill(p) \/ SpuriousKillWake(p) \/ AwaitKills(p)
                \/ \E n \in KillSizes : BeginKill(p, n)
    <2>1. PICK p \in Procs :
                \/ \E s \in Stages : Disconnect(p, s)
                \/ SpuriousDiscWake(p) \/ DisconnectResume(p) \/ DisconnectKiller(p)
                \/ AbortKill(p) \/ SpuriousKillWake(p) \/ AwaitKills(p)
                \/ \E n \in KillSizes : BeginKill(p, n)
      BY <1>10, KindsApart
    <2>2. \E at : pc' = [pc EXCEPT ![p] = at] /\ at # "sched"
      <3>1. \/ pc' = [pc EXCEPT ![p] = "idle"] \/ pc' = [pc EXCEPT ![p] = "discwait"]
            \/ pc' = [pc EXCEPT ![p] = "discwoken"] \/ pc' = [pc EXCEPT ![p] = "abort"]
            \/ pc' = [pc EXCEPT ![p] = "killwait"] \/ pc' = [pc EXCEPT ![p] = "gen"]
            \/ pc' = [pc EXCEPT ![p] = "killwoken"]
        BY <2>1 DEF Disconnect, SpuriousDiscWake, DisconnectResume, DisconnectKiller,
                    AbortKill, SpuriousKillWake, AwaitKills, BeginKill
      <3> QED
        BY <3>1
    <2>3. target' = target \/ \E s : target' = [target EXCEPT ![p] = s]
      BY <2>1 DEF Disconnect, SpuriousDiscWake, DisconnectResume, DisconnectKiller,
                  AbortKill, SpuriousKillWake, AwaitKills, BeginKill, callVars
    <2> QED
      BY <1>7, <2>2, <2>3
  <1>11. CASE \E r \in Reapers : GenKillEvent(r)
    <2>1. PICK r \in Reapers : AddEvent(r, Killer, KillEvent, "gen")
      BY <1>11 DEF GenKillEvent
    <2>2. pc'[q] = pc[q] /\ target'[q] = target[q]
      BY <2>1 DEF AddEvent, TypeOK, ThreadTypes
    <2> QED
      BY <1>1, <2>2
  <1>12. CASE \E r \in Reapers, W \in SUBSET Workers : AddThreads(r, W)
    <2>1. target' = target /\ (pc'[q] = "sched" => pc[q] = "sched")
      BY <1>12 DEF AddThreads, callVars
    <2> QED
      BY <1>1, <2>1
  <1> QED
    BY <1>2, <1>4, <1>5, <1>6, <1>8, <1>9, <1>10, <1>11, <1>12
       DEF Next, WorkerStep, Handler, ControlStep, ReaperStep

-----------------------------------------------------------------------------
LEMMA KillInit == Init => KillInv
  <1> SUFFICES ASSUME Init PROVE KillInv
    OBVIOUS
  <1>1. \A p \in Producers \cup Controllers \cup Reapers : pc[p] = "idle"
    BY KindsApart, ThreadsAssumption DEF Init
  <1>2. \A w \in Workers : pc[w] \in {"loop", "none"}
    BY KindsApart DEF Init
  <1>3. ~Generating
    BY <1>1 DEF Generating
  <1>4. Pending = 0
    <2>1. Doomed = {}
      BY <1>2 DEF Doomed
    <2>2. Len(eventList[Killer]) = 0
      BY DEF Init, AllStages
    <2> QED
      BY <2>1, <2>2, FS_EmptySet DEF Pending
  <1>5. threadsToKill = 0 /\ nthreads \in Nat
    BY WorkersFinite, ThreadsAssumption DEF Init
  <1>6. AimsExact
    BY <1>1, <1>2 DEF AimsExact, Procs
  <1> QED
    BY <1>3, <1>4, <1>5, <1>6 DEF KillInv, KillsCounted

LEMMA KillNext ==
    TypeOK /\ RefInv /\ ThreadsExact /\ KillInv /\ [Next]_vars => KillInv'
  <1> SUFFICES ASSUME TypeOK, RefInv, ThreadsExact, KillInv, [Next]_vars
               PROVE  KillInv'
    OBVIOUS
  <1>1. CASE Next
    <2>1. KillsCounted'
      BY <1>1, KillsNext DEF KillInv
    <2>2. AimsExact'
      BY <1>1, AimsNext DEF KillInv
    <2> QED
      BY <2>1, <2>2 DEF KillInv
  <1>2. CASE UNCHANGED vars
    <2>1. UNCHANGED <<eventList, pc, target, nthreads, threadsToKill, killAsked,
                      killLeft>>
      BY <1>2 DEF vars
    <2>2. Pending' = Pending
      BY <2>1, PendingSame
    <2>3. KillsCounted'
      BY <2>1, <2>2, KillKept DEF KillInv
    <2>4. AimsExact'
      BY <2>1 DEF KillInv, AimsExact
    <2> QED
      BY <2>3, <2>4 DEF KillInv
  <1> QED
    BY <1>1, <1>2

(* In every behaviour the kill events and the counters of killThreads fit  *)
(* together as KillInv says.                                               *)
THEOREM KillInvariant == Spec => []KillInv
  <1>1. Init => KillInv
    BY KillInit
  <1>2. TypeOK /\ RefInv /\ ThreadsExact /\ KillInv /\ [Next]_vars => KillInv'
    BY KillNext
  <1> QED
    BY <1>1, <1>2, TypeCorrect, RefInvariant, ThreadsCorrect, PTL DEF Spec

-----------------------------------------------------------------------------
(* From the queue of the killer stage to its places in the run queue.      *)
LEMMA VictimsCounted ==
    ASSUME TypeOK, RefInv, AimsExact
    PROVE  /\ Cardinality(QueuedRuns(Killer)) + Cardinality(Victims) + Calls(Killer)
                = Pending
           /\ Cardinality(QueuedRuns(Killer)) \in Nat /\ Cardinality(Victims) \in Nat
           /\ Calls(Killer) \in Nat
           /\ ~Generating => Calls(Killer) = 0
  <1>1. Balance(Killer) /\ Killer \in AllStages
    BY DEF RefInv, Balanced, AllStages
  <1>2. /\ Runs(Killer) \in Nat /\ Calls(Killer) \in Nat /\ Takers(Killer) \in Nat
        /\ IsFiniteSet(Popped(Killer))
    BY <1>1, Numbers
  <1>3. Runs(Killer) + Calls(Killer) + Takers(Killer) = Len(eventList[Killer])
    BY <1>1 DEF Balance
  <1>4. Victims = Popped(Killer) \cup Doomed /\ Popped(Killer) \cap Doomed = {}
    BY DEF Victims, Popped, Doomed, TypeOK, ThreadTypes, Fits
  <1>5. Cardinality(Victims) = Takers(Killer) + Cardinality(Doomed)
    <2>1. Cardinality(Popped(Killer) \cup Doomed)
            = Cardinality(Popped(Killer)) + Cardinality(Doomed)
                - Cardinality(Popped(Killer) \cap Doomed)
      BY <1>2, PendingType, FS_Union
    <2>2. Cardinality(Popped(Killer) \cap Doomed) = 0
      BY <1>4, FS_EmptySet
    <2> QED
      BY <1>2, <1>4, <2>1, <2>2, PendingType DEF Takers
  <1>6. ~Generating => Calls(Killer) = 0
    <2> SUFFICES ASSUME ~Generating PROVE Owing(Killer) = {}
      BY FS_EmptySet DEF Calls
    <2>1. \A p \in Procs : owed[p] > 0 => pc[p] = "sched"
      BY DEF RefInv, OwedExact
    <2>2. \A p \in Procs : pc[p] = "sched" => target[p] # Killer
      BY DataAssumption DEF Generating, AimsExact
    <2>3. \A p \in Procs : owed[p] \in Nat
      BY DEF RefInv, OwedExact
    <2>4. \A p \in Procs : target[p] = Killer => owed[p] = 0
      BY <2>1, <2>2, <2>3
    <2> QED
      BY <2>4, OwingIn
  <1> QED
    BY <1>2, <1>3, <1>5, <1>6, PendingType DEF Runs, Pending

LEMMA KillInvGives ==
    TypeOK /\ RefInv /\ KillInv => KillAccounting
  <1> SUFFICES ASSUME TypeOK, RefInv, KillInv PROVE KillAccounting
    OBVIOUS
  <1>1. nthreads \in Int /\ Pending \in Nat
    BY PendingType DEF TypeOK, PoolTypes
  <1>2. ~Generating => threadsToKill = Pending
    BY DEF KillInv, KillsCounted
  <1>3. Pending <= nthreads
    BY DEF KillInv, KillsCounted
  <1>4. (\A r \in Reapers : pc[r] \notin {"gen", "sched"}) => ~Generating
    BY DEF Generating
  <1>5. /\ Cardinality(QueuedRuns(Killer)) + Cardinality(Victims) + Calls(Killer)
             = Pending
        /\ Cardinality(QueuedRuns(Killer)) \in Nat /\ Cardinality(Victims) \in Nat
        /\ Calls(Killer) \in Nat
        /\ ~Generating => Calls(Killer) = 0
    BY VictimsCounted DEF KillInv
  <1> QED
    BY <1>1, <1>2, <1>3, <1>4, <1>5 DEF KillAccounting

-----------------------------------------------------------------------------
(* A reaper that waits in killThreads, or in disconnect for it, returns    *)
(* only by these two steps.                                                *)
LEMMA ReturnSteps ==
    ASSUME TypeOK, Next, NEW r \in Reapers, pc[r] \in {"killwoken", "discwoken"},
           pc'[r] = "idle"
    PROVE  DisconnectKiller(r) \/ DisconnectResume(r)
  <1>0. r \in Procs /\ r \notin Workers /\ r \notin Producers /\ r \notin Controllers
    BY KindsApart
  <1>1. ASSUME NEW p \in Procs, p # r, NEW at, pc' = [pc EXCEPT ![p] = at]
        PROVE  FALSE
    BY <1>0, <1>1 DEF TypeOK, ThreadTypes
  <1>2. CASE \E p \in Procs : Schedule(p)
    <2>1. PICK p \in Procs : Schedule(p)
      BY <1>2
    <2>2. PICK S \in SUBSET Waiting :
            pc' = [t \in Procs |-> IF t = p THEN ScheduleNext(p)
                                   ELSE IF t \in S THEN "woken" ELSE pc[t]]
      BY <2>1, SchedulePc
    <2>3. pc[p] = "sched"
      BY <2>1 DEF Schedule
    <2> QED
      BY <1>0, <2>2, <2>3 DEF Waiting
  <1>3. CASE \E p \in Workers \cup Producers : \E s, e, next : AddEvent(p, s, e, next)
    <2>1. \E p \in Workers \cup Producers : \E at : pc' = [pc EXCEPT ![p] = at]
      BY <1>3, AddEventPc
    <2> QED
      BY <1>0, <1>1, <2>1, KindsApart
  <1>4. CASE \/ \E p \in Producers, e \in Events, s \in Stages : Produce(p, e, s)
             \/ \E w \in Workers : \/ \E s \in Stages : Forward(w, s)
                                   \/ DoneReschedule(w)
                                   \/ \E e \in Events, s \in Stages : Spawn(w, e, s)
    <2>1. \E p \in Workers \cup Producers : \E s, e, next : AddEvent(p, s, e, next)
      BY <1>4 DEF Produce, Forward, DoneReschedule, Spawn
    <2> QED
      BY <1>3, <2>1
  <1>5. CASE \E w \in Workers : \/ Sleep(w) \/ SpuriousRunWake(w) \/ DoneDelete(w)
                                \/ PopStage(w) \/ RemoveEvent(w)
    <2>1. PICK w \in Workers : \/ Sleep(w) \/ SpuriousRunWake(w) \/ DoneDelete(w)
                               \/ PopStage(w) \/ RemoveEvent(w)
      BY <1>5
    <2>2. \/ pc' = [pc EXCEPT ![w] = "wait"] \/ pc' = [pc EXCEPT ![w] = "woken"]
          \/ pc' = [pc EXCEPT ![w] = "release"] \/ pc' = [pc EXCEPT ![w] = "popped"]
          \/ pc' = [pc EXCEPT ![w] = "kill"] \/ pc' = [pc EXCEPT ![w] = "handle"]
      BY <2>1 DEF Sleep, SpuriousRunWake, DoneDelete, PopStage, RemoveEvent
    <2> QED
      BY <1>0, <1>1, <2>2, KindsApart
  <1>6. CASE \E w \in Workers : ReleaseEvent(w) \/ ThreadExit(w) \/ ThreadKill(w)
    <2>1. PICK w \in Workers : ReleaseEvent(w) \/ ThreadExit(w) \/ ThreadKill(w)
      BY <1>6
    <2>2. \E at : \/ pc' = [pc EXCEPT ![w] = at]
                  \/ \E p : pc' = [pc EXCEPT ![w] = at, ![p] = "discwoken"]
                  \/ \E p : pc' = [pc EXCEPT ![w] = at, ![p] = "killwoken"]
      BY <2>1 DEF ReleaseEvent, ThreadExit, ReleaseRef, ThreadKill
    <2> QED
      BY <1>0, <2>2 DEF TypeOK, ThreadTypes
  <1>7. CASE \E c \in Controllers :
               \/ \E s \in Stages : Connect(c, s) \/ Disconnect(c, s)
               \/ SpuriousDiscWake(c) \/ DisconnectResume(c)
    <2>1. PICK c \in Controllers : \E at : pc' = [pc EXCEPT ![c] = at]
      BY <1>7 DEF Connect, Disconnect, SpuriousDiscWake, DisconnectResume
    <2> QED
      BY <1>0, <1>1, <2>1, KindsApart
  <1>8. CASE \E q \in Reapers, W \in SUBSET Workers : AddThreads(q, W)
    BY <1>0, <1>8 DEF AddThreads
  <1>9. CASE \E q \in Reapers :
               \/ \E n \in KillSizes : BeginKill(q, n)
               \/ AbortKill(q) \/ GenKillEvent(q) \/ AwaitKills(q)
               \/ SpuriousKillWake(q) \/ SpuriousDiscWake(q)
    <2>1. PICK q \in Reapers :
               \/ \E n \in KillSizes : BeginKill(q, n)
               \/ AbortKill(q) \/ GenKillEvent(q) \/ AwaitKills(q)
               \/ SpuriousKillWake(q) \/ SpuriousDiscWake(q)
      BY <1>9
    <2>2. \E at : at # "idle" /\ pc' = [pc EXCEPT ![q] = at]
      <3>1. CASE GenKillEvent(q)
        <4>1. AddEvent(q, Killer, KillEvent, "gen")
          BY <3>1 DEF GenKillEvent
        <4>2. pc' = [pc EXCEPT ![q] = "sched"] \/ pc' = [pc EXCEPT ![q] = "gen"]
          BY <4>1, AddEventPc
        <4> QED
          BY <4>2
      <3>2. CASE \/ \E n \in KillSizes : BeginKill(q, n)
                 \/ AbortKill(q) \/ AwaitKills(q)
                 \/ SpuriousKillWake(q) \/ SpuriousDiscWake(q)
        BY <3>2 DEF BeginKill, AbortKill, AwaitKills, SpuriousKillWake, SpuriousDiscWake
      <3> QED
        BY <2>1, <3>1, <3>2
    <2> QED
      BY <1>0, <2>2 DEF TypeOK, ThreadTypes
  <1>10. CASE \E q \in Reapers : DisconnectKiller(q) \/ DisconnectResume(q)
    <2>1. PICK q \in Reapers : DisconnectKiller(q) \/ DisconnectResume(q)
      BY <1>10
    <2>2. \E at : pc' = [pc EXCEPT ![q] = at]
      BY <2>1 DEF DisconnectKiller, DisconnectResume
    <2>3. q = r
      BY <1>1, <2>2, KindsApart
    <2> QED
      BY <2>1, <2>3
  <1> QED
    BY <1>2, <1>4, <1>5, <1>6, <1>7, <1>8, <1>9, <1>10
       DEF Next, WorkerStep, Handler, ControlStep, ReaperStep

LEMMA ReturnDrained ==
    ASSUME TypeOK, RefInv, KillInv, Next, NEW r \in Reapers,
           pc[r] \in {"killwoken", "discwoken"}, pc'[r] = "idle"
    PROVE  /\ threadsToKill = 0
           /\ Serving(Killer) = {} /\ QueuedRuns(Killer) = {}
           /\ eventList[Killer] = <<>>
  <1>1. /\ eventRef[Killer] = 0
        /\ threadMutex = Nil \/ (threadMutex = r /\ pc[r] = "discwoken")
    <2>1. eventRef[Killer] \in Int /\ eventRef[Killer] >= 0
      BY RefPositive DEF TypeOK, StageTypes, AllStages, RefInv
    <2>2. CASE DisconnectKiller(r)
      BY <2>1, <2>2, KindsApart DEF DisconnectKiller, Outstanding, TypeOK, ThreadTypes
    <2>3. CASE DisconnectResume(r)
      <3>1. pc[r] = "discwoken" /\ target[r] = Killer /\ threadMutex = r
        BY <2>3 DEF DisconnectResume, RefInv, Reaped
      <3>2. ~(eventRef[Killer] > 0)
        BY <2>3, <3>1, KindsApart DEF DisconnectResume, Outstanding, TypeOK, ThreadTypes
      <3> QED
        BY <2>1, <3>1, <3>2
    <2> QED
      BY <2>2, <2>3, ReturnSteps
  <1>2. ~Generating
    BY <1>1, NotGenerating DEF RefInv
  <1>3. Balance(Killer) /\ Killer \in AllStages
    BY DEF RefInv, Balanced, AllStages
  <1>4. Runs(Killer) = 0 /\ Calls(Killer) = 0 /\ Takers(Killer) = 0 /\ Handlers(Killer) = 0
    BY <1>1, <1>3, NothingOutstanding
  <1>5. QueuedRuns(Killer) = {} /\ Serving(Killer) = {}
    <2>1. IsFiniteSet(QueuedRuns(Killer)) /\ IsFiniteSet(Serving(Killer))
      BY <1>3, Numbers, PlacesFinite
    <2> QED
      BY <1>4, <2>1, FS_EmptySet DEF Runs, Handlers
  <1>6. eventList[Killer] = <<>> /\ Len(eventList[Killer]) = 0
    <2>1. eventList[Killer] \in Seq(Events \cup {KillEvent})
      BY DEF TypeOK, StageTypes, AllStages
    <2>2. Len(eventList[Killer]) = 0
      BY <1>3, <1>4 DEF Balance
    <2> QED
      BY <2>1, <2>2
  <1>7. threadsToKill = 0
    <2>1. Doomed = {}
      <3>1. \A w \in Workers : pc[w] = "kill" => runStage[w] = Killer
        BY DEF TypeOK, ThreadTypes, Fits
      <3> QED
        BY <1>5, <3>1 DEF Doomed, Serving
    <2>2. Pending = 0
      BY <1>6, <2>1, FS_EmptySet DEF Pending
    <2> QED
      BY <1>2, <2>2 DEF KillInv, KillsCounted
  <1> QED
    BY <1>5, <1>6, <1>7

(* The counters of killThreads are exact all the time, and killThreads     *)
(* returns only when every kill event has been taken and every victim has  *)
(* released the killer stage: for any number of threads, victims and calls,*)
(* the pool and its killer stage can be freed after it.                    *)
THEOREM KillThreadsDrains == Spec => KillReturnsDrained
  <1>1. TypeOK /\ RefInv /\ KillInv /\ [Next]_vars
          => [\A r \in Reapers :
                pc[r] \in {"killwoken", "discwoken"} /\ pc'[r] = "idle" =>
                  /\ threadsToKill = 0
                  /\ Serving(Killer) = {} /\ QueuedRuns(Killer) = {}
                  /\ eventList[Killer] = <<>>]_vars
    <2> SUFFICES ASSUME TypeOK, RefInv, KillInv, Next
                 PROVE  \A r \in Reapers :
                          pc[r] \in {"killwoken", "discwoken"} /\ pc'[r] = "idle" =>
                            /\ threadsToKill = 0
                            /\ Serving(Killer) = {} /\ QueuedRuns(Killer) = {}
                            /\ eventList[Killer] = <<>>
      OBVIOUS
    <2> QED
      BY ReturnDrained
  <1> QED
    BY <1>1, KillInvGives, KillInvariant, RefInvariant, TypeCorrect, PTL
       DEF Spec, KillReturnsDrained

-----------------------------------------------------------------------------
(* Part 4.  The places of an event.                                        *)
LiesIn(e, s) == \E i \in DOMAIN eventList[s] : eventList[s][i] = e
Queued(e)    == \E s \in AllStages : LiesIn(e, s)
Carried(e)   == \E w \in Workers : event[w] = e

(* No event lies twice in a queue.                                         *)
Distinct(e, s) ==
    \A i, j \in DOMAIN eventList[s] :
        eventList[s][i] = e /\ eventList[s][j] = e => i = j

OnePlace(e) ==
    /\ \A s, t \in AllStages : LiesIn(e, s) /\ LiesIn(e, t) => s = t
    /\ \A s \in AllStages : Distinct(e, s)
    /\ \A v, w \in Workers : event[v] = e /\ event[w] = e => v = w
    /\ ~(Queued(e) /\ Carried(e))
    /\ e \in fresh <=> ~Queued(e) /\ ~Carried(e)

(* A callback in transit lies with the stage that is on top of its stack.  *)
SentBack(e) ==
    cbFlag[e] => /\ compCB[e] # <<>>
                 /\ Queued(e)
                 /\ \A s \in AllStages : LiesIn(e, s) => s = Head(compCB[e])

(* Only a handler carries an event of the program, and the killer stage    *)
(* has kill events only.                                                   *)
Hands ==
    \A w \in Workers :
        /\ pc[w] \notin {"handle", "sched", "kill"} => event[w] = Nil
        /\ pc[w] = "kill" => event[w] = KillEvent

KillOnly == \A e : LiesIn(e, Killer) => e = KillEvent

AllInOnePlace == \A e \in Events : OnePlace(e)
AllSentBack == \A e \in Events : SentBack(e)
PlaceInv == AllInOnePlace /\ AllSentBack /\ Hands /\ KillOnly

-----------------------------------------------------------------------------
(* What appending an event, and taking the first, does to the places.      *)
ListTyped == eventList \in [AllStages -> Seq(Events \cup {KillEvent})]

LEMMA AppendLies ==
    ASSUME ListTyped, NEW s \in AllStages, NEW d \in Events \cup {KillEvent},
           eventList' = [eventList EXCEPT ![s] = Append(@, d)]
    PROVE  \A e : \A t \in AllStages :
             LiesIn(e, t)' <=> LiesIn(e, t) \/ (t = s /\ e = d)
  <1> SUFFICES ASSUME NEW e, NEW t \in AllStages
               PROVE  LiesIn(e, t)' <=> LiesIn(e, t) \/ (t = s /\ e = d)
    OBVIOUS
  <1>1. CASE t # s
    BY <1>1 DEF LiesIn, ListTyped
  <1>2. CASE t = s
    <2> DEFINE q == eventList[s]
               n == Len(q)
    <2>1. q \in Seq(Events \cup {KillEvent}) /\ eventList'[s] = Append(q, d)
      BY DEF ListTyped
    <2> HIDE DEF q
    <2>2. /\ n \in Nat /\ DOMAIN q = 1..n /\ DOMAIN Append(q, d) = 1..n + 1
          /\ \A i \in 1..n : Append(q, d)[i] = q[i]
          /\ Append(q, d)[n + 1] = d
      BY <2>1
    <2>3. LiesIn(e, t)' <=> \E i \in DOMAIN Append(q, d) : Append(q, d)[i] = e
      BY <1>2, <2>1 DEF LiesIn
    <2>4. LiesIn(e, t) <=> \E i \in DOMAIN q : q[i] = e
      BY <1>2 DEF LiesIn, q
    <2> HIDE DEF n
    <2>5. \A i \in 1..n + 1 : i \in 1..n \/ i = n + 1
      BY <2>2
    <2>6. n + 1 \in 1..n + 1 /\ 1..n \subseteq 1..n + 1
      BY <2>2
    <2> QED
      BY <1>2, <2>2, <2>3, <2>4, <2>5, <2>6
  <1> QED
    BY <1>1, <1>2

LEMMA TailLies ==
    ASSUME ListTyped, NEW s \in AllStages, eventList[s] # <<>>,
           eventList' = [eventList EXCEPT ![s] = Tail(@)]
    PROVE  \A e : \A t \in AllStages :
             LiesIn(e, t) <=> LiesIn(e, t)' \/ (t = s /\ e = Head(eventList[s]))
  <1> SUFFICES ASSUME NEW e, NEW t \in AllStages
               PROVE  LiesIn(e, t) <=>
                        LiesIn(e, t)' \/ (t = s /\ e = Head(eventList[s]))
    OBVIOUS
  <1>1. CASE t # s
    BY <1>1 DEF LiesIn, ListTyped
  <1>2. CASE t = s
    <2> DEFINE q == eventList[s]
               n == Len(q) - 1
    <2>1. /\ q \in Seq(Events \cup {KillEvent}) /\ q # <<>>
          /\ eventList'[s] = Tail(q) /\ Head(eventList[s]) = Head(q)
      BY DEF ListTyped
    <2> HIDE DEF q
    <2>2. /\ n \in Nat /\ DOMAIN q = 1..n + 1 /\ DOMAIN Tail(q) = 1..n
          /\ \A i \in 1..n : Tail(q)[i] = q[i + 1]
          /\ Head(q) = q[1]
      BY <2>1
    <2>3. LiesIn(e, t)' <=> \E i \in DOMAIN Tail(q) : Tail(q)[i] = e
      BY <1>2, <2>1 DEF LiesIn
    <2>4. LiesIn(e, t) <=> \E i \in DOMAIN q : q[i] = e
      BY <1>2 DEF LiesIn, q
    <2> HIDE DEF n
    <2>5. \A i \in 1..n + 1 : i = 1 \/ (i - 1 \in 1..n /\ i = (i - 1) + 1)
      BY <2>2
    <2>6. 1 \in 1..n + 1 /\ \A i \in 1..n : i + 1 \in 1..n + 1
      BY <2>2
    <2>7. ASSUME NEW i \in DOMAIN q, q[i] = e, e # Head(q)
          PROVE  \E j \in DOMAIN Tail(q) : Tail(q)[j] = e
      <3>1. i - 1 \in 1..n /\ i = (i - 1) + 1
        BY <2>2, <2>5, <2>7
      <3>2. Tail(q)[i - 1] = q[(i - 1) + 1]
        BY <2>2, <3>1
      <3> QED
        BY <2>2, <2>7, <3>1, <3>2
    <2>8. ASSUME NEW j \in DOMAIN Tail(q), Tail(q)[j] = e
          PROVE  \E i \in DOMAIN q : q[i] = e
      BY <2>2, <2>6, <2>8
    <2>9. \E i \in DOMAIN q : q[i] = Head(q)
      BY <2>2, <2>6
    <2> QED
      BY <1>2, <2>1, <2>3, <2>4, <2>7, <2>8, <2>9
  <1> QED
    BY <1>1, <1>2

LEMMA AppendDistinct ==
    ASSUME ListTyped, NEW s \in AllStages, NEW d \in Events \cup {KillEvent},
           eventList' = [eventList EXCEPT ![s] = Append(@, d)],
           NEW e, NEW t \in AllStages, Distinct(e, t), e # d \/ ~LiesIn(e, s)
    PROVE  Distinct(e, t)'
  <1>1. CASE t # s
    BY <1>1 DEF Distinct, ListTyped
  <1>2. CASE t = s
    <2> DEFINE q == eventList[s]
               n == Len(q)
    <2>1. q \in Seq(Events \cup {KillEvent}) /\ eventList'[s] = Append(q, d)
      BY DEF ListTyped
    <2>0. /\ \A i, j \in DOMAIN q : q[i] = e /\ q[j] = e => i = j
          /\ e # d \/ \A i \in DOMAIN q : q[i] # e
      BY <1>2 DEF Distinct, LiesIn
    <2> HIDE DEF q
    <2>2. /\ n \in Nat /\ DOMAIN q = 1..n /\ DOMAIN Append(q, d) = 1..n + 1
          /\ \A i \in 1..n : Append(q, d)[i] = q[i]
          /\ Append(q, d)[n + 1] = d
      BY <2>1
    <2> HIDE DEF n
    <2>3. \A i \in 1..n + 1 : i \in 1..n \/ i = n + 1
      BY <2>2
    <2>4. \A i, j \in DOMAIN Append(q, d) :
            Append(q, d)[i] = e /\ Append(q, d)[j] = e => i = j
      BY <2>0, <2>2, <2>3
    <2> QED
      BY <1>2, <2>1, <2>4 DEF Distinct
  <1> QED
    BY <1>1, <1>2

LEMMA TailDistinct ==
    ASSUME ListTyped, NEW s \in AllStages, eventList[s] # <<>>,
           eventList' = [eventList EXCEPT ![s] = Tail(@)],
           NEW e, NEW t \in AllStages, Distinct(e, t)
    PROVE  /\ Distinct(e, t)'
           /\ t = s /\ e = Head(eventList[s]) => ~LiesIn(e, t)'
  <1>1. CASE t # s
    BY <1>1 DEF Distinct, ListTyped
  <1>2. CASE t = s
    <2> DEFINE q == eventList[s]
               n == Len(q) - 1
    <2>1. /\ q \in Seq(Events \cup {KillEvent}) /\ q # <<>>
          /\ eventList'[s] = Tail(q) /\ Head(eventList[s]) = Head(q)
      BY DEF ListTyped
    <2>0. \A i, j \in DOMAIN q : q[i] = e /\ q[j] = e => i = j
      BY <1>2 DEF Distinct
    <2> HIDE DEF q
    <2>2. /\ n \in Nat /\ DOMAIN q = 1..n + 1 /\ DOMAIN Tail(q) = 1..n
          /\ \A i \in 1..n : Tail(q)[i] = q[i + 1]
          /\ Head(q) = q[1]
      BY <2>1
    <2> HIDE DEF n
    <2>3. /\ 1 \in 1..n + 1
          /\ \A i \in 1..n : i + 1 \in 1..n + 1 /\ i + 1 # 1
          /\ \A i, j \in 1..n : i + 1 = j + 1 => i = j
      BY <2>2
    <2>4. \A i, j \in DOMAIN Tail(q) : Tail(q)[i] = e /\ Tail(q)[j] = e => i = j
      BY <2>0, <2>2, <2>3
    <2>5. e = Head(q) => \A i \in DOMAIN Tail(q) : Tail(q)[i] # e
      BY <2>0, <2>2, <2>3
    <2> QED
      BY <1>2, <2>1, <2>4, <2>5 DEF Distinct, LiesIn
  <1> QED
    BY <1>1, <1>2

-----------------------------------------------------------------------------
(* What one step may do to one event.                                      *)
SameHolder(e) ==
    /\ \A w \in Workers : event'[w] = e <=> event[w] = e
    /\ e \in fresh' <=> e \in fresh

SameMark(e) == cbFlag'[e] = cbFlag[e] /\ compCB'[e] = compCB[e]

LEMMA EventUntouched ==
    ASSUME NEW e, OnePlace(e), SentBack(e), eventList' = eventList, SameHolder(e),
           ~cbFlag'[e] \/ SameMark(e)
    PROVE  OnePlace(e)' /\ SentBack(e)'
  <1>1. /\ \A s \in AllStages : LiesIn(e, s)' <=> LiesIn(e, s)
        /\ \A s \in AllStages : Distinct(e, s) => Distinct(e, s)'
    BY DEF LiesIn, Distinct
  <1>2. (Queued(e)' <=> Queued(e)) /\ (Carried(e)' <=> Carried(e))
    BY <1>1 DEF Queued, Carried, SameHolder
  <1>3. OnePlace(e)'
    BY <1>1, <1>2 DEF OnePlace, SameHolder
  <1> QED
    BY <1>1, <1>2, <1>3 DEF SentBack, SameMark

LEMMA AppendedElsewhere ==
    ASSUME ListTyped, NEW s \in AllStages, NEW d \in Events \cup {KillEvent},
           eventList' = [eventList EXCEPT ![s] = Append(@, d)],
           NEW e, e # d, OnePlace(e), SentBack(e), SameHolder(e), SameMark(e)
    PROVE  OnePlace(e)' /\ SentBack(e)'
  <1>1. \A t \in AllStages : LiesIn(e, t)' <=> LiesIn(e, t)
    BY AppendLies
  <1>2. \A t \in AllStages : Distinct(e, t) => Distinct(e, t)'
    BY AppendDistinct
  <1>3. (Queued(e)' <=> Queued(e)) /\ (Carried(e)' <=> Carried(e))
    BY <1>1 DEF Queued, Carried, SameHolder
  <1>4. OnePlace(e)'
    BY <1>1, <1>2, <1>3 DEF OnePlace, SameHolder
  <1> QED
    BY <1>1, <1>3, <1>4 DEF SentBack, SameMark

LEMMA AppendedHere ==
    ASSUME ListTyped, NEW s \in AllStages, NEW e \in Events,
           eventList' = [eventList EXCEPT ![s] = Append(@, e)],
           OnePlace(e), ~Queued(e), \A w \in Workers : event'[w] # e,
           e \notin fresh',
           cbFlag'[e] => compCB'[e] # <<>> /\ s = Head(compCB'[e])
    PROVE  OnePlace(e)' /\ SentBack(e)'
  <1>1. \A t \in AllStages : ~LiesIn(e, t)
    BY DEF Queued
  <1>2. \A t \in AllStages : LiesIn(e, t)' <=> t = s
    BY <1>1, AppendLies
  <1>3. \A t \in AllStages : Distinct(e, t)'
    BY <1>1, AppendDistinct DEF OnePlace
  <1>4. Queued(e)' /\ ~Carried(e)'
    BY <1>2 DEF Queued, Carried
  <1>5. OnePlace(e)'
    BY <1>2, <1>3, <1>4 DEF OnePlace, Carried
  <1> QED
    BY <1>2, <1>4, <1>5 DEF SentBack

LEMMA TakenElsewhere ==
    ASSUME ListTyped, NEW s \in AllStages, eventList[s] # <<>>,
           eventList' = [eventList EXCEPT ![s] = Tail(@)],
           NEW e, e # Head(eventList[s]), OnePlace(e), SentBack(e), SameHolder(e),
           SameMark(e)
    PROVE  OnePlace(e)' /\ SentBack(e)'
  <1>1. \A t \in AllStages : LiesIn(e, t)' <=> LiesIn(e, t)
    BY TailLies
  <1>2. \A t \in AllStages : Distinct(e, t) => Distinct(e, t)'
    BY TailDistinct
  <1>3. (Queued(e)' <=> Queued(e)) /\ (Carried(e)' <=> Carried(e))
    BY <1>1 DEF Queued, Carried, SameHolder
  <1>4. OnePlace(e)'
    BY <1>1, <1>2, <1>3 DEF OnePlace, SameHolder
  <1> QED
    BY <1>1, <1>3, <1>4 DEF SentBack, SameMark

LEMMA TakenHere ==
    ASSUME ListTyped, NEW s \in AllStages, eventList[s] # <<>>, NEW e,
           e = Head(eventList[s]),
           eventList' = [eventList EXCEPT ![s] = Tail(@)],
           OnePlace(e), Carried(e)', e \notin fresh', ~cbFlag'[e],
           \A u, v \in Workers : event'[u] = e /\ event'[v] = e => u = v
    PROVE  OnePlace(e)' /\ SentBack(e)'
  <1>1. LiesIn(e, s) /\ \A t \in AllStages : LiesIn(e, t)' => LiesIn(e, t)
    BY TailLies
  <1>2. ~LiesIn(e, s)' /\ \A t \in AllStages : Distinct(e, t)'
    BY TailDistinct DEF OnePlace
  <1>3. \A t \in AllStages : ~LiesIn(e, t)'
    BY <1>1, <1>2 DEF OnePlace
  <1>4. OnePlace(e)'
    BY <1>2, <1>3 DEF OnePlace, Queued
  <1> QED
    BY <1>4 DEF SentBack

-----------------------------------------------------------------------------
(* The steps, first those that touch no event.                             *)
PlacesKept == AllInOnePlace' /\ AllSentBack' /\ KillOnly'

LEMMA QuietPlaces ==
    ASSUME PlaceInv, UNCHANGED <<eventList, eventVars, event>>
    PROVE  PlacesKept
  <1>1. eventList' = eventList /\ event' = event /\ fresh' = fresh
        /\ cbFlag' = cbFlag /\ compCB' = compCB
    BY DEF eventVars
  <1>2. \A e \in Events : SameHolder(e) /\ SameMark(e)
    BY <1>1 DEF SameHolder, SameMark
  <1>3. KillOnly'
    BY <1>1 DEF PlaceInv, KillOnly, LiesIn
  <1> QED
    BY <1>1, <1>2, <1>3, EventUntouched
       DEF PlacesKept, PlaceInv, AllInOnePlace, AllSentBack

(* An event, or a kill event, is added to stage s: the one that w had in   *)
(* its hand, or a new one.                                                 *)
LEMMA ListTypes == TypeOK => ListTyped
  BY DEF TypeOK, StageTypes, ListTyped

LEMMA AddedKillOnly ==
    ASSUME TypeOK, KillOnly, NEW s \in AllStages, NEW d \in Events \cup {KillEvent},
           eventList' = [eventList EXCEPT ![s] = Append(@, d)],
           s = Killer => d = KillEvent
    PROVE  KillOnly'
  <1>1. \A e : LiesIn(e, Killer)' => LiesIn(e, Killer) \/ e = KillEvent
    BY AppendLies, ListTypes DEF AllStages
  <1> QED
    BY <1>1 DEF KillOnly

LEMMA PassedPlaces ==
    ASSUME TypeOK, PlaceInv, NEW w \in Workers, NEW s \in Stages,
           Forward(w, s) \/ (DoneReschedule(w) /\ s = Head(compCB[event[w]]))
    PROVE  PlacesKept
  <1>0. PICK d \in Events : d = event[w]
    BY DEF Forward, DoneReschedule, TypeOK, ThreadTypes, Fits, Procs
  <1>1. /\ s \in AllStages /\ d # Nil
        /\ eventList' = [eventList EXCEPT ![s] = Append(@, d)]
        /\ event' = [event EXCEPT ![w] = Nil] /\ fresh' = fresh
    BY <1>0, ThreadsAssumption DEF Forward, DoneReschedule, AddEvent, AllStages
  <1>2. \A v \in Workers : event'[v] = IF v = w THEN Nil ELSE event[v]
    BY <1>1 DEF TypeOK, ThreadTypes
  <1>3. \A e \in Events : e # d => SameMark(e)
    BY <1>0, <1>1 DEF Forward, DoneReschedule, MayPushCallback, SameMark, TypeOK, StageTypes
  <1>4. \A e \in Events : e # d => SameHolder(e)
    BY <1>0, <1>1, <1>2, ThreadsAssumption DEF SameHolder
  <1>5. Carried(d)
    BY <1>0 DEF Carried
  <1>6. OnePlace(d) /\ SentBack(d) /\ ~Queued(d) /\ d \notin fresh' /\ ~cbFlag[d]
    BY <1>1, <1>5 DEF PlaceInv, AllInOnePlace, AllSentBack, OnePlace, SentBack
  <1>7. \A v \in Workers : event'[v] # d
    BY <1>0, <1>1, <1>2, <1>6 DEF OnePlace
  <1>8. cbFlag'[d] => compCB'[d] # <<>> /\ s = Head(compCB'[d])
    BY <1>0, <1>1, <1>6 DEF Forward, DoneReschedule, TypeOK, StageTypes
  <1>9. OnePlace(d)' /\ SentBack(d)'
    BY <1>1, <1>6, <1>7, <1>8, ListTypes, AppendedHere
  <1>10. \A e \in Events : e # d => OnePlace(e)' /\ SentBack(e)'
    BY <1>1, <1>3, <1>4, ListTypes, AppendedElsewhere
       DEF PlaceInv, AllInOnePlace, AllSentBack
  <1>11. KillOnly'
    BY <1>1, AddedKillOnly, DataAssumption DEF PlaceInv
  <1> QED
    BY <1>9, <1>10, <1>11 DEF PlacesKept, AllInOnePlace, AllSentBack

LEMMA NewPlaces ==
    ASSUME TypeOK, PlaceInv, NEW p \in Procs, NEW d \in Events, NEW s \in Stages,
           Spawn(p, d, s) \/ Produce(p, d, s)
    PROVE  PlacesKept
  <1>1. /\ s \in AllStages /\ d \in fresh /\ fresh' = fresh \ {d}
        /\ eventList' = [eventList EXCEPT ![s] = Append(@, d)]
        /\ event' = event /\ cbFlag' = cbFlag
    BY DEF Spawn, Produce, AddEvent, AllStages, handVars
  <1>2. \E b : MayPushCallback(d, b)
    BY DEF Spawn, Produce
  <1>3. \A e \in Events : e # d => SameMark(e)
    BY <1>1, <1>2 DEF MayPushCallback, SameMark, TypeOK, StageTypes
  <1>4. \A e \in Events : e # d => SameHolder(e)
    BY <1>1 DEF SameHolder
  <1>5. OnePlace(d) /\ SentBack(d) /\ ~Queued(d) /\ ~Carried(d) /\ ~cbFlag'[d]
    BY <1>1 DEF PlaceInv, AllInOnePlace, AllSentBack, OnePlace, SentBack
  <1>6. OnePlace(d)' /\ SentBack(d)'
    BY <1>1, <1>5, ListTypes, AppendedHere DEF Carried
  <1>7. \A e \in Events : e # d => OnePlace(e)' /\ SentBack(e)'
    BY <1>1, <1>3, <1>4, ListTypes, AppendedElsewhere
       DEF PlaceInv, AllInOnePlace, AllSentBack
  <1>8. KillOnly'
    BY <1>1, AddedKillOnly, DataAssumption DEF PlaceInv
  <1> QED
    BY <1>6, <1>7, <1>8 DEF PlacesKept, AllInOnePlace, AllSentBack

LEMMA KillPlaces ==
    ASSUME TypeOK, PlaceInv, NEW r \in Reapers, GenKillEvent(r)
    PROVE  PlacesKept
  <1>1. /\ Killer \in AllStages /\ UNCHANGED <<event, fresh, cbFlag, compCB>>
        /\ eventList' = [eventList EXCEPT ![Killer] = Append(@, KillEvent)]
    BY DEF GenKillEvent, AddEvent, AllStages, handVars, eventVars
  <1>2. \A e \in Events : SameMark(e) /\ SameHolder(e) /\ e # KillEvent
    BY <1>1, DataAssumption DEF SameMark, SameHolder
  <1>3. \A e \in Events : OnePlace(e)' /\ SentBack(e)'
    BY <1>1, <1>2, ListTypes, AppendedElsewhere
       DEF PlaceInv, AllInOnePlace, AllSentBack
  <1>4. KillOnly'
    BY <1>1, AddedKillOnly DEF PlaceInv
  <1> QED
    BY <1>3, <1>4 DEF PlacesKept, AllInOnePlace, AllSentBack

LEMMA RemovePlaces ==
    ASSUME TypeOK, PlaceInv, NEW w \in Workers, RemoveEvent(w)
    PROVE  PlacesKept
  <1>1. PICK s \in AllStages : s = runStage[w]
    BY DEF RemoveEvent, TypeOK, ThreadTypes, Fits, WorkerPCs
  <1>2. PICK d \in Events \cup {KillEvent} : d = Head(eventList[s])
    BY <1>1 DEF RemoveEvent, TypeOK, StageTypes
  <1>3. /\ eventList[s] # <<>> /\ pc[w] = "popped"
        /\ eventList' = [eventList EXCEPT ![s] = Tail(@)]
        /\ event' = [event EXCEPT ![w] = d] /\ fresh' = fresh
    BY <1>1, <1>2 DEF RemoveEvent
  <1>4. \A v \in Workers : event'[v] = IF v = w THEN d ELSE event[v]
    BY <1>3 DEF TypeOK, ThreadTypes
  <1>5. event[w] = Nil /\ Nil \notin Events
    BY <1>3, ThreadsAssumption DEF PlaceInv, Hands
  <1>6. \A e : LiesIn(e, Killer)' => LiesIn(e, Killer)
    BY <1>3, TailLies, ListTypes DEF AllStages
  <1>7. KillOnly'
    BY <1>6 DEF PlaceInv, KillOnly
  <1>8. LiesIn(d, s)
    BY <1>2, <1>3, TailLies, ListTypes
  <1>9. \A e \in Events : e # d => SameHolder(e)
    BY <1>3, <1>4, <1>5 DEF SameHolder
  <1>10. \A e \in Events : e # d => SameMark(e)
    BY <1>1, <1>2 DEF RemoveEvent, SameMark, ClearCallback, TypeOK, StageTypes
  <1>11. \A e \in Events : e # d => OnePlace(e)' /\ SentBack(e)'
    BY <1>2, <1>3, <1>9, <1>10, ListTypes, TakenElsewhere
       DEF PlaceInv, AllInOnePlace, AllSentBack
  <1>12. ASSUME d \in Events PROVE OnePlace(d)' /\ SentBack(d)'
    <2>1. s # Killer
      BY <1>8, <1>12, DataAssumption DEF PlaceInv, KillOnly
    <2>2. ~cbFlag'[d]
      BY <1>1, <1>2, <1>12, <2>1 DEF RemoveEvent, ClearCallback, TypeOK, StageTypes
    <2>3. OnePlace(d)
      BY <1>12 DEF PlaceInv, AllInOnePlace
    <2>4. ~Carried(d) /\ d \notin fresh'
      BY <1>3, <1>8, <2>3 DEF OnePlace, Queued
    <2>5. Carried(d)' /\ \A u, v \in Workers : event'[u] = d /\ event'[v] = d => u = v
      BY <1>4, <2>4 DEF Carried
    <2>6. ListTyped
      BY ListTypes
    <2> QED
      BY <1>2, <1>3, <2>2, <2>3, <2>4, <2>5, <2>6, TakenHere
  <1> QED
    BY <1>7, <1>11, <1>12 DEF PlacesKept, AllInOnePlace, AllSentBack

LEMMA DeletePlaces ==
    ASSUME TypeOK, PlaceInv, NEW w \in Workers, DoneDelete(w)
    PROVE  PlacesKept
  <1>1. PICK d \in Events : d = event[w]
    BY DEF DoneDelete, TypeOK, ThreadTypes, Fits, Procs
  <1>2. /\ UNCHANGED <<eventList, compCB, cbFlag>> /\ fresh' = fresh \cup {d}
        /\ event' = [event EXCEPT ![w] = Nil] /\ Nil \notin Events
    BY <1>1, ThreadsAssumption DEF DoneDelete, stageVars
  <1>3. \A v \in Workers : event'[v] = IF v = w THEN Nil ELSE event[v]
    BY <1>2 DEF TypeOK, ThreadTypes
  <1>4. \A e \in Events : SameMark(e) /\ (e # d => SameHolder(e))
    BY <1>1, <1>2, <1>3 DEF SameMark, SameHolder
  <1>5. \A e \in Events : e # d => OnePlace(e)' /\ SentBack(e)'
    BY <1>2, <1>4, EventUntouched DEF PlaceInv, AllInOnePlace, AllSentBack
  <1>6. /\ OnePlace(d) /\ SentBack(d) /\ Carried(d) /\ ~Queued(d)
    BY <1>1 DEF PlaceInv, AllInOnePlace, AllSentBack, OnePlace, Carried
  <1>7. ~Carried(d)'
    BY <1>1, <1>2, <1>3, <1>6 DEF OnePlace, Carried
  <1>8. /\ \A s \in AllStages : LiesIn(d, s)' <=> LiesIn(d, s)
        /\ \A s \in AllStages : Distinct(d, s) => Distinct(d, s)'
    BY <1>2 DEF LiesIn, Distinct
  <1>9. OnePlace(d)'
    <2>1. ~Queued(d)' /\ d \in fresh'
      BY <1>2, <1>6, <1>8 DEF Queued
    <2> QED
      BY <1>6, <1>7, <1>8, <2>1 DEF OnePlace, Carried
  <1>10. SentBack(d)'
    BY <1>2, <1>6 DEF SentBack
  <1>11. KillOnly'
    BY <1>2 DEF PlaceInv, KillOnly, LiesIn
  <1> QED
    BY <1>5, <1>9, <1>10, <1>11 DEF PlacesKept, AllInOnePlace, AllSentBack

LEMMA VictimPlaces ==
    ASSUME TypeOK, PlaceInv, NEW w \in Workers, ThreadKill(w)
    PROVE  PlacesKept
  <1>1. /\ UNCHANGED <<eventList, compCB, cbFlag, fresh>>
        /\ event' = [event EXCEPT ![w] = Nil] /\ Nil \notin Events
        /\ event[w] = KillEvent
    BY ThreadsAssumption DEF ThreadKill, stageVars, eventVars, PlaceInv, Hands
  <1>2. \A v \in Workers : event'[v] = IF v = w THEN Nil ELSE event[v]
    BY <1>1 DEF TypeOK, ThreadTypes
  <1>3. \A e \in Events : SameMark(e) /\ SameHolder(e)
    BY <1>1, <1>2, DataAssumption DEF SameMark, SameHolder
  <1>4. \A e \in Events : OnePlace(e)' /\ SentBack(e)'
    BY <1>1, <1>3, EventUntouched DEF PlaceInv, AllInOnePlace, AllSentBack
  <1>5. KillOnly'
    BY <1>1 DEF PlaceInv, KillOnly, LiesIn
  <1> QED
    BY <1>4, <1>5 DEF PlacesKept, AllInOnePlace, AllSentBack

LEMMA PlacesNext ==
    ASSUME TypeOK, PlaceInv, Next
    PROVE  PlacesKept
  <1>1. CASE UNCHANGED <<eventList, eventVars, event>>
    BY <1>1, QuietPlaces
  <1>2. CASE \E w \in Workers : RemoveEvent(w) \/ DoneDelete(w) \/ ThreadKill(w)
    BY <1>2, RemovePlaces, DeletePlaces, VictimPlaces
  <1>3. CASE \E w \in Workers : \E s \in Stages : Forward(w, s)
    BY <1>3, PassedPlaces
  <1>4. CASE \E w \in Workers : DoneReschedule(w)
    <2>1. PICK w \in Workers : DoneReschedule(w)
      BY <1>4
    <2>2. event[w] \in Events /\ compCB[event[w]] # <<>>
      BY <2>1 DEF DoneReschedule, TypeOK, ThreadTypes, Fits, Procs
    <2>3. PICK s \in Stages : s = Head(compCB[event[w]])
      BY <2>2 DEF TypeOK, StageTypes
    <2> QED
      BY <2>1, <2>3, PassedPlaces
  <1>5. CASE \E p \in Procs, e \in Events, s \in Stages :
               Spawn(p, e, s) \/ Produce(p, e, s)
    BY <1>5, NewPlaces
  <1>6. CASE \E r \in Reapers : GenKillEvent(r)
    BY <1>6, KillPlaces
  <1>7. \/ UNCHANGED <<eventList, eventVars, event>>
        \/ \E w \in Workers : RemoveEvent(w) \/ DoneDelete(w) \/ ThreadKill(w)
        \/ \E w \in Workers : \E s \in Stages : Forward(w, s)
        \/ \E w \in Workers : DoneReschedule(w)
        \/ \E p \in Procs, e \in Events, s \in Stages :
             Spawn(p, e, s) \/ Produce(p, e, s)
        \/ \E r \in Reapers : GenKillEvent(r)
    <2>1. \A p : Schedule(p) => UNCHANGED <<eventList, eventVars, event>>
      BY DEF Schedule, stageVars, handVars
    <2>2. \A w : Sleep(w) \/ SpuriousRunWake(w) \/ PopStage(w) \/ ReleaseEvent(w)
                   \/ ThreadExit(w) => UNCHANGED <<eventList, eventVars, event>>
      BY DEF Sleep, SpuriousRunWake, PopStage, ReleaseEvent, ThreadExit, stageVars,
             handVars
    <2>3. \A c : ControlStep(c) \/ SpuriousDiscWake(c) \/ DisconnectResume(c)
                   => UNCHANGED <<eventList, eventVars, event>>
      BY DEF ControlStep, Connect, Disconnect, SpuriousDiscWake, DisconnectResume,
             stageVars, handVars
    <2>4. \A r : ReaperStep(r)
                   => GenKillEvent(r) \/ UNCHANGED <<eventList, eventVars, event>>
      BY DEF ReaperStep, AddThreads, BeginKill, AbortKill, AwaitKills,
             SpuriousKillWake, DisconnectKiller, stageVars, handVars
    <2> QED
      BY <2>1, <2>2, <2>3, <2>4 DEF Next, WorkerStep, Handler, Procs
  <1> QED
    BY <1>1, <1>2, <1>3, <1>4, <1>5, <1>6, <1>7

-----------------------------------------------------------------------------
(* What the threads carry.  A thread without an event may go anywhere but  *)
(* to "kill".                                                              *)
LEMMA SameHands ==
    ASSUME Hands,
           \A v \in Workers :
              /\ event'[v] = event[v]
              /\ pc'[v] = pc[v] \/ (event[v] = Nil /\ pc'[v] # "kill")
    PROVE  Hands'
  BY DEF Hands

LEMMA ScheduleHands ==
    ASSUME TypeOK, Hands, NEW p \in Procs, Schedule(p)
    PROVE  Hands'
  <1>1. PICK S \in SUBSET Waiting :
          pc' = [q \in Procs |-> IF q = p THEN ScheduleNext(p)
                                 ELSE IF q \in S THEN "woken" ELSE pc[q]]
    BY SchedulePc
  <1>2. pc[p] = "sched" /\ event' = event
    BY DEF Schedule, handVars
  <1>3. \A v \in Workers : v # p => pc'[v] = pc[v] \/ (pc[v] = "wait" /\ pc'[v] = "woken")
    BY <1>1 DEF Waiting, Procs
  <1>4. \A v \in Workers :
          v = p => pc'[v] \in {"sched", "handle"} \/ (event[v] = Nil /\ pc'[v] = "release")
    BY <1>1 DEF ScheduleNext, AfterSchedule, Procs
  <1> QED
    BY <1>2, <1>3, <1>4 DEF Hands

(* Worker w moves to `at` with x in its hand.                              *)
LEMMA MovedHands ==
    ASSUME TypeOK, Hands, NEW w \in Workers, NEW at, NEW x,
           event'[w] = x, pc'[w] = at,
           \A v \in Workers \ {w} : pc'[v] = pc[v] /\ event'[v] = event[v],
           at \notin {"handle", "sched", "kill"} => x = Nil,
           at = "kill" => x = KillEvent
    PROVE  Hands'
  <1>1. \A v \in Workers : v = w \/ v \in Workers \ {w}
    OBVIOUS
  <1> QED
    BY <1>1 DEF Hands

LEMMA WorkerHands ==
    ASSUME TypeOK, PlaceInv, NEW w \in Workers, WorkerStep(w)
    PROVE  Hands'
  <1>0. w \in Procs /\ Hands
    BY DEF Procs, PlaceInv
  <1>1. CASE Sleep(w) \/ SpuriousRunWake(w) \/ PopStage(w)
    <2>1. event' = event /\ event[w] = Nil
      BY <1>0, <1>1 DEF Sleep, SpuriousRunWake, PopStage, handVars, Hands
    <2>2. PICK at \in {"wait", "woken", "popped"} : pc' = [pc EXCEPT ![w] = at]
      BY <1>1 DEF Sleep, SpuriousRunWake, PopStage
    <2>3. \A v \in Workers : pc'[v] = IF v = w THEN at ELSE pc[v]
      BY <2>2 DEF TypeOK, ThreadTypes, Procs
    <2> QED
      BY <1>0, <2>1, <2>3, SameHands
  <1>2. CASE RemoveEvent(w)
    <2>1. PICK d, at : /\ event' = [event EXCEPT ![w] = d]
                       /\ pc' = [pc EXCEPT ![w] = at]
                       /\ at = "handle" \/ (at = "kill" /\ d = KillEvent)
      <3>1. PICK s \in AllStages : s = runStage[w]
        BY <1>2 DEF RemoveEvent, TypeOK, ThreadTypes, Fits, WorkerPCs
      <3>2. s = Killer => Head(eventList[s]) = KillEvent
        <4>1. LiesIn(Head(eventList[s]), s)
          BY <1>2, <3>1 DEF RemoveEvent, LiesIn, TypeOK, StageTypes
        <4> QED
          BY <4>1 DEF PlaceInv, KillOnly
      <3> QED
        BY <1>2, <3>1, <3>2 DEF RemoveEvent
    <2>2. \A v \in Workers : /\ pc'[v] = IF v = w THEN at ELSE pc[v]
                             /\ event'[v] = IF v = w THEN d ELSE event[v]
      BY <2>1 DEF TypeOK, ThreadTypes, Procs
    <2>3. /\ event'[w] = d /\ pc'[w] = at
          /\ \A v \in Workers \ {w} : pc'[v] = pc[v] /\ event'[v] = event[v]
      BY <2>2
    <2> QED
      BY <1>0, <2>1, <2>3, MovedHands
  <1>3. CASE Handler(w) \/ (\E e \in Events, s \in Stages : Spawn(w, e, s))
    <2>1. PICK d, at : /\ event' = [event EXCEPT ![w] = d]
                       /\ pc' = [pc EXCEPT ![w] = at]
                       /\ at \in {"sched", "handle"} \/ (at = "release" /\ d = Nil)
      <3>1. CASE DoneDelete(w)
        BY <3>1 DEF DoneDelete
      <3>2. CASE DoneReschedule(w) \/ \E s \in Stages : Forward(w, s)
        <4>1. PICK s, e : AddEvent(w, s, e, "release")
          BY <3>2 DEF Forward, DoneReschedule
        <4>2. event' = [event EXCEPT ![w] = Nil]
          BY <3>2 DEF Forward, DoneReschedule
        <4> QED
          BY <4>1, <4>2, AddEventPc
      <3>3. CASE \E e \in Events, s \in Stages : Spawn(w, e, s)
        <4>1. PICK s, e : AddEvent(w, s, e, "handle")
          BY <3>3 DEF Spawn
        <4>2. event' = event
          BY <3>3 DEF Spawn, handVars
        <4>3. event' = [event EXCEPT ![w] = event[w]]
          BY <4>2 DEF TypeOK, ThreadTypes
        <4> QED
          BY <4>1, <4>3, AddEventPc
      <3> QED
        BY <1>3, <3>1, <3>2, <3>3 DEF Handler
    <2>2. \A v \in Workers : /\ pc'[v] = IF v = w THEN at ELSE pc[v]
                             /\ event'[v] = IF v = w THEN d ELSE event[v]
      BY <2>1 DEF TypeOK, ThreadTypes, Procs
    <2>3. /\ event'[w] = d /\ pc'[w] = at
          /\ \A v \in Workers \ {w} : pc'[v] = pc[v] /\ event'[v] = event[v]
      BY <2>2
    <2> QED
      BY <1>0, <2>1, <2>3, MovedHands
  <1>4. CASE ReleaseEvent(w) \/ ThreadExit(w)
    <2>1. PICK next \in {"loop", "none"} : ReleaseRef(w, next)
      BY <1>4 DEF ReleaseEvent, ThreadExit
    <2>2. event' = event /\ event[w] = Nil
      BY <1>0, <1>4 DEF ReleaseEvent, ThreadExit, Hands
    <2>3. pc'[w] = next /\ \A v \in Workers \ {w} : pc'[v] = pc[v]
      BY <2>1, ReleaseRefPc
    <2> QED
      BY <1>0, <2>2, <2>3, MovedHands
  <1>5. CASE ThreadKill(w)
    <2>1. pc'[w] = "killrel" /\ \A v \in Workers \ {w} : pc'[v] = pc[v]
      BY <1>5, ThreadKillPc
    <2>2. event'[w] = Nil /\ \A v \in Workers \ {w} : event'[v] = event[v]
      BY <1>5 DEF ThreadKill, TypeOK, ThreadTypes
    <2> QED
      BY <1>0, <2>1, <2>2, MovedHands
  <1> QED
    BY <1>1, <1>2, <1>3, <1>4, <1>5 DEF WorkerStep

LEMMA HandsNext ==
    ASSUME TypeOK, PlaceInv, Next
    PROVE  Hands'
  <1>0. Hands
    BY DEF PlaceInv
  <1>1. CASE \E p \in Procs : Schedule(p)
    BY <1>0, <1>1, ScheduleHands
  <1>2. CASE \E w \in Workers : WorkerStep(w)
    BY <1>2, WorkerHands
  <1>3. CASE \E r \in Reapers : \E W \in SUBSET Workers : AddThreads(r, W)
    <2>1. PICK r \in Reapers, W \in SUBSET Workers : AddThreads(r, W)
      BY <1>3
    <2>2. event' = event /\ \A v \in Workers : pc'[v] = IF v \in W THEN "loop" ELSE pc[v]
      BY <2>1 DEF AddThreads, handVars, Procs
    <2>3. \A v \in W : event[v] = Nil
      BY <1>0, <2>1 DEF AddThreads, Hands
    <2> QED
      BY <1>0, <2>2, <2>3, SameHands
  <1>4. CASE \E p \in Procs \ Workers : /\ event' = event
                                        /\ \E at : pc' = [pc EXCEPT ![p] = at]
    <2>1. event' = event /\ \A v \in Workers : pc'[v] = pc[v]
      BY <1>4
    <2> QED
      BY <1>0, <2>1, SameHands
  <1>5. \A p \in Producers, e \in Events, s \in Stages : Produce(p, e, s) =>
          event' = event /\ \E at : pc' = [pc EXCEPT ![p] = at]
    BY AddEventPc DEF Produce, handVars
  <1>6. \A c \in Controllers : ControlStep(c) =>
          event' = event /\ \E at : pc' = [pc EXCEPT ![c] = at]
    BY DEF ControlStep, Connect, Disconnect, handVars
  <1>7. \A p : SpuriousDiscWake(p) \/ DisconnectResume(p) =>
          event' = event /\ \E at : pc' = [pc EXCEPT ![p] = at]
    BY DEF SpuriousDiscWake, DisconnectResume, handVars
  <1>8. \A r \in Reapers : ReaperStep(r) =>
          \/ \E W \in SUBSET Workers : AddThreads(r, W)
          \/ event' = event /\ \E at : pc' = [pc EXCEPT ![r] = at]
    <2> SUFFICES ASSUME NEW r \in Reapers, ReaperStep(r)
                 PROVE  \/ \E W \in SUBSET Workers : AddThreads(r, W)
                        \/ event' = event /\ \E at : pc' = [pc EXCEPT ![r] = at]
      OBVIOUS
    <2>1. CASE GenKillEvent(r)
      BY <2>1, AddEventPc DEF GenKillEvent, handVars
    <2> QED
      BY <2>1 DEF ReaperStep, BeginKill, AbortKill, AwaitKills, SpuriousKillWake,
                  DisconnectKiller, handVars
  <1>9. Producers \cup Controllers \cup Reapers \subseteq Procs \ Workers
    BY ThreadsAssumption DEF Procs
  <1> QED
    BY <1>1, <1>2, <1>3, <1>4, <1>5, <1>6, <1>7, <1>8, <1>9 DEF Next

LEMMA PlaceNext == TypeOK /\ PlaceInv /\ [Next]_vars => PlaceInv'
  <1> SUFFICES ASSUME TypeOK, PlaceInv, [Next]_vars PROVE PlaceInv'
    OBVIOUS
  <1>1. CASE Next
    BY <1>1, PlacesNext, HandsNext DEF PlacesKept, PlaceInv
  <1>2. CASE UNCHANGED vars
    <2>1. UNCHANGED <<eventList, eventVars, event, pc>>
      BY <1>2 DEF vars, eventVars
    <2>2. PlacesKept
      BY <2>1, QuietPlaces
    <2>3. Hands'
      BY <2>1 DEF PlaceInv, Hands
    <2> QED
      BY <2>2, <2>3 DEF PlacesKept, PlaceInv
  <1> QED
    BY <1>1, <1>2

LEMMA PlaceInit == Init => PlaceInv
  <1> SUFFICES ASSUME Init PROVE PlaceInv
    OBVIOUS
  <1>1. /\ \A s \in AllStages : eventList[s] = <<>>
        /\ \A w \in Workers : event[w] = Nil /\ pc[w] # "kill"
        /\ fresh = Events /\ \A e \in Events : ~cbFlag[e]
    BY DEF Init, Procs
  <1>2. \A e : \A s \in AllStages : ~LiesIn(e, s) /\ Distinct(e, s)
    BY <1>1 DEF LiesIn, Distinct
  <1>3. \A e \in Events : ~Queued(e) /\ ~Carried(e)
    BY <1>1, <1>2, ThreadsAssumption DEF Queued, Carried
  <1>4. \A e \in Events : OnePlace(e) /\ SentBack(e)
    BY <1>1, <1>2, <1>3 DEF OnePlace, SentBack, Carried
  <1>5. Hands /\ KillOnly
    BY <1>1, <1>2 DEF Hands, KillOnly, AllStages
  <1> QED
    BY <1>4, <1>5 DEF PlaceInv, AllInOnePlace, AllSentBack

(* The places of an event, as CallbackAtOwner counts them.                 *)
LEMMA OneHolder ==
    ASSUME TypeOK, NEW e \in Events, OnePlace(e)
    PROVE  Cardinality(Holders(e)) + Cardinality({w \in Workers : event[w] = e})
             = IF e \in fresh THEN 0 ELSE 1
  <1> DEFINE C == {w \in Workers : event[w] = e}
  <1>1. \A h : h \in Holders(e) <=>
          \E s \in AllStages : \E i \in DOMAIN eventList[s] :
             h = <<s, i>> /\ eventList[s][i] = e
    BY DEF Holders
  <1>2. ~Queued(e) => Holders(e) = {}
    BY <1>1 DEF Queued, LiesIn
  <1>3. Queued(e) => \E h : Holders(e) = {h}
    <2> SUFFICES ASSUME Queued(e) PROVE \E h : Holders(e) = {h}
      OBVIOUS
    <2>1. PICK s \in AllStages : LiesIn(e, s)
      BY DEF Queued
    <2>2. PICK i \in DOMAIN eventList[s] : eventList[s][i] = e
      BY <2>1 DEF LiesIn
    <2>3. \A t \in AllStages : \A j \in DOMAIN eventList[t] :
            eventList[t][j] = e => t = s /\ j = i
      BY <2>1, <2>2 DEF OnePlace, LiesIn, Distinct
    <2>4. Holders(e) = {<<s, i>>}
      BY <1>1, <2>2, <2>3
    <2> QED
      BY <2>4
  <1>4. ~Carried(e) => C = {}
    BY DEF Carried
  <1>5. Carried(e) => \E w : C = {w}
    BY DEF Carried, OnePlace
  <1>6. /\ \A S : S = {} => Cardinality(S) = 0
        /\ \A S : \A x : S = {x} => Cardinality(S) = 1
    BY FS_EmptySet, FS_Singleton
  <1>7. CASE e \in fresh
    <2>1. Cardinality(Holders(e)) = 0 /\ Cardinality(C) = 0
      BY <1>2, <1>4, <1>6, <1>7 DEF OnePlace
    <2> QED
      BY <1>7, <2>1
  <1>8. CASE e \notin fresh /\ Queued(e)
    <2>1. Cardinality(Holders(e)) = 1 /\ Cardinality(C) = 0
      BY <1>3, <1>4, <1>6, <1>8 DEF OnePlace
    <2> QED
      BY <1>8, <2>1
  <1>9. CASE e \notin fresh /\ ~Queued(e)
    <2>1. Cardinality(Holders(e)) = 0 /\ Cardinality(C) = 1
      BY <1>2, <1>5, <1>6, <1>9 DEF OnePlace
    <2> QED
      BY <1>9, <2>1
  <1> QED
    BY <1>7, <1>8, <1>9

LEMMA PlaceInvGives == TypeOK /\ PlaceInv => CallbackAtOwner
  <1> SUFFICES ASSUME TypeOK, PlaceInv, NEW e \in Events
               PROVE  /\ Cardinality(Holders(e))
                           + Cardinality({w \in Workers : event[w] = e})
                         = IF e \in fresh THEN 0 ELSE 1
                      /\ cbFlag[e] => \A h \in Holders(e) :
                           compCB[e] # <<>> /\ Head(compCB[e]) = h[1]
    BY DEF CallbackAtOwner
  <1>1. OnePlace(e) /\ SentBack(e)
    BY DEF PlaceInv, AllInOnePlace, AllSentBack
  <1>2. ASSUME NEW h \in Holders(e) PROVE \E s \in AllStages : h[1] = s /\ LiesIn(e, s)
    BY <1>2 DEF Holders, LiesIn
  <1>3. cbFlag[e] => \A h \in Holders(e) : compCB[e] # <<>> /\ Head(compCB[e]) = h[1]
    BY <1>1, <1>2 DEF SentBack
  <1> QED
    BY <1>1, <1>3, OneHolder

(* Every event is in one place: in one queue, in the hand of one handler   *)
(* or deleted; the killer stage has kill events only, and a callback in    *)
(* transit is on its way to the stage that pushed it.                      *)
THEOREM PlaceInvariant == Spec => []PlaceInv
  <1>1. TypeOK /\ PlaceInv /\ [Next]_vars => PlaceInv'
    BY PlaceNext
  <1> QED
    BY <1>1, PlaceInit, TypeCorrect, PTL DEF Spec

(* doneImmediate pops the callback of the stage that runs it, and no event *)
(* is in two queues, in a queue and a handler, or used after its deletion, *)
(* whatever handlers forward, complete and create.                         *)
THEOREM EventsInOnePlace == Spec => []CallbackAtOwner
  BY PlaceInvariant, TypeCorrect, PlaceInvGives, PTL

-----------------------------------------------------------------------------
(* What clients see.  A stage is described by four values; a step of the   *)
(* promise changes those of one stage.                                     *)
LEMMA HandsSplit ==
    ASSUME TypeOK, Balanced, NEW s \in AllStages
    PROVE  /\ IsFiniteSet(Serving(s) \ Popped(s)) /\ InHand(s) \in Nat
           /\ AcceptedLen(s) = Runs(s) + Calls(s) + Takers(s)
           /\ Len(eventList[s]) \in Nat /\ AcceptedLen(s) \in 0..Len(eventList[s])
           /\ connected[s] \/ s = Killer => AcceptedLen(s) = Len(eventList[s])
           /\ \A w \in Popped(s) : AcceptedLen(s) > 0
           /\ eventRef[s] = 0 => AcceptedLen(s) = 0 /\ InHand(s) = 0
           /\ eventRef[s] \in Nat
  <1>1. Balance(s)
    BY DEF Balanced
  <1>2. /\ Runs(s) \in Nat /\ Calls(s) \in Nat /\ Takers(s) \in Nat /\ Handlers(s) \in Nat
        /\ IsFiniteSet(Popped(s)) /\ IsFiniteSet(Serving(s)) /\ Takers(s) <= Handlers(s)
    BY <1>1, Numbers
  <1>3. Serving(s) \cap Popped(s) = Popped(s)
    BY DEF Serving, Popped
  <1>4. /\ IsFiniteSet(Serving(s) \ Popped(s))
        /\ InHand(s) = Handlers(s) - Takers(s)
    BY <1>2, <1>3, FS_Difference DEF InHand, Handlers, Takers
  <1>5. Len(eventList[s]) \in Nat
    BY DEF TypeOK, StageTypes
  <1>6. \A w \in Popped(s) : Takers(s) > 0
    <2> SUFFICES ASSUME NEW w \in Popped(s) PROVE Takers(s) # 0
      BY <1>2
    <2> QED
      BY <1>2, FS_EmptySet DEF Takers
  <1>7. /\ eventRef[s] = Runs(s) + Calls(s) + Handlers(s)
        /\ Runs(s) + Calls(s) + Takers(s) <= Len(eventList[s])
        /\ connected[s] \/ s = Killer
             => Runs(s) + Calls(s) + Takers(s) = Len(eventList[s])
    BY <1>1 DEF Balance
  <1>8. AcceptedLen(s) = Runs(s) + Calls(s) + Takers(s)
    BY <1>2, <1>4, <1>7 DEF AcceptedLen
  <1>9. InHand(s) \in Nat /\ eventRef[s] \in Nat
    BY <1>2, <1>4, <1>7
  <1>10. AcceptedLen(s) \in 0..Len(eventList[s])
    BY <1>2, <1>5, <1>7, <1>8
  <1>11. \A w \in Popped(s) : AcceptedLen(s) > 0
    BY <1>2, <1>6, <1>8
  <1>12. eventRef[s] = 0 => AcceptedLen(s) = 0 /\ InHand(s) = 0
    BY <1>2, <1>4, <1>7, <1>8
  <1>13. connected[s] \/ s = Killer => AcceptedLen(s) = Len(eventList[s])
    BY <1>7, <1>8
  <1> QED
    BY <1>4, <1>5, <1>8, <1>9, <1>10, <1>11, <1>12, <1>13

(* Parts of a sequence: what taking the first and appending do to them.    *)
LEMMA CutTail ==
    ASSUME NEW S, NEW q \in Seq(S), NEW n \in 1..Len(q)
    PROVE  /\ SubSeq(q, 1, n) # <<>>
           /\ SubSeq(Tail(q), 1, n - 1) = Tail(SubSeq(q, 1, n))
           /\ SubSeq(Tail(q), n, Len(q) - 1) = SubSeq(q, n + 1, Len(q))
           /\ Len(Tail(q)) = Len(q) - 1
  OBVIOUS

LEMMA CutAppend ==
    ASSUME NEW S, NEW q \in Seq(S), NEW d \in S, NEW n \in 0..Len(q)
    PROVE  /\ SubSeq(Append(q, d), n + 1, Len(q) + 1)
                = Append(SubSeq(q, n + 1, Len(q)), d)
           /\ SubSeq(Append(q, d), 1, n) = SubSeq(q, 1, n)
           /\ Len(Append(q, d)) = Len(q) + 1
  <1> DEFINE a == SubSeq(Append(q, d), n + 1, Len(q) + 1)
             b == Append(SubSeq(q, n + 1, Len(q)), d)
  <1>1. SubSeq(Append(q, d), 1, n) = SubSeq(q, 1, n) /\ Len(Append(q, d)) = Len(q) + 1
    OBVIOUS
  <1>2. a \in Seq(S) /\ Len(a) = Len(q) - n + 1 /\ Len(q) - n + 1 \in Nat
    OBVIOUS
  <1>3. b \in Seq(S) /\ Len(b) = Len(q) - n + 1
    OBVIOUS
  <1>4. \A i \in 1..(Len(q) - n + 1) : a[i] = IF i = Len(q) - n + 1 THEN d ELSE q[n + i]
    OBVIOUS
  <1>5. \A i \in 1..(Len(q) - n + 1) : b[i] = IF i = Len(q) - n + 1 THEN d ELSE q[n + i]
    OBVIOUS
  <1> HIDE DEF a, b
  <1>6. /\ a \in [1..Len(q) - n + 1 -> S] /\ b \in [1..Len(q) - n + 1 -> S]
        /\ \A i \in 1..Len(q) - n + 1 : a[i] = b[i]
    BY <1>2, <1>3, <1>4, <1>5
  <1>7. a = b
    BY <1>6
  <1> QED
    BY <1>1, <1>7 DEF a, b

LEMMA CutAll ==
    ASSUME NEW S, NEW q \in Seq(S)
    PROVE  /\ SubSeq(q, 1, 0) = <<>> /\ SubSeq(q, 1, Len(q)) = q
           /\ SubSeq(q, Len(q) + 1, Len(q)) = <<>>
  OBVIOUS

-----------------------------------------------------------------------------
(* A step of the promise from what it does to the stage it is about.       *)
SameView(t) ==
    /\ PhaseOf(t)' = PhaseOf(t) /\ AcceptedOf(t)' = AcceptedOf(t)
    /\ ParkedOf(t)' = ParkedOf(t) /\ InHand(t)' = InHand(t)

LEMMA ViewKept ==
    ASSUME \A t \in AllStages : SameView(t)
    PROVE  UNCHANGED Promise!vars
  BY DEF SameView, Promise!vars

LEMMA ViewAdd ==
    ASSUME NEW s \in AllStages, NEW e \in Events \cup {KillEvent},
           \A t \in AllStages : t # s => SameView(t),
           PhaseOf(s)' = PhaseOf(s), InHand(s)' = InHand(s),
           IF PhaseOf(s) = "open"
             THEN AcceptedOf(s)' = Append(AcceptedOf(s), e) /\ ParkedOf(s)' = ParkedOf(s)
             ELSE ParkedOf(s)' = Append(ParkedOf(s), e) /\ AcceptedOf(s)' = AcceptedOf(s)
    PROVE  Promise!Next
  <1>1. Promise!Add(s, e)
    BY DEF SameView, Promise!Add
  <1> QED
    BY <1>1 DEF Promise!Next

LEMMA ViewTake ==
    ASSUME NEW s \in AllStages, \A t \in AllStages : t # s => SameView(t),
           PhaseOf(s)' = PhaseOf(s), InHand(s)' = InHand(s) + 1,
           AcceptedOf(s) # <<>>, AcceptedOf(s)' = Tail(AcceptedOf(s)),
           ParkedOf(s)' = ParkedOf(s)
    PROVE  Promise!Next
  <1>1. Promise!Take(s)
    BY DEF SameView, Promise!Take
  <1> QED
    BY <1>1 DEF Promise!Next

LEMMA ViewFinish ==
    ASSUME NEW s \in AllStages, \A t \in AllStages : t # s => SameView(t),
           PhaseOf(s)' = PhaseOf(s), InHand(s)' = InHand(s) - 1, InHand(s) > 0,
           AcceptedOf(s)' = AcceptedOf(s), ParkedOf(s)' = ParkedOf(s)
    PROVE  Promise!Next
  <1>1. Promise!Finish(s)
    BY DEF SameView, Promise!Finish
  <1> QED
    BY <1>1 DEF Promise!Next

LEMMA ViewOpen ==
    ASSUME NEW s \in AllStages, \A t \in AllStages : t # s => SameView(t),
           PhaseOf(s) = "closed", PhaseOf(s)' = "open", InHand(s)' = InHand(s),
           AcceptedOf(s)' = ParkedOf(s), ParkedOf(s)' = <<>>
    PROVE  Promise!Next
  <1>1. Promise!Open(s)
    BY DEF SameView, Promise!Open
  <1> QED
    BY <1>1 DEF Promise!Next

LEMMA ViewClose ==
    ASSUME NEW s \in AllStages, \A t \in AllStages : t # s => SameView(t),
           InHand(s)' = InHand(s), AcceptedOf(s)' = AcceptedOf(s),
           ParkedOf(s)' = ParkedOf(s),
           \/ PhaseOf(s) = "open" /\ PhaseOf(s)' = "closing"
           \/ /\ PhaseOf(s) \in {"open", "closing"} /\ PhaseOf(s)' = "closed"
              /\ AcceptedOf(s) = <<>> /\ InHand(s) = 0
    PROVE  Promise!Next
  <1>1. Promise!Close(s) \/ Promise!Closed(s)
    BY DEF SameView, Promise!Close, Promise!Closed, Promise!Drained
  <1> QED
    BY <1>1 DEF Promise!Next

-----------------------------------------------------------------------------
(* The phase of a stage depends on connected and on who waits in           *)
(* disconnect, the rest on its list, its count and its handlers.           *)
Away == {"discwait", "discwoken"}
At(s) == Serving(s) \ Popped(s)

LEMMA SamePhase ==
    ASSUME NEW s, connected'[s] = connected[s],
           \A p \in Controllers \cup Reapers : Leaving(p, s)' <=> Leaving(p, s)
    PROVE  PhaseOf(s)' = PhaseOf(s)
  BY DEF PhaseOf

LEMMA SameParts ==
    ASSUME NEW s, eventList'[s] = eventList[s], eventRef'[s] = eventRef[s],
           At(s)' = At(s)
    PROVE  /\ AcceptedOf(s)' = AcceptedOf(s) /\ ParkedOf(s)' = ParkedOf(s)
           /\ InHand(s)' = InHand(s)
  <1>1. InHand(s)' = InHand(s)
    BY DEF InHand, At
  <1>2. AcceptedLen(s)' = AcceptedLen(s)
    BY <1>1 DEF AcceptedLen
  <1> QED
    BY <1>1, <1>2 DEF AcceptedOf, ParkedOf

LEMMA SameAt ==
    ASSUME NEW s, \A v \in Workers : /\ runStage'[v] = runStage[v]
                                     /\ pc'[v] = "popped" <=> pc[v] = "popped"
    PROVE  At(s)' = At(s)
  BY WorkersSame DEF At

(* One thread moves, and neither waits in disconnect nor comes from there. *)
LEMMA NobodyLeaves ==
    ASSUME NEW p, pc[p] \notin Away, pc'[p] \notin Away,
           \A q \in Controllers \cup Reapers :
              q # p => pc'[q] = pc[q] /\ target'[q] = target[q]
    PROVE  \A s : \A q \in Controllers \cup Reapers : Leaving(q, s)' <=> Leaving(q, s)
  BY DEF Leaving, Away

(* Who disconnects a stage has marked it disconnected, and is alone.       *)
LEMMA OneLeaver ==
    ASSUME Controlled, Reaped
    PROVE  /\ \A s \in AllStages : \A p \in Controllers \cup Reapers :
                Leaving(p, s) => ~connected[s]
           /\ \A s \in AllStages : \A p, q \in Controllers \cup Reapers :
                Leaving(p, s) /\ Leaving(q, s) => p = q
           /\ \A s \in Stages : \A p \in Reapers : ~Leaving(p, s)
           /\ \A p \in Controllers : ~Leaving(p, Killer)
           /\ \A p \in Reapers : Leaving(p, Killer) => threadMutex = p
  <1>1. \A s \in Stages : \A p \in Reapers : ~Leaving(p, s)
    BY DataAssumption DEF Reaped, Leaving
  <1>2. \A p \in Controllers : ~Leaving(p, Killer)
    BY DataAssumption DEF Controlled, Leaving
  <1>3. \A p \in Reapers : Leaving(p, Killer) => threadMutex = p /\ ~connected[Killer]
    BY DEF Reaped, Leaving
  <1>4. \A s \in Stages : \A p, q \in Controllers :
          /\ Leaving(p, s) => ~connected[s]
          /\ Leaving(p, s) /\ Leaving(q, s) => p = q
    BY DEF Controlled, Leaving
  <1> QED
    BY <1>1, <1>2, <1>3, <1>4 DEF AllStages

-----------------------------------------------------------------------------
(* The steps that clients of a stage do not see.                           *)
LEMMA Unseen ==
    ASSUME UNCHANGED stageVars, \A s \in AllStages : At(s)' = At(s),
           \A s : \A q \in Controllers \cup Reapers : Leaving(q, s)' <=> Leaving(q, s)
    PROVE  UNCHANGED Promise!vars
  <1>1. \A s \in AllStages : /\ eventList'[s] = eventList[s]
                             /\ eventRef'[s] = eventRef[s]
                             /\ connected'[s] = connected[s]
    BY DEF stageVars
  <1>2. \A s \in AllStages : SameView(s)
    BY <1>1, SamePhase, SameParts DEF SameView
  <1> QED
    BY <1>2, ViewKept

LEMMA ScheduleUnseen ==
    ASSUME TypeOK, NEW p \in Procs, Schedule(p)
    PROVE  UNCHANGED Promise!vars
  <1>1. PICK S \in SUBSET Waiting :
          pc' = [q \in Procs |-> IF q = p THEN ScheduleNext(p)
                                 ELSE IF q \in S THEN "woken" ELSE pc[q]]
    BY SchedulePc
  <1>2. /\ pc[p] = "sched" /\ UNCHANGED stageVars /\ UNCHANGED runStage /\ target' = target
    BY DEF Schedule, handVars
  <1>3. ScheduleNext(p) \notin Away \cup {"popped"}
    BY DEF ScheduleNext, AfterSchedule, Away
  <1>4. \A q \in Procs : q # p =>
          pc'[q] = pc[q] \/ (q \in Workers /\ pc[q] = "wait" /\ pc'[q] = "woken")
    BY <1>1 DEF Waiting
  <1>5. pc'[p] \notin Away \cup {"popped"}
    BY <1>1, <1>3
  <1>6. \A s \in AllStages : At(s)' = At(s)
    <2>1. \A v \in Workers : pc'[v] = "popped" <=> pc[v] = "popped"
      BY <1>2, <1>4, <1>5 DEF Procs
    <2> QED
      BY <1>2, <2>1, SameAt
  <1>7. \A s : \A q \in Controllers \cup Reapers : Leaving(q, s)' <=> Leaving(q, s)
    <2>1. pc[p] \notin Away /\ pc'[p] \notin Away
      BY <1>2, <1>5 DEF Away
    <2>2. \A q \in Controllers \cup Reapers :
            q # p => pc'[q] = pc[q] /\ target'[q] = target[q]
      BY <1>2, <1>4, ThreadsAssumption DEF Procs
    <2> QED
      BY <2>1, <2>2, NobodyLeaves
  <1> QED
    BY <1>2, <1>6, <1>7, Unseen

LEMMA WorkerUnseen ==
    ASSUME TypeOK, NEW w \in Workers,
           Sleep(w) \/ SpuriousRunWake(w) \/ PopStage(w) \/ DoneDelete(w)
    PROVE  UNCHANGED Promise!vars
  <1>1. UNCHANGED stageVars /\ target' = target /\ w \in Procs
    BY DEF Sleep, SpuriousRunWake, PopStage, DoneDelete, callVars, Procs
  <1>2. w \notin Controllers \cup Reapers
    BY ThreadsAssumption
  <1>3. PICK at : /\ pc' = [pc EXCEPT ![w] = at] /\ pc[w] # "popped"
                  /\ at \in {"wait", "woken", "popped", "release"}
                  /\ at = "popped" => PopStage(w)
    BY DEF Sleep, SpuriousRunWake, PopStage, DoneDelete
  <1>4. \A q \in Procs : pc'[q] = IF q = w THEN at ELSE pc[q]
    BY <1>3 DEF TypeOK, ThreadTypes
  <1>5. \A s : \A q \in Controllers \cup Reapers : Leaving(q, s)' <=> Leaving(q, s)
    BY <1>1, <1>2, <1>4 DEF Leaving, Procs
  <1>6. \A s \in AllStages : At(s)' = At(s)
    <2>1. CASE ~PopStage(w)
      <3>1. runStage' = runStage /\ at # "popped" /\ pc[w] # "popped"
        BY <1>3, <2>1 DEF Sleep, SpuriousRunWake, DoneDelete, handVars
      <3> QED
        BY <1>4, <3>1, SameAt DEF Procs
    <2>2. CASE PopStage(w)
      <3>1. /\ at = "popped" /\ runStage[w] = Nil
            /\ \A v \in Workers : v # w => runStage'[v] = runStage[v]
        BY <1>1, <1>4, <2>2 DEF PopStage, TypeOK, ThreadTypes, Fits
      <3>2. \A s \in AllStages : w \notin At(s) /\ w \notin At(s)'
        BY <1>1, <1>4, <3>1, ThreadsAssumption DEF At, Serving, Popped
      <3>3. \A s : \A v \in Workers \ {w} : v \in At(s)' <=> v \in At(s)
        BY <1>4, <3>1 DEF At, Serving, Popped, Procs
      <3>4. \A s : At(s) \subseteq Workers /\ At(s)' \subseteq Workers
        BY DEF At, Serving
      <3> QED
        BY <3>2, <3>3, <3>4
    <2> QED
      BY <2>1, <2>2
  <1> QED
    BY <1>1, <1>5, <1>6, Unseen

LEMMA VictimUnseen ==
    ASSUME TypeOK, NEW w \in Workers, ThreadKill(w)
    PROVE  UNCHANGED Promise!vars
  <1>1. /\ UNCHANGED stageVars /\ target' = target /\ runStage' = runStage /\ pc[w] = "kill"
    BY DEF ThreadKill, callVars
  <1>2. pc'[w] = "killrel" /\ \A v \in Workers \ {w} : pc'[v] = pc[v]
    BY ThreadKillPc
  <1>3. \A v \in Workers : pc'[v] = "popped" <=> pc[v] = "popped"
    BY <1>1, <1>2
  <1>4. \A s \in AllStages : At(s)' = At(s)
    BY <1>1, <1>3, SameAt
  <1>5. \A q \in Controllers \cup Reapers : pc'[q] \in Away <=> pc[q] \in Away
    <2>1. \/ pc' = [pc EXCEPT ![w] = "killrel"]
          \/ \E r \in Reapers : /\ pc[r] = "killwait"
                                /\ pc' = [pc EXCEPT ![w] = "killrel", ![r] = "killwoken"]
      BY DEF ThreadKill
    <2>2. \A q \in Controllers \cup Reapers : q \in Procs /\ q # w
      BY ThreadsAssumption DEF Procs
    <2> QED
      BY <2>1, <2>2 DEF Away, TypeOK, ThreadTypes
  <1>6. \A s : \A q \in Controllers \cup Reapers : Leaving(q, s)' <=> Leaving(q, s)
    BY <1>1, <1>5 DEF Leaving, Away
  <1> QED
    BY <1>1, <1>4, <1>6, Unseen

LEMMA ReaperUnseen ==
    ASSUME TypeOK, NEW r \in Reapers,
           \/ \E W \in SUBSET Workers : AddThreads(r, W)
           \/ AbortKill(r) \/ AwaitKills(r) \/ SpuriousKillWake(r)
    PROVE  UNCHANGED Promise!vars
  <1>1. UNCHANGED stageVars /\ target' = target /\ runStage' = runStage
    BY DEF AddThreads, AbortKill, AwaitKills, SpuriousKillWake, callVars, handVars
  <1>2. CASE \E W \in SUBSET Workers : AddThreads(r, W)
    <2>1. PICK W \in SUBSET Workers : AddThreads(r, W)
      BY <1>2
    <2>2. /\ \A q \in Procs : pc'[q] = IF q \in W THEN "loop" ELSE pc[q]
          /\ \A v \in W : pc[v] = "none"
      BY <2>1 DEF AddThreads
    <2>3. \A s \in AllStages : At(s)' = At(s)
      BY <1>1, <2>2, SameAt DEF Procs
    <2>4. \A s : \A q \in Controllers \cup Reapers : Leaving(q, s)' <=> Leaving(q, s)
      BY <1>1, <2>2, ThreadsAssumption DEF Leaving, Procs
    <2> QED
      BY <1>1, <2>3, <2>4, Unseen
  <1>3. CASE AbortKill(r) \/ AwaitKills(r) \/ SpuriousKillWake(r)
    <2>1. /\ pc[r] \notin Away
          /\ \E at : at \notin Away /\ pc' = [pc EXCEPT ![r] = at]
      BY <1>3 DEF AbortKill, AwaitKills, SpuriousKillWake, Away
    <2>2. pc'[r] \notin Away /\ \A q \in Procs : q # r => pc'[q] = pc[q]
      BY <2>1, ThreadsAssumption DEF TypeOK, ThreadTypes, Procs
    <2>3. \A s \in AllStages : At(s)' = At(s)
      BY <1>1, <2>2, SameAt, ThreadsAssumption DEF Procs
    <2>4. \A s : \A q \in Controllers \cup Reapers : Leaving(q, s)' <=> Leaving(q, s)
      BY <1>1, <2>1, <2>2, NobodyLeaves DEF Procs
    <2> QED
      BY <1>1, <2>3, <2>4, Unseen
  <1> QED
    BY <1>2, <1>3

LEMMA DiscWakeUnseen ==
    ASSUME TypeOK, NEW p \in Controllers \cup Reapers,
           \/ SpuriousDiscWake(p)
           \/ DisconnectResume(p) /\ Outstanding(target[p])
    PROVE  UNCHANGED Promise!vars
  <1>1. /\ UNCHANGED stageVars /\ target' = target /\ runStage' = runStage
    BY DEF SpuriousDiscWake, DisconnectResume, callVars, handVars
  <1>2. pc[p] \in Away /\ \E at \in Away : pc' = [pc EXCEPT ![p] = at]
    BY DEF SpuriousDiscWake, DisconnectResume, Away
  <1>3. p \in Procs /\ p \notin Workers
    BY ThreadsAssumption DEF Procs
  <1>4. pc'[p] \in Away /\ \A q \in Procs : q # p => pc'[q] = pc[q]
    BY <1>2, <1>3 DEF TypeOK, ThreadTypes
  <1>5. \A v \in Workers : pc'[v] = pc[v]
    BY <1>3, <1>4 DEF Procs
  <1>6. \A s \in AllStages : At(s)' = At(s)
    BY <1>1, <1>5, SameAt
  <1>7. \A s : \A q \in Controllers \cup Reapers : Leaving(q, s)' <=> Leaving(q, s)
    BY <1>1, <1>2, <1>4 DEF Leaving, Away, Procs
  <1> QED
    BY <1>1, <1>6, <1>7, Unseen

-----------------------------------------------------------------------------
(* Stage::addEvent: the event is accepted or parked.                       *)
LEMMA AddSeen ==
    ASSUME TypeOK, Balanced, NEW p \in Procs, NEW s \in AllStages,
           NEW e \in Events \cup {KillEvent}, NEW next, AddEvent(p, s, e, next),
           pc[p] \notin Away \cup {"popped"}, next \notin Away \cup {"popped"},
           UNCHANGED runStage
    PROVE  Promise!Next
  <1>1. /\ \A q \in Procs : q # p => pc'[q] = pc[q] /\ target'[q] = target[q]
        /\ pc'[p] \notin Away \cup {"popped"}
    <2>1. PICK at : at \notin Away \cup {"popped"} /\ pc' = [pc EXCEPT ![p] = at]
      BY AddEventPc DEF Away
    <2>2. target' = target \/ target' = [target EXCEPT ![p] = s]
      BY DEF AddEvent
    <2> QED
      BY <2>1, <2>2 DEF TypeOK, ThreadTypes
  <1>2. \A t \in AllStages : At(t)' = At(t)
    <2>1. \A v \in Workers : pc'[v] = "popped" <=> pc[v] = "popped"
      BY <1>1 DEF Procs
    <2> QED
      BY <2>1, SameAt
  <1>3. \A t : \A q \in Controllers \cup Reapers : Leaving(q, t)' <=> Leaving(q, t)
    BY <1>1, NobodyLeaves DEF Procs
  <1>4. /\ connected' = connected
        /\ \A t \in AllStages : t # s => eventList'[t] = eventList[t]
                                         /\ eventRef'[t] = eventRef[t]
        /\ eventList'[s] = Append(eventList[s], e)
        /\ eventRef'[s] = IF connected[s] THEN eventRef[s] + 1 ELSE eventRef[s]
    BY DEF AddEvent, TypeOK, StageTypes
  <1>5. \A t \in AllStages : PhaseOf(t)' = PhaseOf(t)
    BY <1>3, <1>4, SamePhase
  <1>6. \A t \in AllStages : t # s => SameView(t)
    BY <1>2, <1>4, <1>5, SameParts DEF SameView
  <1>7. InHand(s)' = InHand(s) /\ InHand(s) \in Nat
    BY <1>2, HandsSplit DEF InHand, At
  <1> DEFINE q == eventList[s]
             n == AcceptedLen(s)
  <1>8. /\ q \in Seq(Events \cup {KillEvent}) /\ n \in 0..Len(q) /\ eventRef[s] \in Nat
        /\ connected[s] => n = Len(q)
    BY HandsSplit DEF TypeOK, StageTypes
  <1>9. AcceptedLen(s)' = IF connected[s] THEN n + 1 ELSE n
    BY <1>4, <1>7, <1>8 DEF AcceptedLen
  <1>10. /\ AcceptedOf(s) = SubSeq(q, 1, n) /\ ParkedOf(s) = SubSeq(q, n + 1, Len(q))
         /\ AcceptedOf(s)' = SubSeq(Append(q, e), 1, AcceptedLen(s)')
         /\ ParkedOf(s)' = SubSeq(Append(q, e), AcceptedLen(s)' + 1, Len(Append(q, e)))
    BY <1>4 DEF AcceptedOf, ParkedOf
  <1>11. PhaseOf(s) = "open" <=> connected[s]
    BY DEF PhaseOf
  <1> HIDE DEF q, n
  <1>12. CASE connected[s]
    <2>1. Append(q, e) \in Seq(Events \cup {KillEvent}) /\ Len(Append(q, e)) = Len(q) + 1
      BY <1>8
    <2>2. AcceptedOf(s)' = Append(q, e) /\ ParkedOf(s)' = <<>>
      BY <1>8, <1>9, <1>10, <1>12, <2>1, CutAll
    <2>3. AcceptedOf(s) = q /\ ParkedOf(s) = <<>>
      BY <1>8, <1>10, <1>12, CutAll
    <2> QED
      BY <1>5, <1>6, <1>7, <1>11, <1>12, <2>2, <2>3, ViewAdd
  <1>13. CASE ~connected[s]
    <2>0. AcceptedLen(s)' = n
      BY <1>9, <1>13
    <2>1. /\ SubSeq(Append(q, e), n + 1, Len(q) + 1)
               = Append(SubSeq(q, n + 1, Len(q)), e)
          /\ SubSeq(Append(q, e), 1, n) = SubSeq(q, 1, n)
          /\ Len(Append(q, e)) = Len(q) + 1
      BY <1>8, CutAppend
    <2>2. AcceptedOf(s)' = AcceptedOf(s) /\ ParkedOf(s)' = Append(ParkedOf(s), e)
      BY <1>10, <2>0, <2>1
    <2> QED
      BY <1>5, <1>6, <1>7, <1>11, <1>13, <2>2, ViewAdd
  <1> QED
    BY <1>12, <1>13

(* Stage::removeEvent: the first accepted event is handed to a thread.     *)
LEMMA RemoveSeen ==
    ASSUME TypeOK, Balanced, NEW w \in Workers, RemoveEvent(w)
    PROVE  Promise!Next
  <1>1. PICK s \in AllStages : s = runStage[w]
    BY DEF RemoveEvent, TypeOK, ThreadTypes, Fits, WorkerPCs
  <1>2. /\ pc[w] = "popped" /\ eventList[s] # <<>>
        /\ UNCHANGED <<connected, eventRef, target, runStage>>
        /\ \A t \in AllStages : t # s => eventList'[t] = eventList[t]
        /\ eventList'[s] = Tail(eventList[s])
    BY <1>1 DEF RemoveEvent, callVars, TypeOK, StageTypes
  <1>3. PICK at \in {"kill", "handle"} : pc' = [pc EXCEPT ![w] = at]
    BY DEF RemoveEvent
  <1>4. \A q \in Procs : pc'[q] = IF q = w THEN at ELSE pc[q]
    BY <1>3 DEF TypeOK, ThreadTypes
  <1>5. \A t : \A q \in Controllers \cup Reapers : Leaving(q, t)' <=> Leaving(q, t)
    <2>1. w \notin Controllers \cup Reapers
      BY ThreadsAssumption
    <2> QED
      BY <1>2, <1>4, <2>1 DEF Leaving, Procs
  <1>6. \A t \in AllStages : PhaseOf(t)' = PhaseOf(t)
    BY <1>2, <1>5, SamePhase
  <1>7. \A t \in AllStages : t # s => At(t)' = At(t)
    BY <1>1, <1>2, <1>4 DEF At, Serving, Popped, Procs
  <1>8. At(s)' = At(s) \cup {w} /\ w \notin At(s) /\ w \in Popped(s)
    BY <1>1, <1>2, <1>4 DEF At, Serving, Popped, Procs
  <1>9. \A t \in AllStages : t # s => SameView(t)
    BY <1>2, <1>6, <1>7, SameParts DEF SameView
  <1>10. InHand(s)' = InHand(s) + 1 /\ InHand(s) \in Nat
    <2>1. IsFiniteSet(At(s)) /\ InHand(s) \in Nat
      BY HandsSplit DEF At
    <2>2. Cardinality(At(s) \cup {w}) = Cardinality(At(s)) + 1
      BY <1>8, <2>1, FS_AddElement
    <2>3. InHand(s) = Cardinality(At(s)) /\ InHand(s)' = Cardinality(At(s) \cup {w})
      BY <1>8 DEF InHand, At
    <2> QED
      BY <2>1, <2>2, <2>3
  <1> DEFINE q == eventList[s]
             n == AcceptedLen(s)
  <1>11. /\ q \in Seq(Events \cup {KillEvent}) /\ n \in 1..Len(q) /\ eventRef[s] \in Nat
    <2>1. n \in 0..Len(q) /\ n > 0 /\ Len(q) \in Nat /\ eventRef[s] \in Nat
      BY <1>8, HandsSplit
    <2>2. n \in 1..Len(q)
      BY <2>1
    <2> QED
      BY <2>1, <2>2 DEF TypeOK, StageTypes
  <1>12. AcceptedLen(s)' = n - 1
    BY <1>2, <1>10, <1>11 DEF AcceptedLen
  <1>13. /\ AcceptedOf(s) = SubSeq(q, 1, n) /\ ParkedOf(s) = SubSeq(q, n + 1, Len(q))
         /\ AcceptedOf(s)' = SubSeq(Tail(q), 1, AcceptedLen(s)')
         /\ ParkedOf(s)' = SubSeq(Tail(q), AcceptedLen(s)' + 1, Len(Tail(q)))
    BY <1>2 DEF AcceptedOf, ParkedOf
  <1> HIDE DEF q, n
  <1>14. (n - 1) + 1 = n
    BY <1>11
  <1>15. /\ AcceptedOf(s) # <<>> /\ AcceptedOf(s)' = Tail(AcceptedOf(s))
         /\ ParkedOf(s)' = ParkedOf(s)
    <2>1. /\ SubSeq(q, 1, n) # <<>>
          /\ SubSeq(Tail(q), 1, n - 1) = Tail(SubSeq(q, 1, n))
          /\ SubSeq(Tail(q), n, Len(q) - 1) = SubSeq(q, n + 1, Len(q))
          /\ Len(Tail(q)) = Len(q) - 1
      BY <1>11, CutTail
    <2> QED
      BY <1>12, <1>13, <1>14, <2>1
  <1> QED
    BY <1>6, <1>9, <1>10, <1>15, ViewTake

(* Stage::releaseEvent: a handler is done.                                 *)
LEMMA ReleaseSeen ==
    ASSUME TypeOK, Balanced, NEW w \in Workers, ReleaseEvent(w) \/ ThreadExit(w)
    PROVE  Promise!Next
  <1>1. PICK next \in {"loop", "none"} : ReleaseRef(w, next)
    BY DEF ReleaseEvent, ThreadExit
  <1>2. /\ pc[w] \in {"release", "killrel"}
        /\ UNCHANGED <<eventList, connected, target>>
    BY DEF ReleaseEvent, ThreadExit, callVars
  <1>3. PICK s \in AllStages : s = runStage[w]
    BY <1>1, <1>2, ReleaseLeaves
  <1>4. \A t \in AllStages : eventRef'[t] = IF t = s THEN eventRef[t] - 1 ELSE eventRef[t]
    BY <1>1, <1>2, <1>3, ReleaseLeaves
  <1>5. \A v \in Workers : runStage'[v] = IF v = w THEN Nil ELSE runStage[v]
    BY <1>1 DEF ReleaseRef, TypeOK, ThreadTypes
  <1>6. pc'[w] = next /\ \A v \in Workers \ {w} : pc'[v] = pc[v]
    BY <1>1, ReleaseRefPc
  <1>7. \A q \in Controllers \cup Reapers : pc'[q] \in Away <=> pc[q] \in Away
    <2>1. \/ pc' = [pc EXCEPT ![w] = next]
          \/ \E p \in Procs : /\ pc[p] = "discwait"
                              /\ pc' = [pc EXCEPT ![w] = next, ![p] = "discwoken"]
      BY <1>1 DEF ReleaseRef
    <2>2. \A q \in Controllers \cup Reapers : q \in Procs /\ q # w
      BY ThreadsAssumption DEF Procs
    <2> QED
      BY <2>1, <2>2 DEF Away, TypeOK, ThreadTypes
  <1>8. \A t \in AllStages : PhaseOf(t)' = PhaseOf(t)
    <2>1. \A t : \A q \in Controllers \cup Reapers : Leaving(q, t)' <=> Leaving(q, t)
      BY <1>2, <1>7 DEF Leaving, Away
    <2> QED
      BY <1>2, <2>1, SamePhase
  <1>9. Nil \notin AllStages
    BY ThreadsAssumption
  <1>10. \A t \in AllStages : t # s => At(t)' = At(t)
    <2> SUFFICES ASSUME NEW t \in AllStages, t # s PROVE At(t)' = At(t)
      OBVIOUS
    <2>1. w \notin At(t) /\ w \notin At(t)'
      BY <1>3, <1>5, <1>9 DEF At, Serving, Popped
    <2>2. \A v \in Workers \ {w} : v \in At(t)' <=> v \in At(t)
      BY <1>5, <1>6 DEF At, Serving, Popped
    <2>3. At(t) \subseteq Workers /\ At(t)' \subseteq Workers
      BY DEF At, Serving
    <2> QED
      BY <2>1, <2>2, <2>3
  <1>11. At(s)' = At(s) \ {w} /\ w \in At(s)
    <2>1. w \in At(s) /\ w \notin At(s)'
      BY <1>2, <1>3, <1>5, <1>9 DEF At, Serving, Popped
    <2>2. \A v \in Workers \ {w} : v \in At(s)' <=> v \in At(s)
      BY <1>5, <1>6 DEF At, Serving, Popped
    <2>3. At(s) \subseteq Workers /\ At(s)' \subseteq Workers
      BY DEF At, Serving
    <2> QED
      BY <2>1, <2>2, <2>3
  <1>12. \A t \in AllStages : t # s => SameView(t)
    BY <1>2, <1>4, <1>8, <1>10, SameParts DEF SameView
  <1>13. InHand(s)' = InHand(s) - 1 /\ InHand(s) \in Nat
    <2>1. IsFiniteSet(At(s)) /\ InHand(s) \in Nat
      BY HandsSplit DEF At
    <2>2. Cardinality(At(s) \ {w}) = Cardinality(At(s)) - 1
      BY <1>11, <2>1, FS_RemoveElement
    <2>3. InHand(s) = Cardinality(At(s)) /\ InHand(s)' = Cardinality(At(s) \ {w})
      BY <1>11 DEF InHand, At
    <2> QED
      BY <2>1, <2>2, <2>3
  <1>14. InHand(s) > 0
    <2>1. IsFiniteSet(At(s)) /\ InHand(s) = Cardinality(At(s))
      BY HandsSplit DEF At, InHand
    <2>2. InHand(s) # 0
      BY <1>11, <2>1, FS_EmptySet
    <2> QED
      BY <1>13, <2>2
  <1>15. AcceptedLen(s)' = AcceptedLen(s)
    <2>1. eventRef'[s] = eventRef[s] - 1 /\ eventRef[s] \in Nat
      BY <1>4, HandsSplit
    <2> QED
      BY <1>13, <2>1 DEF AcceptedLen
  <1>16. AcceptedOf(s)' = AcceptedOf(s) /\ ParkedOf(s)' = ParkedOf(s)
    BY <1>2, <1>15 DEF AcceptedOf, ParkedOf
  <1> QED
    BY <1>8, <1>12, <1>13, <1>14, <1>16, ViewFinish

(* Stage::connect accepts what was parked.                                 *)
LEMMA OpenSeen ==
    ASSUME TypeOK, Balanced, NEW p \in Procs \ Workers, NEW s \in AllStages,
           NEW at, at \notin Away, pc[p] \notin Away, pc' = [pc EXCEPT ![p] = at],
           target' = target \/ target' = [target EXCEPT ![p] = s],
           ~connected[s], eventRef[s] = 0,
           \A q \in Controllers \cup Reapers : ~Leaving(q, s),
           connected' = [connected EXCEPT ![s] = TRUE],
           eventRef' = [eventRef EXCEPT ![s] = Len(eventList[s])],
           UNCHANGED <<eventList, runStage>>
    PROVE  Promise!Next
  <1>1. /\ \A q \in Procs : q # p => pc'[q] = pc[q] /\ target'[q] = target[q]
        /\ pc'[p] = at
    BY DEF TypeOK, ThreadTypes
  <1>2. \A t \in AllStages : At(t)' = At(t)
    <2>1. \A v \in Workers : pc'[v] = pc[v]
      BY <1>1 DEF Procs
    <2> QED
      BY <2>1, SameAt
  <1>3. \A t : \A q \in Controllers \cup Reapers : Leaving(q, t)' <=> Leaving(q, t)
    BY <1>1, NobodyLeaves DEF Procs
  <1>4. \A t \in AllStages : /\ connected'[t] = IF t = s THEN TRUE ELSE connected[t]
                             /\ eventRef'[t] = IF t = s THEN Len(eventList[s])
                                               ELSE eventRef[t]
    BY DEF TypeOK, StageTypes
  <1>5. PhaseOf(s) = "closed" /\ PhaseOf(s)' = "open"
    BY <1>4 DEF PhaseOf
  <1>6. \A t \in AllStages : t # s => SameView(t)
    BY <1>2, <1>3, <1>4, SamePhase, SameParts DEF SameView
  <1>7. InHand(s)' = InHand(s) /\ InHand(s) = 0 /\ AcceptedLen(s) = 0
    BY <1>2, HandsSplit DEF InHand, At
  <1>8. AcceptedLen(s)' = Len(eventList[s])
    <2>1. Len(eventList[s]) \in Nat
      BY HandsSplit
    <2>2. AcceptedLen(s)' = eventRef'[s] - InHand(s)'
      BY DEF AcceptedLen
    <2>3. eventRef'[s] = Len(eventList[s]) /\ InHand(s)' = 0
      BY <1>4, <1>7
    <2> QED
      BY <2>1, <2>2, <2>3
  <1>9. AcceptedOf(s)' = ParkedOf(s) /\ ParkedOf(s)' = <<>>
    <2>1. eventList[s] \in Seq(Events \cup {KillEvent})
      BY DEF TypeOK, StageTypes
    <2>2. /\ AcceptedOf(s)' = SubSeq(eventList[s], 1, Len(eventList[s]))
          /\ ParkedOf(s)' = SubSeq(eventList[s], Len(eventList[s]) + 1, Len(eventList[s]))
          /\ ParkedOf(s) = SubSeq(eventList[s], 1, Len(eventList[s]))
      BY <1>7, <1>8 DEF AcceptedOf, ParkedOf
    <2> QED
      BY <2>1, <2>2, CutAll
  <1> QED
    BY <1>5, <1>6, <1>7, <1>9, ViewOpen

(* Stage::disconnect begins, and returns when nothing is outstanding.      *)
LEMMA CloseSeen ==
    ASSUME TypeOK, Balanced, Controlled, Reaped,
           NEW p \in Controllers \cup Reapers, NEW s \in AllStages, connected[s],
           pc[p] \notin Away,
           pc' = [pc EXCEPT ![p] = IF Outstanding(s) THEN "discwait" ELSE "idle"],
           target' = [target EXCEPT ![p] = s],
           connected' = [connected EXCEPT ![s] = FALSE],
           UNCHANGED <<eventList, eventRef, runStage>>
    PROVE  Promise!Next
  <1>1. /\ \A q \in Procs : q # p => pc'[q] = pc[q] /\ target'[q] = target[q]
        /\ pc'[p] = IF Outstanding(s) THEN "discwait" ELSE "idle"
        /\ target'[p] = s
    BY DEF TypeOK, ThreadTypes, Procs
  <1>2. p \in Procs /\ p \notin Workers
    BY ThreadsAssumption DEF Procs
  <1>3. \A t \in AllStages : At(t)' = At(t)
    <2>1. \A v \in Workers : pc'[v] = pc[v]
      BY <1>1, <1>2 DEF Procs
    <2> QED
      BY <2>1, SameAt
  <1>4. \A t \in AllStages : connected'[t] = IF t = s THEN FALSE ELSE connected[t]
    BY DEF TypeOK, StageTypes
  <1>5. \A t \in AllStages : t # s =>
          \A q \in Controllers \cup Reapers : Leaving(q, t)' <=> Leaving(q, t)
    BY <1>1 DEF Leaving, Away, Procs
  <1>6. \A t \in AllStages : t # s => SameView(t)
    BY <1>3, <1>4, <1>5, SamePhase, SameParts DEF SameView
  <1>7. \A q \in Controllers \cup Reapers : ~Leaving(q, s)
    BY OneLeaver
  <1>8. \A q \in Controllers \cup Reapers :
          Leaving(q, s)' <=> q = p /\ Outstanding(s)
    BY <1>1, <1>7 DEF Leaving, Procs
  <1>9. PhaseOf(s) = "open" /\ PhaseOf(s)' = IF Outstanding(s) THEN "closing" ELSE "closed"
    BY <1>4, <1>8 DEF PhaseOf
  <1>10. /\ AcceptedOf(s)' = AcceptedOf(s) /\ ParkedOf(s)' = ParkedOf(s)
         /\ InHand(s)' = InHand(s)
    BY <1>3, SameParts
  <1>11. ~Outstanding(s) => AcceptedOf(s) = <<>> /\ InHand(s) = 0
    <2>1. ~Outstanding(s) => AcceptedLen(s) = 0 /\ InHand(s) = 0
      <3>1. eventRef[s] \in Nat
        BY HandsSplit
      <3>2. eventRef[s] = 0 => AcceptedLen(s) = 0 /\ InHand(s) = 0
        BY HandsSplit
      <3> QED
        BY <3>1, <3>2 DEF Outstanding
    <2>2. SubSeq(eventList[s], 1, 0) = <<>>
      BY CutAll DEF TypeOK, StageTypes
    <2> QED
      BY <2>1, <2>2 DEF AcceptedOf
  <1> QED
    BY <1>6, <1>9, <1>10, <1>11, ViewClose

LEMMA ClosedSeen ==
    ASSUME TypeOK, Balanced, Controlled, Reaped,
           NEW p \in Controllers \cup Reapers, DisconnectResume(p),
           ~Outstanding(target[p])
    PROVE  Promise!Next
  <1>1. PICK s \in AllStages : s = target[p]
    BY DEF DisconnectResume, TypeOK, ThreadTypes, Procs
  <1>2. /\ UNCHANGED <<eventList, eventRef, connected, runStage, target>>
        /\ pc[p] = "discwoken" /\ pc' = [pc EXCEPT ![p] = "idle"]
    BY DEF DisconnectResume, stageVars, handVars, callVars
  <1>3. p \in Procs /\ p \notin Workers
    BY ThreadsAssumption DEF Procs
  <1>4. \A q \in Procs : pc'[q] = IF q = p THEN "idle" ELSE pc[q]
    BY <1>2 DEF TypeOK, ThreadTypes
  <1>5. \A t \in AllStages : At(t)' = At(t)
    <2>1. \A v \in Workers : pc'[v] = pc[v]
      BY <1>3, <1>4 DEF Procs
    <2> QED
      BY <1>2, <2>1, SameAt
  <1>6. Leaving(p, s)
    BY <1>1, <1>2 DEF Leaving
  <1>7. \A t \in AllStages : \A q \in Controllers \cup Reapers :
          Leaving(q, t)' <=> Leaving(q, t) /\ q # p
    BY <1>2, <1>4 DEF Leaving, Procs
  <1>8. \A t \in AllStages : t # s => SameView(t)
    <2>1. \A t \in AllStages : t # s => ~Leaving(p, t)
      BY <1>1 DEF Leaving
    <2>2. \A t \in AllStages : t # s =>
            \A q \in Controllers \cup Reapers : Leaving(q, t)' <=> Leaving(q, t)
      BY <1>7, <2>1
    <2> QED
      BY <1>2, <1>5, <2>2, SamePhase, SameParts DEF SameView
  <1>9. ~connected[s] /\ \A q \in Controllers \cup Reapers : Leaving(q, s) => q = p
    BY <1>6, OneLeaver
  <1>10. PhaseOf(s) = "closing" /\ PhaseOf(s)' = "closed"
    BY <1>2, <1>6, <1>7, <1>9 DEF PhaseOf
  <1>11. /\ AcceptedOf(s)' = AcceptedOf(s) /\ ParkedOf(s)' = ParkedOf(s)
         /\ InHand(s)' = InHand(s)
    BY <1>2, <1>5, SameParts
  <1>12. AcceptedOf(s) = <<>> /\ InHand(s) = 0
    <2>1. AcceptedLen(s) = 0 /\ InHand(s) = 0
      <3>1. eventRef[s] \in Nat /\ ~(eventRef[s] > 0)
        BY <1>1, HandsSplit DEF Outstanding
      <3>2. eventRef[s] = 0 => AcceptedLen(s) = 0 /\ InHand(s) = 0
        BY HandsSplit
      <3> QED
        BY <3>1, <3>2
    <2>2. SubSeq(eventList[s], 1, 0) = <<>>
      BY CutAll DEF TypeOK, StageTypes
    <2> QED
      BY <2>1, <2>2 DEF AcceptedOf
  <1> QED
    BY <1>8, <1>10, <1>11, <1>12, ViewClose

-----------------------------------------------------------------------------
LEMMA AddsSeen ==
    ASSUME TypeOK, Balanced,
           \/ \E w \in Workers : \/ \E s \in Stages : Forward(w, s)
                                 \/ DoneReschedule(w)
                                 \/ \E e \in Events, s \in Stages : Spawn(w, e, s)
           \/ \E p \in Producers, e \in Events, s \in Stages : Produce(p, e, s)
           \/ \E r \in Reapers : GenKillEvent(r)
    PROVE  Promise!Next
  <1>1. CASE \E w \in Workers : DoneReschedule(w) \/ \E s \in Stages : Forward(w, s)
    <2>1. PICK w \in Workers : DoneReschedule(w) \/ \E s \in Stages : Forward(w, s)
      BY <1>1
    <2>2. w \in Procs /\ pc[w] = "handle" /\ UNCHANGED runStage
      BY <2>1 DEF Forward, DoneReschedule, Procs
    <2>3. PICK e \in Events : e = event[w]
      BY <2>2 DEF TypeOK, ThreadTypes, Fits
    <2>4. PICK s \in Stages : AddEvent(w, s, e, "release")
      <3>1. CASE DoneReschedule(w)
        <4>1. Head(compCB[e]) \in Stages
          BY <2>3, <3>1 DEF DoneReschedule, TypeOK, StageTypes
        <4> QED
          BY <2>3, <3>1, <4>1 DEF DoneReschedule
      <3>2. CASE \E s \in Stages : Forward(w, s)
        BY <2>3, <3>2 DEF Forward
      <3> QED
        BY <2>1, <3>1, <3>2
    <2> QED
      BY <2>2, <2>4, AddSeen DEF AllStages, Away
  <1>2. CASE \E w \in Workers, e \in Events, s \in Stages : Spawn(w, e, s)
    <2>1. PICK w \in Workers, e \in Events, s \in Stages : Spawn(w, e, s)
      BY <1>2
    <2>2. /\ w \in Procs /\ pc[w] = "handle" /\ UNCHANGED runStage
          /\ AddEvent(w, s, e, "handle")
      BY <2>1 DEF Spawn, Procs, handVars
    <2> QED
      BY <2>2, AddSeen DEF AllStages, Away
  <1>3. CASE \E p \in Producers, e \in Events, s \in Stages : Produce(p, e, s)
    <2>1. PICK p \in Producers, e \in Events, s \in Stages : Produce(p, e, s)
      BY <1>3
    <2>2. /\ p \in Procs /\ pc[p] = "idle" /\ UNCHANGED runStage
          /\ AddEvent(p, s, e, "idle")
      BY <2>1 DEF Produce, Procs, handVars
    <2> QED
      BY <2>2, AddSeen DEF AllStages, Away
  <1>4. CASE \E r \in Reapers : GenKillEvent(r)
    <2>1. PICK r \in Reapers : GenKillEvent(r)
      BY <1>4
    <2>2. /\ r \in Procs /\ pc[r] = "gen" /\ UNCHANGED runStage
          /\ AddEvent(r, Killer, KillEvent, "gen")
      BY <2>1 DEF GenKillEvent, Procs, handVars
    <2> QED
      BY <2>2, AddSeen DEF AllStages, Away
  <1> QED
    BY <1>1, <1>2, <1>3, <1>4

LEMMA OpensSeen ==
    ASSUME TypeOK, Balanced, Controlled, Reaped,
           \/ \E c \in Controllers, s \in Stages : Connect(c, s)
           \/ \E r \in Reapers, n \in KillSizes : BeginKill(r, n)
    PROVE  Promise!Next
  <1>1. CASE \E c \in Controllers, s \in Stages : Connect(c, s)
    <2>1. PICK c \in Controllers, s \in Stages : Connect(c, s)
      BY <1>1
    <2>2. /\ pc[c] = "idle" /\ ~connected[s] /\ s \in AllStages
          /\ target' = [target EXCEPT ![c] = s]
          /\ connected' = [connected EXCEPT ![s] = TRUE]
          /\ eventRef' = [eventRef EXCEPT ![s] = Len(eventList[s])]
          /\ UNCHANGED <<eventList, runStage>>
      BY <2>1 DEF Connect, RefAtConnect, handVars, AllStages
    <2>3. \E at : at \notin Away /\ pc' = [pc EXCEPT ![c] = at]
      BY <2>1 DEF Connect, Away
    <2>4. \A q \in Controllers \cup Reapers : ~Leaving(q, s)
      BY <2>1, OneLeaver DEF Connect, Leaving
    <2>5. eventRef[s] = 0
      BY <2>2, <2>4 DEF Controlled
    <2>6. c \in Procs \ Workers /\ pc[c] \notin Away
      BY <2>2, ThreadsAssumption DEF Procs, Away
    <2> QED
      BY <2>2, <2>3, <2>4, <2>5, <2>6, OpenSeen
  <1>2. CASE \E r \in Reapers, n \in KillSizes : BeginKill(r, n)
    <2>1. PICK r \in Reapers, n \in KillSizes : BeginKill(r, n)
      BY <1>2
    <2>2. /\ pc[r] = "idle" /\ ~connected[Killer] /\ Killer \in AllStages
          /\ threadMutex = Nil /\ target' = target
          /\ connected' = [connected EXCEPT ![Killer] = TRUE]
          /\ eventRef' = [eventRef EXCEPT ![Killer] = Len(eventList[Killer])]
          /\ UNCHANGED <<eventList, runStage>>
          /\ pc' = [pc EXCEPT ![r] = "gen"]
      BY <2>1 DEF BeginKill, handVars, callVars, AllStages
    <2>3. \A q \in Controllers \cup Reapers : ~Leaving(q, Killer)
      BY <2>2, OneLeaver, ThreadsAssumption DEF Procs
    <2>4. eventRef[Killer] = 0
      BY <2>2, <2>3 DEF Reaped
    <2>5. r \in Procs \ Workers /\ pc[r] \notin Away /\ "gen" \notin Away
      BY <2>2, ThreadsAssumption DEF Procs, Away
    <2> QED
      BY <2>2, <2>3, <2>4, <2>5, OpenSeen
  <1> QED
    BY <1>1, <1>2

LEMMA ClosesSeen ==
    ASSUME TypeOK, Balanced, Controlled, Reaped,
           \/ \E c \in Controllers, s \in Stages : Disconnect(c, s)
           \/ \E r \in Reapers : DisconnectKiller(r)
    PROVE  Promise!Next
  <1>1. CASE \E c \in Controllers, s \in Stages : Disconnect(c, s)
    <2>1. PICK c \in Controllers, s \in Stages : Disconnect(c, s)
      BY <1>1
    <2>2. /\ pc[c] = "idle" /\ connected[s] /\ s \in AllStages
          /\ target' = [target EXCEPT ![c] = s]
          /\ connected' = [connected EXCEPT ![s] = FALSE]
          /\ UNCHANGED <<eventList, eventRef, runStage>>
          /\ pc' = [pc EXCEPT ![c] = IF Outstanding(s) THEN "discwait" ELSE "idle"]
      BY <2>1 DEF Disconnect, handVars, AllStages
    <2> QED
      BY <2>2, CloseSeen DEF Away
  <1>2. CASE \E r \in Reapers : DisconnectKiller(r)
    <2>1. PICK r \in Reapers : DisconnectKiller(r)
      BY <1>2
    <2>2. /\ pc[r] = "killwoken" /\ Killer \in AllStages
          /\ target' = [target EXCEPT ![r] = Killer]
          /\ connected' = [connected EXCEPT ![Killer] = FALSE]
          /\ UNCHANGED <<eventList, eventRef, runStage>>
          /\ pc' = [pc EXCEPT ![r] = IF Outstanding(Killer) THEN "discwait" ELSE "idle"]
      BY <2>1 DEF DisconnectKiller, handVars, AllStages
    <2>3. connected[Killer]
      BY <2>2 DEF Reaped, Killing
    <2> QED
      BY <2>2, <2>3, CloseSeen DEF Away
  <1> QED
    BY <1>1, <1>2

LEMMA PromiseStep ==
    ASSUME TypeOK, RefInv, [Next]_vars
    PROVE  [Promise!Next]_(Promise!vars)
  <1>0. Balanced /\ Controlled /\ Reaped
    BY DEF RefInv
  <1>1. CASE \/ \E w \in Workers : \/ \E s \in Stages : Forward(w, s)
                                   \/ DoneReschedule(w)
                                   \/ \E e \in Events, s \in Stages : Spawn(w, e, s)
             \/ \E p \in Producers, e \in Events, s \in Stages : Produce(p, e, s)
             \/ \E r \in Reapers : GenKillEvent(r)
    BY <1>0, <1>1, AddsSeen
  <1>2. CASE \E w \in Workers : RemoveEvent(w) \/ ReleaseEvent(w) \/ ThreadExit(w)
    BY <1>0, <1>2, RemoveSeen, ReleaseSeen
  <1>3. CASE \/ \E c \in Controllers, s \in Stages : Connect(c, s)
             \/ \E r \in Reapers, n \in KillSizes : BeginKill(r, n)
    BY <1>0, <1>3, OpensSeen
  <1>4. CASE \/ \E c \in Controllers, s \in Stages : Disconnect(c, s)
             \/ \E r \in Reapers : DisconnectKiller(r)
    BY <1>0, <1>4, ClosesSeen
  <1>5. CASE \E p \in Controllers \cup Reapers : SpuriousDiscWake(p) \/ DisconnectResume(p)
    BY <1>0, <1>5, DiscWakeUnseen, ClosedSeen
  <1>6. CASE \/ \E p \in Procs : Schedule(p)
             \/ \E w \in Workers : \/ Sleep(w) \/ SpuriousRunWake(w) \/ PopStage(w)
                                   \/ DoneDelete(w) \/ ThreadKill(w)
             \/ \E r \in Reapers : \/ \E W \in SUBSET Workers : AddThreads(r, W)
                                   \/ AbortKill(r) \/ AwaitKills(r) \/ SpuriousKillWake(r)
    BY <1>6, ScheduleUnseen, WorkerUnseen, VictimUnseen, ReaperUnseen
  <1>7. CASE UNCHANGED vars
    <2>1. UNCHANGED <<eventList, connected, eventRef, pc, runStage, target>>
      BY <1>7 DEF vars
    <2>2. UNCHANGED stageVars
      BY <2>1 DEF stageVars
    <2>3. \A s \in AllStages : At(s)' = At(s)
      BY <2>1, SameAt
    <2>4. \A s : \A q \in Controllers \cup Reapers : Leaving(q, s)' <=> Leaving(q, s)
      BY <2>1 DEF Leaving
    <2> QED
      BY <2>2, <2>3, <2>4, Unseen
  <1> QED
    BY <1>1, <1>2, <1>3, <1>4, <1>5, <1>6, <1>7
       DEF Next, WorkerStep, Handler, ControlStep, ReaperStep

LEMMA PromiseInit == Init => Promise!Init
  <1> SUFFICES ASSUME Init PROVE Promise!Init
    OBVIOUS
  <1>1. \A s \in AllStages :
          /\ eventList[s] = <<>> /\ eventRef[s] = 0 /\ ~connected[s]
          /\ \A p \in Procs : ~Leaving(p, s)
          /\ At(s) = {}
    <2>1. \A s \in AllStages : s # Nil
      BY ThreadsAssumption
    <2> QED
      BY <2>1 DEF Init, Leaving, At, Serving
  <1>2. \A s \in AllStages : PhaseOf(s) = "closed"
    BY <1>1 DEF PhaseOf, Procs
  <1>3. \A s \in AllStages : InHand(s) = 0 /\ AcceptedLen(s) = 0
    <2>1. \A s \in AllStages : InHand(s) = 0
      BY <1>1, FS_EmptySet DEF InHand, At
    <2> QED
      BY <1>1, <2>1 DEF AcceptedLen
  <1>4. \A s \in AllStages : AcceptedOf(s) = <<>> /\ ParkedOf(s) = <<>>
    <2>1. Len(<<>>) = 0 /\ SubSeq(<<>>, 1, 0) = <<>>
      OBVIOUS
    <2>2. \A s \in AllStages : eventList[s] = <<>> /\ AcceptedLen(s) = 0
      BY <1>1, <1>3
    <2>3. \A s \in AllStages : AcceptedLen(s) + 1 = 1
      BY <2>2
    <2> QED
      BY <2>1, <2>2, <2>3 DEF AcceptedOf, ParkedOf
  <1> QED
    BY <1>2, <1>3, <1>4 DEF Promise!Init

(* Stage and Threadpool keep the promise of StagePromise: events are       *)
(* handed to handlers in the order of addEvent, one added to a stage that  *)
(* is not connected waits for the next connect, and disconnect returns     *)
(* only when every accepted event has been handled, whatever the number of *)
(* stages and threads and however the pool is resized meanwhile.           *)
THEOREM StageKeepsPromise == Spec => KeepsPromise
  <1>1. TypeOK /\ RefInv /\ [Next]_vars => [Promise!Next]_(Promise!vars)
    BY PromiseStep
  <1> QED
    BY <1>1, PromiseInit, RefInvariant, TypeCorrect, PTL
       DEF Spec, KeepsPromise, Promise!Spec
=============================================================================
