----------------------------- MODULE SedaStats ------------------------------
(***************************************************************************)
(* The collection of statistics: objects that measure (SedaStats) send     *)
(* what they have measured to the one SedaStatsStage, through a static     *)
(* pointer and guarded by static flags, while the stage is made, stopped   *)
(* and deleted again, and while a manager enables, disables and clears     *)
(* categories.                                                             *)
(*                                                                         *)
(* A measurement is on its own way to the stage: in its queue, "late" when *)
(* nobody is to handle it, "queued", and "taken" by a pool thread.         *)
(* Identifiers that are numbers and those that are strings are alike.  All *)
(* is ALL_CATEGORY, number 0: it has flags like every category, a manager  *)
(* means all by it, and what is measured under it is not stored; the same  *)
(* goes for numbers that are too great.                                    *)
(* Integers keep their width: 2^64 is TimeWords and CounterWords here.     *)
(***************************************************************************)
EXTENDS Integers, FiniteSets

CONSTANTS
    Measurements,       \* SedaStats objects, each used once
    Categories,         \* those that are stored
    Ids,
    Measured,           \* the categories in which something is measured, All included
    Times, Counts,      \* what may be measured
    TimeWords, CounterWords,
    MaxMakes,           \* bound: how often the stage is made
    All, None

ASSUME StatsAssumption ==
    /\ Times \subseteq 0..(TimeWords - 1) /\ Counts \subseteq Int
    /\ TimeWords \in Nat \ {0} /\ CounterWords \in Nat \ {0} /\ MaxMakes \in Nat
    /\ All \notin Categories \cup Ids /\ Measured \subseteq Categories \cup {All}
    /\ Measurements \cap {"remove", "clear", "dump"} = {}

VARIABLES
    collectEnabled,
    externalCategoryEnableMap,
    internalCategoryEnableMap,
    theStatsCollectionStage,   \* whether the static pointer is set
    stage,                     \* the object: "none", "made", "connected", "stopping", ..., "dead"
    categoryMap,               \* of the stage: the stores of a category, by identifier
    place,                     \* where a measurement is
    event,                     \* what it carries
    call,                      \* the manager's call: its next step, and which stage it has read
    crashed,                   \* history: who has used a null pointer, or a deleted stage
    makes                      \* how often the stage has been made

flagVars == <<collectEnabled, externalCategoryEnableMap, internalCategoryEnableMap>>
stageVars == <<theStatsCollectionStage, stage, makes>>
measureVars == <<place, event>>
vars == <<flagVars, stageVars, categoryMap, measureVars, call, crashed>>

Flags == Categories \cup {All}
Events ==
    [category : Measured, id : Ids, persistent : BOOLEAN, enabled : BOOLEAN,
     hasTime : BOOLEAN]

Init ==
    /\ collectEnabled = FALSE /\ externalCategoryEnableMap = {}
    /\ internalCategoryEnableMap = {}
    /\ theStatsCollectionStage = FALSE /\ stage = "none" /\ makes = 0
    /\ categoryMap = <<>>
    /\ place = [m \in Measurements |-> "none"]
    /\ event = [m \in Measurements |-> None]
    /\ call = None /\ crashed = {}

-----------------------------------------------------------------------------
(* SedaStatsStage::isCategoryEnabled.                                      *)
IsCategoryEnabled(c) ==
    collectEnabled /\ c \in externalCategoryEnableMap \cup internalCategoryEnableMap

(* makeStage: the constructor sets the pointer, setProperties the flags;   *)
(* those of an earlier stage are left as they are.                         *)
MakeStage ==
    /\ stage \in {"none", "dead"} /\ makes < MaxMakes
    /\ stage' = "made" /\ theStatsCollectionStage' = TRUE /\ makes' = makes + 1
    /\ categoryMap' = <<>>
    /\ UNCHANGED <<flagVars, measureVars, call, crashed>>

SetProperties ==
    /\ stage = "made" /\ ~collectEnabled
    /\ collectEnabled' = TRUE /\ externalCategoryEnableMap' = Flags
    /\ UNCHANGED <<internalCategoryEnableMap, stageVars, categoryMap, measureVars, call,
                   crashed>>

(* Stage::connect schedules what is there; Stage::disconnect waits for the *)
(* events that are scheduled: one that comes later stays in the queue.     *)
Connect ==
    /\ stage = "made" /\ stage' = "connected"
    /\ place' = [m \in Measurements |-> IF place[m] = "late" THEN "queued" ELSE place[m]]
    /\ UNCHANGED <<flagVars, theStatsCollectionStage, makes, categoryMap, event, call,
                   crashed>>

Disconnect ==
    /\ stage = "connected" /\ stage' = "stopping"
    /\ UNCHANGED <<flagVars, theStatsCollectionStage, makes, categoryMap, measureVars,
                   call, crashed>>

Disconnected ==
    /\ stage = "stopping" /\ stage' = "disconnected"
    /\ \A m \in Measurements : place[m] \notin {"queued", "taken"}
    /\ UNCHANGED <<flagVars, theStatsCollectionStage, makes, categoryMap, measureVars,
                   call, crashed>>

(* The destructor clears collectEnabled, then the pointer, and deletes the *)
(* stores; Stage::~Stage deletes the events that have come too late.       *)
DisableCollect ==
    /\ stage = "disconnected" /\ stage' = "dying" /\ collectEnabled' = FALSE
    /\ UNCHANGED <<externalCategoryEnableMap, internalCategoryEnableMap,
                   theStatsCollectionStage, makes, categoryMap, measureVars, call, crashed>>

(* Mutant: the pointer is cleared when everything is deleted.              *)
PointerFirstNot == TRUE
PointerFirst == ~theStatsCollectionStage
ClearPointer ==
    /\ stage \in {"dying", "dead"} /\ theStatsCollectionStage
    /\ theStatsCollectionStage' = FALSE
    /\ UNCHANGED <<flagVars, stage, makes, categoryMap, measureVars, call, crashed>>

DeleteStage ==
    /\ stage = "dying" /\ PointerFirst
    /\ stage' = "dead" /\ categoryMap' = <<>>
    /\ place' = [m \in Measurements |-> IF place[m] = "late" THEN "done" ELSE place[m]]
    /\ event' = [m \in Measurements |-> IF place[m] = "late" THEN None ELSE event[m]]
    /\ UNCHANGED <<flagVars, theStatsCollectionStage, makes, call, crashed>>

-----------------------------------------------------------------------------
(* A SedaStats object notes whether it is enabled when it is made, ...     *)
Measure(m, c, id, persistent) ==
    /\ place[m] = "none"
    /\ place' = [place EXCEPT ![m] = "measuring"]
    /\ event' = [event EXCEPT ![m] =
                   [category |-> c, id |-> id, persistent |-> persistent,
                    enabled |-> IsCategoryEnabled(c) \/ persistent, hasTime |-> TRUE]]
    /\ UNCHANGED <<flagVars, stageVars, categoryMap, call, crashed>>

(* ... may be abandoned, and sends an event when it is destroyed, if it is *)
(* still enabled.  What it carries is chosen when it is stored: nothing    *)
(* looks at it before.                                                     *)
StillEnabled(e) == e.enabled /\ (IsCategoryEnabled(e.category) \/ e.persistent)
EndMeasure(m) ==
    /\ place[m] = "measuring" /\ StillEnabled(event[m])
    /\ place' = [place EXCEPT ![m] = "sending"]
    /\ UNCHANGED <<flagVars, stageVars, categoryMap, event, call, crashed>>

(* abandon, or an end that finds it disabled: no event.                    *)
Abandon(m) ==
    /\ place[m] = "measuring"
    /\ place' = [place EXCEPT ![m] = "done"] /\ event' = [event EXCEPT ![m] = None]
    /\ UNCHANGED <<flagVars, stageVars, categoryMap, call, crashed>>

(* SedaStats::recordCount: a count without a time.                         *)
RecordCount(m, c, id, persistent) ==
    /\ place[m] = "none" /\ (IsCategoryEnabled(c) \/ persistent)
    /\ place' = [place EXCEPT ![m] = "sending"]
    /\ event' = [event EXCEPT ![m] =
                   [category |-> c, id |-> id, persistent |-> persistent, enabled |-> TRUE,
                    hasTime |-> FALSE]]
    /\ UNCHANGED <<flagVars, stageVars, categoryMap, call, crashed>>

(* SedaStatsStage::addStatsEvent, under sedaStageLock.                     *)
AddStatsEvent(m) ==
    /\ place[m] = "sending"
    /\ IF theStatsCollectionStage /\ stage # "dead"
         THEN place' = [place EXCEPT ![m] = IF stage = "connected" THEN "queued" ELSE "late"]
                /\ UNCHANGED crashed
         ELSE place' = [place EXCEPT ![m] = "lost"]
                /\ crashed' = crashed \cup {<<m, theStatsCollectionStage>>}
    /\ UNCHANGED <<flagVars, stageVars, categoryMap, event, call>>

Take(m) ==
    /\ place[m] = "queued"
    /\ place' = [place EXCEPT ![m] = "taken"]
    /\ UNCHANGED <<flagVars, stageVars, categoryMap, event, call, crashed>>

-----------------------------------------------------------------------------
(* SedaStatsStore: times, of which the last numEffective make up total,    *)
(* and counts.                                                             *)
EmptyStore(persistent) ==
    [total |-> 0, numEffective |-> 0, num |-> 0, max |-> 0, min |-> 0,
     totalCounter |-> 0, counterCount |-> 0,
     avgIncrement |-> 0, minIncrement |-> 0, maxIncrement |-> 0,
     persistent |-> persistent]

(* A total that overflows begins again.                                    *)
(* Mutant: it wraps around.                                                *)
AddedTimeWrapped(s, t) == <<(s.total + t) % TimeWords, s.numEffective + 1>>
AddedTime(s, t) ==
    IF (s.total + t) % TimeWords < s.total THEN <<t, 1>>
    ELSE <<s.total + t, s.numEffective + 1>>

IncTotalTime(s, t) ==
    [s EXCEPT !.total = AddedTime(s, t)[1], !.numEffective = AddedTime(s, t)[2],
              !.num = @ + 1,
              !.max = IF @ < t THEN t ELSE @,
              !.min = IF s.num = 0 \/ (s.max >= t /\ @ > t) THEN t ELSE @]

GetAvgTime(s) == IF s.numEffective > 0 THEN s.total \div s.numEffective ELSE 0

(* The signed total divided by an unsigned count, as an unsigned number.   *)
Signed(u) == IF 2 * u >= CounterWords THEN u - CounterWords ELSE u
AvgIncrement(total, n) == Signed((total % CounterWords) \div n)

IncCounter(s, c) ==
    [s EXCEPT !.totalCounter = @ + c, !.counterCount = @ + 1,
              !.avgIncrement = AvgIncrement(s.totalCounter + c, s.counterCount + 1),
              !.minIncrement = IF s.counterCount = 0 \/ c < @ THEN c ELSE @,
              !.maxIncrement = IF s.counterCount = 0 \/ c > @ THEN c ELSE @]

ResetCounter(s, c) ==
    [s EXCEPT !.totalCounter = c, !.counterCount = 1, !.avgIncrement = c,
              !.minIncrement = c, !.maxIncrement = c]

(* SedaStatsMapStoreStats: what may become of a store, by an event with a  *)
(* time and possibly a count to add or to set, or by a recorded count.     *)
Stored(s, e) ==
    IF ~e.hasTime THEN {IncCounter(s, n) : n \in Counts}
    ELSE UNION {{timed} \cup UNION {{IncCounter(timed, n), ResetCounter(timed, n)} : n \in Counts}
                 : timed \in {IncTotalTime(s, t) : t \in Times}}

Put(f, x, y) == [z \in DOMAIN f \cup {x} |-> IF z = x THEN y ELSE f[z]]
StoresOf(c) == IF c \in DOMAIN categoryMap THEN categoryMap[c] ELSE <<>>

(* SedaStatsMap and its stores, for an event of a category that is stored. *)
StoreEvent(e) ==
    LET old == StoresOf(e.category)
        s == IF e.id \in DOMAIN old THEN old[e.id] ELSE EmptyStore(e.persistent)
    IN \E new \in Stored(s, e) :
         categoryMap' = Put(categoryMap, e.category, Put(old, e.id, new))

(* The manager's call has statsStoreLock of a stage that is there.         *)
Reaches(n) == n # 0 /\ n = makes /\ stage # "dead"
InUse == call # None /\ call.at = "use" /\ Reaches(call.read)

(* storeStats, under statsStoreLock, whether the category is enabled or    *)
(* not; an event of a category that is not valid is just done.             *)
StoreStats(m) ==
    /\ place[m] = "taken" /\ ~InUse
    /\ IF event[m].category = All THEN UNCHANGED categoryMap ELSE StoreEvent(event[m])
    /\ place' = [place EXCEPT ![m] = "done"] /\ event' = [event EXCEPT ![m] = None]
    /\ UNCHANGED <<flagVars, stageVars, call, crashed>>

-----------------------------------------------------------------------------
(* The manager.  Its calls test the static pointer, read it again, lock    *)
(* statsStoreLock of the object they have read, and use that: the pointer  *)
(* without a lock, and the lock is none the destructor takes.              *)
Chosen(c) == IF c = All THEN Flags ELSE {c}
Called(op, c, id) ==
    call' = [op |-> op, categories |-> Chosen(c), id |-> id, at |-> "test", read |-> 0]

EnableCategory(c) ==
    /\ call = None
    /\ internalCategoryEnableMap' = internalCategoryEnableMap \cup Chosen(c)
    /\ UNCHANGED <<collectEnabled, externalCategoryEnableMap, stageVars, categoryMap,
                   measureVars, call, crashed>>

DisableCategory(c) ==
    /\ call = None
    /\ internalCategoryEnableMap' = internalCategoryEnableMap \ Chosen(c)
    /\ Called("remove", c, All)
    /\ UNCHANGED <<collectEnabled, externalCategoryEnableMap, stageVars, categoryMap,
                   measureVars, crashed>>

ClearStats(c, id) ==
    /\ call = None /\ Called("clear", c, id)
    /\ UNCHANGED <<flagVars, stageVars, categoryMap, measureVars, crashed>>

(* Which stores a dump names makes no difference to anybody's state.       *)
DumpStats ==
    /\ call = None /\ Called("dump", All, All)
    /\ UNCHANGED <<flagVars, stageVars, categoryMap, measureVars, crashed>>

(* NULL != theStatsCollectionStage(), ...                                  *)
TestPointer ==
    /\ call # None /\ call.at = "test"
    /\ call' = IF theStatsCollectionStage THEN [call EXCEPT !.at = "read"] ELSE None
    /\ UNCHANGED <<flagVars, stageVars, categoryMap, measureVars, crashed>>

(* ... theStatsCollectionStage() once more: the number of the stage it     *)
(* points to by now, or 0 for a null pointer, ...                          *)
ReadPointer ==
    /\ call # None /\ call.at = "read"
    /\ call' = [call EXCEPT !.at = "lock", !.read = IF theStatsCollectionStage THEN makes ELSE 0]
    /\ UNCHANGED <<flagVars, stageVars, categoryMap, measureVars, crashed>>

(* ... and MUTEX_LOCK of its statsStoreLock.                               *)
LockStores ==
    /\ call # None /\ call.at = "lock" /\ Reaches(call.read)
    /\ call' = [call EXCEPT !.at = "use"]
    /\ UNCHANGED <<flagVars, stageVars, categoryMap, measureVars, crashed>>

Without(f, S) == [x \in DOMAIN f \ S |-> f[x]]
Disabled(cs) == {c \in cs : ~IsCategoryEnabled(c)}

(* _removeCategory: what is not enabled goes, persistent or not.           *)
RemoveCategory ==
    /\ InUse /\ call.op = "remove"
    /\ categoryMap' = Without(categoryMap, Disabled(call.categories))
    /\ call' = None
    /\ UNCHANGED <<flagVars, stageVars, measureVars, crashed>>

(* SedaStatsMapClearStats: the stores named by id are reset or, when their *)
(* category is not enabled, deleted; those that are persistent are kept.   *)
(* Mutant: persistent stores are cleared as well.                          *)
KeptNone(s) == FALSE
Kept(s) == s.persistent
Cleared(stores, id, rmFlag) ==
    LET named == {i \in DOMAIN stores : id \in {All, i} /\ ~Kept(stores[i])}
    IN IF rmFlag THEN Without(stores, named)
       ELSE [i \in DOMAIN stores |->
               IF i \in named THEN EmptyStore(stores[i].persistent) ELSE stores[i]]

(* _clearStats: all of a category that is not enabled goes at once.        *)
ClearChosen ==
    LET cs == call.categories
        gone == IF call.id = All THEN Disabled(cs) ELSE {}
    IN /\ InUse /\ call.op = "clear"
       /\ categoryMap' =
            [c \in DOMAIN categoryMap \ gone |->
               IF c \in cs THEN Cleared(categoryMap[c], call.id, c \in Disabled(cs))
                           ELSE categoryMap[c]]
       /\ call' = None
       /\ UNCHANGED <<flagVars, stageVars, measureVars, crashed>>

(* _dumpStats: what is reported of the stores named, one row each; the     *)
(* counts are there if any has come.                                       *)
DumpStore(s) ==
    [avgTime |-> GetAvgTime(s), maxTime |-> s.max, minTime |-> s.min, numStats |-> s.num,
     isCounter |-> s.counterCount > 0,
     totalCounter |-> s.totalCounter, avgCounter |-> s.avgIncrement,
     maxCounter |-> s.maxIncrement, minCounter |-> s.minIncrement]

RowsOf(stores, id) == {DumpStore(stores[i]) : i \in {j \in DOMAIN stores : id \in {All, j}}}

Dump(cs, id) == UNION {RowsOf(categoryMap[c], id) : c \in cs \cap DOMAIN categoryMap}

Dumped ==
    /\ InUse /\ call.op = "dump" /\ call' = None
    /\ UNCHANGED <<flagVars, stageVars, categoryMap, measureVars, crashed>>

(* What the call has read is null, or a stage that has been deleted since, *)
(* also while the call was using it.                                       *)
CallOnDead ==
    /\ call # None /\ call.at \in {"lock", "use"} /\ ~Reaches(call.read)
    /\ crashed' = crashed \cup {<<call.op, call.read # 0>>}
    /\ call' = None
    /\ UNCHANGED <<flagVars, stageVars, categoryMap, measureVars>>

-----------------------------------------------------------------------------
(* A program that has used a null pointer or a deleted object has ended.   *)
Crashed == crashed # {} /\ UNCHANGED vars

StageStep ==
    \/ MakeStage \/ SetProperties \/ Connect \/ Disconnect \/ Disconnected
    \/ DisableCollect \/ ClearPointer \/ DeleteStage

MeasureStep(m) ==
    \/ \E c \in Measured, id \in Ids, p \in BOOLEAN :
         Measure(m, c, id, p) \/ RecordCount(m, c, id, p)
    \/ EndMeasure(m) \/ Abandon(m) \/ AddStatsEvent(m) \/ Take(m) \/ StoreStats(m)

ManagerStep ==
    \/ \E c \in Flags :
         \/ EnableCategory(c) \/ DisableCategory(c)
         \/ \E id \in Ids \cup {All} : ClearStats(c, id)
    \/ DumpStats
    \/ TestPointer \/ ReadPointer \/ LockStores
    \/ RemoveCategory \/ ClearChosen \/ Dumped \/ CallOnDead

Next ==
    \/ crashed = {} /\ (StageStep \/ ManagerStep \/ \E m \in Measurements : MeasureStep(m))
    \/ Crashed

Spec == Init /\ [][Next]_vars

-----------------------------------------------------------------------------
TypeOK ==
    /\ collectEnabled \in BOOLEAN
    /\ externalCategoryEnableMap \subseteq Flags /\ internalCategoryEnableMap \subseteq Flags
    /\ theStatsCollectionStage \in BOOLEAN
    /\ stage \in {"none", "made", "connected", "stopping", "disconnected",
                 "dying", "dead"}
    /\ DOMAIN categoryMap \subseteq Categories
    /\ \A c \in DOMAIN categoryMap : DOMAIN categoryMap[c] \subseteq Ids
    /\ place \in [Measurements -> {"none", "measuring", "sending", "late", "queued",
                                    "taken", "done", "lost"}]
    /\ event \in [Measurements -> Events \cup {None}]
    /\ makes \in 0..MaxMakes

(* What a dump reports at any time is possible: an average lies between    *)
(* the least and the greatest value, also when the total of the times has  *)
(* overflowed (sedastatsstage.h, incTotalTime) or the counter has been set *)
(* in between.  Counters whose total is negative are left out: the code    *)
(* divides that total as an unsigned number.  The types are checked along. *)
AverageInRange ==
    /\ TypeOK
    /\ \A row \in Dump(Categories, All) :
         /\ row.numStats > 0 => row.avgTime \in row.minTime..row.maxTime
         /\ row.isCounter /\ row.totalCounter >= 0 =>
              row.avgCounter \in row.minCounter..row.maxCounter

(* A measurement is sent to a stage that exists: nothing is ever added to  *)
(* a deleted stage, and only what is persistent, or has outlived a stage,  *)
(* finds the pointer null ("Make sure no one tries to send events",        *)
(* ~SedaStatsStage, and the flags read without a lock).  The manager's     *)
(* calls are not among this: they may use a null pointer or a deleted      *)
(* stage.                                                                  *)
SentToLivingStage ==
    \A x \in crashed : x[1] \in Measurements =>
        /\ x[2] = FALSE
        /\ event[x[1]].persistent \/ stage \in {"dying", "dead"}

(* What is in a store is added to: more times, with a maximum and a        *)
(* minimum that go apart, and more counts, or one count in place of all,   *)
(* which comes with a time (SedaStats::resetCount).                        *)
TimesKept(old, new) ==
    /\ old.num <= new.num /\ old.max <= new.max
    /\ old.num > 0 => new.min <= old.min
    /\ new.num = old.num => new.total = old.total /\ new.numEffective = old.numEffective
CountsKept(old, new) ==
    /\ old.counterCount <= new.counterCount
    /\ old.counterCount > 0 =>
         new.minIncrement <= old.minIncrement /\ old.maxIncrement <= new.maxIncrement
    /\ new.counterCount = old.counterCount => new.totalCounter = old.totalCounter
CountSet(old, new) ==
    /\ old.num < new.num /\ new.counterCount = 1
    /\ new.minIncrement = new.totalCounter /\ new.maxIncrement = new.totalCounter
Grows(old, new) == TimesKept(old, new) /\ (CountsKept(old, new) \/ CountSet(old, new))

(* A measurement of the statistic is being stored.                         *)
MeasuredNow(c, i) ==
    \E m \in Measurements : /\ place[m] = "taken" /\ place'[m] = "done"
                           /\ event[m].category = c /\ event[m].id = i

(* A persistent statistic of an enabled category is never removed, and     *)
(* changes only when a measurement of its own is stored, which adds to it: *)
(* whatever is cleared, disabled, reported or stored elsewhere meanwhile   *)
(* ("the user does not wish to have the stat cleared", sedastatsstage.h).  *)
(* Its count may be set by a measurement, although sedastats.h makes       *)
(* persistent a matter of what resetCount may do, and it is removed with a *)
(* category that is not enabled: the code is taken as it is in both.       *)
PersistentKept ==
    [][\A c \in DOMAIN categoryMap : \A i \in DOMAIN categoryMap[c] :
         categoryMap[c][i].persistent /\ IsCategoryEnabled(c) =>
           /\ c \in DOMAIN categoryMap' /\ i \in DOMAIN categoryMap'[c]
           /\ \/ categoryMap'[c][i] = categoryMap[c][i]
              \/ MeasuredNow(c, i) /\ Grows(categoryMap[c][i], categoryMap'[c][i])]_vars
=============================================================================
