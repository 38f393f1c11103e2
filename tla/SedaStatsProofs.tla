---------------------------- MODULE SedaStatsProofs ----------------------------
(***************************************************************************)
(* The collection of statistics, for any number of measurements,           *)
(* categories and stages made after one another.                           *)
(*                                                                         *)
(* That no measurement is added to a deleted stage rests on the order in   *)
(* which the destructor clears flag and pointer (StageLife); that          *)
(* persistent statistics stay, on the same and on what is in the stores;   *)
(* that an average is between the least and the greatest value, on bounds  *)
(* of the totals (TimesOK, CountsOK), which are inductive where the        *)
(* average is not.                                                         *)
(***************************************************************************)
EXTENDS SedaStats, FiniteSetTheorems, TLAPS

Calls ==
    [op : {"remove", "clear", "dump"}, categories : SUBSET Flags, id : Ids \cup {All},
     at : {"test", "read", "lock", "use"}, read : 0..MaxMakes]

(* What a stage that is being deleted still has, and who may use it.       *)
StageLife ==
    /\ stage \in {"none", "dead"} => ~theStatsCollectionStage /\ DOMAIN categoryMap = {}
    /\ stage \notin {"none", "dying", "dead"} => theStatsCollectionStage
    /\ stage \in {"none", "dying", "dead"} => ~collectEnabled
    /\ stage = "none" => makes = 0

(* What a measurement carries on its way.                                  *)
OnItsWay ==
    \A m \in Measurements :
        /\ place[m] \in {"measuring", "sending", "late", "queued", "taken"} =>
             event[m] \in Events
        /\ place[m] \in {"queued", "taken"} => stage \in {"connected", "stopping"}
        /\ stage = "none" /\ place[m] = "sending" => event[m].persistent

Stores ==
    [total : Nat, numEffective : Nat, num : Nat, max : Nat, min : Nat,
     totalCounter : Int, counterCount : Nat,
     avgIncrement : Int, minIncrement : Int, maxIncrement : Int,
     persistent : BOOLEAN]

TimesOK(s) ==
    /\ s.total < TimeWords
    /\ s.num > 0 <=> s.numEffective > 0
    /\ s.numEffective * s.min <= s.total /\ s.total <= s.numEffective * s.max
    /\ s.min <= s.max

CountsOK(s) ==
    /\ s.counterCount > 0 => s.minIncrement \in Counts /\ s.maxIncrement \in Counts
    /\ s.counterCount * s.minIncrement <= s.totalCounter
    /\ s.totalCounter <= s.counterCount * s.maxIncrement

StoreOK(s) == s \in Stores /\ TimesOK(s) /\ CountsOK(s)

StoresOK ==
    \A c \in DOMAIN categoryMap : \A i \in DOMAIN categoryMap[c] : StoreOK(categoryMap[c][i])

CallOK == call # None => call \in Calls

StatsInv ==
    TypeOK /\ CallOK /\ StageLife /\ OnItsWay /\ StoresOK /\ SentToLivingStage

(* The counts of all measurements fit in the words of a counter.           *)
CountsFit ==
    /\ IsFiniteSet(Measurements)
    /\ \A n \in Counts : 2 * n < CounterWords /\ n * Cardinality(Measurements) < CounterWords

(* A store has no more counts than measurements have been stored, and its  *)
(* average is that of counts that fit.                                     *)
Finished == {m \in Measurements : place[m] = "done"}
AverageOK(s, finished) ==
    /\ s.counterCount <= finished
    /\ s.counterCount > 0 /\ s.totalCounter >= 0 =>
         s.avgIncrement \in s.minIncrement..s.maxIncrement
AveragesOK ==
    \A c \in DOMAIN categoryMap : \A i \in DOMAIN categoryMap[c] :
        AverageOK(categoryMap[c][i], Cardinality(Finished))

-----------------------------------------------------------------------------
(* Arithmetic.                                                             *)

LEMMA Division ==
    ASSUME NEW t \in Nat, NEW n \in Nat, n > 0
    PROVE  /\ t \div n \in Nat
           /\ \E r \in 0..(n - 1) : t = n * (t \div n) + r
  <1>1. t % n \in 0..(n - 1) /\ t = n * (t \div n) + (t % n) /\ t \div n \in Int
    OBVIOUS
  <1>2. t \div n >= 0
    OBVIOUS
  <1> QED
    BY <1>1, <1>2

LEMMA Monotone ==
    ASSUME NEW n \in Nat, NEW a \in Int, NEW b \in Int, a <= b
    PROVE  n * a <= n * b
  <1>1. n * (b - a) >= 0
    OBVIOUS
  <1>2. n * (b - a) = n * b - n * a
    OBVIOUS
  <1> QED
    BY <1>1, <1>2

LEMMA Successor ==
    ASSUME NEW n \in Nat, NEW a \in Int
    PROVE  (n + 1) * a = n * a + a /\ n * a \in Int
  OBVIOUS

LEMMA SmallRemainder ==
    ASSUME NEW n \in Nat, NEW x \in 0..(n - 1)
    PROVE  x % n = x
  <1> DEFINE q == x \div n
  <1>1. x \in Nat /\ n > 0 /\ x < n
    OBVIOUS
  <1>2. x % n \in 0..(n - 1) /\ x = n * q + (x % n)
    BY <1>1
  <1>3. q \in Nat
    BY <1>1, Division
  <1> HIDE DEF q
  <1>4. q = 0
    <2> SUFFICES ASSUME 1 <= q PROVE FALSE
      BY <1>3
    <2>1. n * 1 <= n * q
      BY <1>3, Monotone
    <2> QED
      BY <1>1, <1>2, <1>3, <2>1
  <1> QED
    BY <1>2, <1>4

(* An average is where the values are.                                     *)
LEMMA AverageBetween ==
    ASSUME NEW t \in Nat, NEW n \in Nat, n > 0, NEW a \in Int, NEW b \in Int,
           n * a <= t, t <= n * b
    PROVE  t \div n \in a..b
  <1> DEFINE q == t \div n
  <1>1. q \in Nat
    BY Division
  <1>2. PICK r \in 0..(n - 1) : t = n * q + r
    BY Division
  <1> HIDE DEF q
  <1>3. (n * q) \in Int /\ (n * a) \in Int /\ (n * b) \in Int
    BY <1>1
  <1>4. n * (q + 1) = n * q + n /\ n * (b + 1) = n * b + n
    BY <1>1
  <1>5. a <= q
    <2> SUFFICES ASSUME q + 1 <= a PROVE FALSE
      BY <1>1
    <2>1. n * (q + 1) <= n * a
      BY <1>1, Monotone
    <2> QED
      BY <1>2, <1>3, <1>4, <2>1
  <1>6. q <= b
    <2> SUFFICES ASSUME b + 1 <= q PROVE FALSE
      BY <1>1
    <2>1. n * (b + 1) <= n * q
      BY <1>1, Monotone
    <2> QED
      BY <1>2, <1>3, <1>4, <2>1
  <1> QED
    BY <1>1, <1>5, <1>6 DEF q

-----------------------------------------------------------------------------
(* SedaStatsStore.                                                         *)

SameTimes(old, new) ==
    /\ new.total = old.total /\ new.numEffective = old.numEffective
    /\ new.num = old.num /\ new.max = old.max /\ new.min = old.min

LEMMA EmptyStoreOK ==
    ASSUME NEW p \in BOOLEAN
    PROVE  StoreOK(EmptyStore(p)) /\ EmptyStore(p).counterCount = 0
  <1>1. EmptyStore(p) \in Stores
    BY DEF EmptyStore, Stores
  <1>2. TimesOK(EmptyStore(p))
    BY StatsAssumption DEF EmptyStore, TimesOK
  <1>3. CountsOK(EmptyStore(p)) /\ EmptyStore(p).counterCount = 0
    BY DEF EmptyStore, CountsOK
  <1> QED
    BY <1>1, <1>2, <1>3 DEF StoreOK

LEMMA AddedTimes ==
    ASSUME NEW s, StoreOK(s), NEW t \in Times
    PROVE  \/ AddedTime(s, t) = <<t, 1>>
           \/ AddedTime(s, t) = <<s.total + t, s.numEffective + 1>> /\ s.total + t < TimeWords
  <1>1. s.total \in Nat /\ s.total < TimeWords /\ TimeWords \in Nat /\ TimeWords > 0
    BY StatsAssumption DEF StoreOK, Stores, TimesOK
  <1>2. t \in Nat /\ t < TimeWords
    BY StatsAssumption, <1>1
  <1>3. CASE s.total + t < TimeWords
    <2>1. (s.total + t) % TimeWords = s.total + t
      <3>1. s.total + t \in 0..(TimeWords - 1)
        BY <1>1, <1>2, <1>3
      <3> QED
        BY <1>1, <3>1, SmallRemainder
    <2> QED
      BY <1>1, <1>2, <1>3, <2>1 DEF AddedTime
  <1>4. CASE s.total + t >= TimeWords
    <2>1. (s.total + t) % TimeWords = s.total + t - TimeWords
      BY <1>1, <1>2, <1>4
    <2> QED
      BY <1>1, <1>2, <2>1 DEF AddedTime
  <1> QED
    BY <1>1, <1>2, <1>3, <1>4

LEMMA IncTotalTimeOK ==
    ASSUME NEW s, StoreOK(s), NEW t \in Times
    PROVE  /\ StoreOK(IncTotalTime(s, t))
           /\ LET new == IncTotalTime(s, t)
              IN /\ new.persistent = s.persistent /\ TimesKept(s, new) /\ new.num = s.num + 1
                 /\ new.counterCount = s.counterCount /\ new.totalCounter = s.totalCounter
                 /\ new.avgIncrement = s.avgIncrement
                 /\ new.minIncrement = s.minIncrement /\ new.maxIncrement = s.maxIncrement
  <1> DEFINE new == IncTotalTime(s, t)
  <1>1. s \in Stores /\ TimesOK(s) /\ CountsOK(s)
    BY DEF StoreOK
  <1>2. t \in Nat /\ t < TimeWords /\ TimeWords \in Nat
    BY StatsAssumption
  <1>3. /\ new.total = AddedTime(s, t)[1] /\ new.numEffective = AddedTime(s, t)[2]
        /\ new.num = s.num + 1
        /\ new.max = (IF s.max < t THEN t ELSE s.max)
        /\ new.min = (IF s.num = 0 \/ (s.max >= t /\ s.min > t) THEN t ELSE s.min)
        /\ new.totalCounter = s.totalCounter /\ new.counterCount = s.counterCount
        /\ new.avgIncrement = s.avgIncrement
        /\ new.minIncrement = s.minIncrement /\ new.maxIncrement = s.maxIncrement
        /\ new.persistent = s.persistent
    BY <1>1 DEF IncTotalTime, Stores
  <1>4. /\ s.total \in Nat /\ s.numEffective \in Nat /\ s.num \in Nat
        /\ s.max \in Nat /\ s.min \in Nat
    BY <1>1 DEF Stores
  <1>5. AddedTime(s, t)[1] \in Nat /\ AddedTime(s, t)[2] \in Nat
    BY <1>2, <1>4, AddedTimes
  <1>6. new \in Stores
    <2>1. s.num + 1 \in Nat /\ (IF s.max < t THEN t ELSE s.max) \in Nat
          /\ (IF s.num = 0 \/ (s.max >= t /\ s.min > t) THEN t ELSE s.min) \in Nat
      BY <1>2, <1>4
    <2> QED
      BY <1>1, <1>5, <2>1 DEF IncTotalTime, Stores
  <1> HIDE DEF new
  <1>7. /\ new.min <= t /\ t <= new.max /\ new.max >= s.max
        /\ s.num > 0 => new.min <= s.min
        /\ new.min \in Nat /\ new.max \in Nat
    BY <1>1, <1>2, <1>3, <1>4 DEF TimesOK
  <1>8. TimesOK(new)
    <2>1. CASE AddedTime(s, t) = <<t, 1>>
      <3>1. new.total = t /\ new.numEffective = 1 /\ new.num > 0
        BY <1>3, <1>4, <2>1
      <3>2. 1 * new.min = new.min /\ 1 * new.max = new.max
        BY <1>7
      <3> QED
        BY <1>2, <1>7, <3>1, <3>2 DEF TimesOK
    <2>2. CASE AddedTime(s, t) = <<s.total + t, s.numEffective + 1>> /\ s.total + t < TimeWords
      <3>1. new.total = s.total + t /\ new.numEffective = s.numEffective + 1
        BY <1>3, <2>2
      <3>2. s.numEffective * new.max >= s.numEffective * s.max
        BY <1>4, <1>7, Monotone
      <3>3. s.total <= s.numEffective * new.max
        BY <1>1, <1>4, <1>7, <3>2 DEF TimesOK
      <3>4. s.numEffective * new.min <= s.total
        <4>1. CASE s.num = 0
          <5>1. s.numEffective = 0
            BY <1>1, <1>4, <4>1 DEF TimesOK
          <5> QED
            BY <1>4, <1>7, <5>1
        <4>2. CASE s.num > 0
          <5>1. s.numEffective * new.min <= s.numEffective * s.min
            BY <1>4, <1>7, <4>2, Monotone
          <5> QED
            BY <1>1, <1>4, <1>7, <5>1 DEF TimesOK
        <4> QED
          BY <1>4, <4>1, <4>2
      <3>5. /\ (s.numEffective + 1) * new.min = s.numEffective * new.min + new.min
            /\ (s.numEffective + 1) * new.max = s.numEffective * new.max + new.max
            /\ s.numEffective * new.min \in Int /\ s.numEffective * new.max \in Int
        <4>1. new.min \in Int /\ new.max \in Int
          BY <1>7
        <4> QED
          BY <1>4, <4>1, Successor
      <3> DEFINE least == s.numEffective * new.min
                 most == s.numEffective * new.max
      <3>6. /\ new.numEffective * new.min = least + new.min
            /\ new.numEffective * new.max = most + new.max
            /\ least \in Int /\ most \in Int /\ least <= s.total /\ s.total <= most
        BY <3>1, <3>3, <3>4, <3>5
      <3>7. new.num > 0 /\ new.numEffective > 0
        BY <1>3, <1>4, <3>1
      <3> HIDE DEF least, most
      <3>8. /\ least + new.min <= s.total + t /\ s.total + t <= most + new.max
            /\ new.min <= new.max
        BY <1>2, <1>4, <1>7, <3>6
      <3> QED
        BY <2>2, <3>1, <3>6, <3>7, <3>8 DEF TimesOK
    <2> QED
      BY <2>1, <2>2, AddedTimes
  <1>9. CountsOK(new)
    BY <1>1, <1>3 DEF CountsOK
  <1>10. TimesKept(s, new)
    BY <1>3, <1>4, <1>7 DEF TimesKept
  <1> QED
    BY <1>3, <1>6, <1>8, <1>9, <1>10 DEF StoreOK, new

LEMMA AvgIncrementType ==
    ASSUME NEW total \in Int, NEW n \in Nat, n > 0
    PROVE  AvgIncrement(total, n) \in Int
  <1>1. CounterWords \in Nat /\ CounterWords > 0
    BY StatsAssumption
  <1>2. total % CounterWords \in Nat
    BY <1>1
  <1>3. (total % CounterWords) \div n \in Nat
    BY <1>2, Division
  <1> QED
    BY <1>1, <1>3 DEF AvgIncrement, Signed

LEMMA AvgIncrementExact ==
    ASSUME NEW total \in Nat, NEW n \in Nat, n > 0, NEW a \in Int, NEW b \in Int,
           n * a <= total, total <= n * b, total < CounterWords, 2 * b < CounterWords
    PROVE  AvgIncrement(total, n) \in a..b
  <1>1. CounterWords \in Nat /\ CounterWords > 0
    BY StatsAssumption
  <1>2. total % CounterWords = total
    <2>1. total \in 0..(CounterWords - 1)
      BY <1>1
    <2> QED
      BY <1>1, <2>1, SmallRemainder
  <1>3. total \div n \in a..b
    BY AverageBetween
  <1>4. ~(2 * (total \div n) >= CounterWords)
    BY <1>1, <1>3
  <1> QED
    BY <1>2, <1>3, <1>4 DEF AvgIncrement, Signed

LEMMA IncCounterOK ==
    ASSUME NEW s, StoreOK(s), NEW n \in Counts
    PROVE  LET new == IncCounter(s, n)
           IN /\ StoreOK(new) /\ new.persistent = s.persistent
              /\ SameTimes(s, new) /\ CountsKept(s, new)
              /\ new.counterCount = s.counterCount + 1
              /\ CountsFit /\ s.counterCount + 1 <= Cardinality(Measurements)
                   /\ new.totalCounter >= 0 =>
                   new.avgIncrement \in new.minIncrement..new.maxIncrement
  <1> DEFINE new == IncCounter(s, n)
             k == s.counterCount
  <1>1. s \in Stores /\ TimesOK(s) /\ CountsOK(s)
    BY DEF StoreOK
  <1>2. n \in Int /\ Counts \subseteq Int
    BY StatsAssumption
  <1>3. /\ new.total = s.total /\ new.numEffective = s.numEffective /\ new.num = s.num
        /\ new.max = s.max /\ new.min = s.min
        /\ new.totalCounter = s.totalCounter + n /\ new.counterCount = k + 1
        /\ new.avgIncrement = AvgIncrement(s.totalCounter + n, k + 1)
        /\ new.minIncrement = (IF k = 0 \/ n < s.minIncrement THEN n ELSE s.minIncrement)
        /\ new.maxIncrement = (IF k = 0 \/ n > s.maxIncrement THEN n ELSE s.maxIncrement)
        /\ new.persistent = s.persistent
    BY <1>1 DEF IncCounter, Stores
  <1>4. /\ s.totalCounter \in Int /\ k \in Nat
        /\ s.minIncrement \in Int /\ s.maxIncrement \in Int /\ s.num \in Nat /\ s.max \in Nat
    BY <1>1 DEF Stores
  <1>5. new \in Stores
    <2>1. AvgIncrement(s.totalCounter + n, k + 1) \in Int
      <3>1. s.totalCounter + n \in Int /\ k + 1 \in Nat /\ k + 1 > 0
        BY <1>2, <1>4
      <3> QED
        BY <3>1, AvgIncrementType
    <2>2. /\ s.totalCounter + n \in Int /\ k + 1 \in Nat
          /\ (IF k = 0 \/ n < s.minIncrement THEN n ELSE s.minIncrement) \in Int
          /\ (IF k = 0 \/ n > s.maxIncrement THEN n ELSE s.maxIncrement) \in Int
      BY <1>2, <1>4
    <2> QED
      BY <1>1, <2>1, <2>2 DEF IncCounter, Stores
  <1> HIDE DEF new
  <1>6. TimesOK(new)
    BY <1>1, <1>3 DEF TimesOK
  <1>7. /\ new.minIncrement \in Counts /\ new.maxIncrement \in Counts
        /\ new.minIncrement <= n /\ n <= new.maxIncrement
        /\ k > 0 => new.minIncrement <= s.minIncrement /\ s.maxIncrement <= new.maxIncrement
    <2>1. k > 0 => s.minIncrement \in Counts /\ s.maxIncrement \in Counts
      BY <1>1 DEF CountsOK
    <2> QED
      BY <1>2, <1>3, <1>4, <2>1
  <1>8. new.minIncrement \in Int /\ new.maxIncrement \in Int
    BY <1>2, <1>7
  <1> DEFINE least == k * new.minIncrement
             most == k * new.maxIncrement
  <1>9. /\ least \in Int /\ most \in Int
        /\ (k + 1) * new.minIncrement = least + new.minIncrement
        /\ (k + 1) * new.maxIncrement = most + new.maxIncrement
    BY <1>4, <1>8, Successor
  <1>10. least <= s.totalCounter /\ s.totalCounter <= most
    <2>1. CASE k > 0
      <3>1. k * new.minIncrement <= k * s.minIncrement
        BY <1>4, <1>7, <1>8, <2>1, Monotone
      <3>2. k * s.maxIncrement <= k * new.maxIncrement
        BY <1>4, <1>7, <1>8, <2>1, Monotone
      <3>3. k * s.minIncrement <= s.totalCounter /\ s.totalCounter <= k * s.maxIncrement
        BY <1>1 DEF CountsOK
      <3>4. k * s.minIncrement \in Int /\ k * s.maxIncrement \in Int
        BY <1>4
      <3> DEFINE oldLeast == k * s.minIncrement
                 oldMost == k * s.maxIncrement
      <3>5. /\ least <= oldLeast /\ oldLeast <= s.totalCounter /\ s.totalCounter <= oldMost
            /\ oldMost <= most /\ oldLeast \in Int /\ oldMost \in Int
        BY <3>1, <3>2, <3>3, <3>4
      <3> HIDE DEF least, most, oldLeast, oldMost
      <3> QED
        BY <1>4, <1>9, <3>5
    <2>2. CASE k = 0
      <3>1. 0 * s.minIncrement = 0 /\ 0 * s.maxIncrement = 0 /\ least = 0 /\ most = 0
        BY <1>4, <1>8, <2>2
      <3>2. k * s.minIncrement <= s.totalCounter /\ s.totalCounter <= k * s.maxIncrement
        BY <1>1 DEF CountsOK
      <3>3. 0 <= s.totalCounter /\ s.totalCounter <= 0
        BY <2>2, <3>1, <3>2
      <3> HIDE DEF least, most
      <3> QED
        BY <3>1, <3>3
    <2> QED
      BY <1>4, <2>1, <2>2
  <1>11. /\ (k + 1) * new.minIncrement <= new.totalCounter
         /\ new.totalCounter <= (k + 1) * new.maxIncrement
    <2> HIDE DEF least, most
    <2>1. /\ least + new.minIncrement <= s.totalCounter + n
          /\ s.totalCounter + n <= most + new.maxIncrement
      BY <1>2, <1>4, <1>7, <1>8, <1>9, <1>10
    <2> QED
      BY <1>3, <1>9, <2>1
  <1> HIDE DEF least, most
  <1>12. CountsOK(new)
    BY <1>3, <1>7, <1>11 DEF CountsOK
  <1>13. ASSUME CountsFit, k + 1 <= Cardinality(Measurements), new.totalCounter >= 0
         PROVE  new.avgIncrement \in new.minIncrement..new.maxIncrement
    <2>1. Cardinality(Measurements) \in Nat
      BY <1>13, FS_CardinalityType DEF CountsFit
    <2>2. new.totalCounter \in Nat /\ k + 1 \in Nat /\ k + 1 > 0
      BY <1>2, <1>3, <1>4, <1>13
    <2>3. new.maxIncrement >= 0
      <3> SUFFICES ASSUME new.maxIncrement <= -1 PROVE FALSE
        BY <1>8
      <3>1. (k + 1) * new.maxIncrement <= (k + 1) * (-1)
        BY <1>8, <2>2, Monotone
      <3>2. (k + 1) * (-1) < 0
        BY <1>4
      <3>3. (k + 1) * new.maxIncrement \in Int /\ (k + 1) * (-1) \in Int
        BY <1>4, <1>8
      <3> QED
        BY <1>11, <2>2, <3>1, <3>2, <3>3
    <2> DEFINE all == new.maxIncrement * Cardinality(Measurements)
               some == (k + 1) * new.maxIncrement
    <2>4. some <= all
      <3>1. new.maxIncrement * (k + 1) <= new.maxIncrement * Cardinality(Measurements)
        BY <1>8, <1>13, <2>1, <2>2, <2>3, Monotone
      <3>2. new.maxIncrement * (k + 1) = (k + 1) * new.maxIncrement
        BY <1>8, <2>2
      <3> QED
        BY <3>1, <3>2
    <2>5. all < CounterWords /\ 2 * new.maxIncrement < CounterWords
      BY <1>7, <1>13 DEF CountsFit
    <2>6. all \in Int /\ some \in Int /\ CounterWords \in Int
      BY <1>8, <2>1, <2>2, StatsAssumption
    <2>7. new.totalCounter < CounterWords
      <3>1. new.totalCounter <= some
        BY <1>11
      <3> HIDE DEF all, some
      <3> QED
        BY <2>2, <2>4, <2>5, <2>6, <3>1
    <2> HIDE DEF all, some
    <2>8. AvgIncrement(new.totalCounter, k + 1) \in new.minIncrement..new.maxIncrement
      BY <1>8, <1>11, <2>2, <2>5, <2>7, AvgIncrementExact
    <2> QED
      BY <1>3, <2>8
  <1>14. SameTimes(s, new) /\ CountsKept(s, new)
    BY <1>3, <1>4, <1>7 DEF SameTimes, CountsKept
  <1>15. StoreOK(new)
    BY <1>5, <1>6, <1>12 DEF StoreOK
  <1> QED
    BY <1>3, <1>13, <1>14, <1>15 DEF new

LEMMA ResetCounterOK ==
    ASSUME NEW s, StoreOK(s), NEW n \in Counts
    PROVE  LET new == ResetCounter(s, n)
           IN /\ StoreOK(new) /\ new.persistent = s.persistent /\ SameTimes(s, new)
              /\ new.counterCount = 1
              /\ new.minIncrement = new.totalCounter /\ new.maxIncrement = new.totalCounter
              /\ new.avgIncrement \in new.minIncrement..new.maxIncrement
  <1> DEFINE new == ResetCounter(s, n)
  <1>1. s \in Stores /\ TimesOK(s) /\ s.num \in Nat /\ s.max \in Nat
    BY DEF StoreOK, Stores
  <1>2. n \in Int
    BY StatsAssumption
  <1>3. /\ new.total = s.total /\ new.numEffective = s.numEffective /\ new.num = s.num
        /\ new.max = s.max /\ new.min = s.min
        /\ new.totalCounter = n /\ new.counterCount = 1 /\ new.avgIncrement = n
        /\ new.minIncrement = n /\ new.maxIncrement = n
        /\ new.persistent = s.persistent
    BY <1>1 DEF ResetCounter, Stores
  <1>4. new \in Stores
    BY <1>1, <1>2 DEF ResetCounter, Stores
  <1> HIDE DEF new
  <1>5. TimesOK(new)
    BY <1>1, <1>3 DEF TimesOK
  <1>6. CountsOK(new)
    <2>1. 1 * n = n
      BY <1>2
    <2> QED
      BY <1>2, <1>3, <2>1 DEF CountsOK
  <1>7. SameTimes(s, new) /\ n \in n..n
    BY <1>2, <1>3 DEF SameTimes
  <1> QED
    BY <1>3, <1>4, <1>5, <1>6, <1>7 DEF StoreOK, new

(* Times are added and then counts are added or set.                       *)
LEMMA GrowsInTwo ==
    ASSUME NEW s \in Stores, NEW timed \in Stores, NEW new \in Stores,
           TimesKept(s, timed), timed.num = s.num + 1, SameTimes(timed, new),
           timed.counterCount = s.counterCount, timed.totalCounter = s.totalCounter,
           timed.minIncrement = s.minIncrement, timed.maxIncrement = s.maxIncrement,
           \/ CountsKept(timed, new)
           \/ /\ new.counterCount = 1
              /\ new.minIncrement = new.totalCounter /\ new.maxIncrement = new.totalCounter
    PROVE  Grows(s, new)
  <1>1. s.num \in Nat
    BY DEF Stores
  <1>2. TimesKept(s, new)
    BY DEF TimesKept, SameTimes
  <1>3. CASE CountsKept(timed, new)
    BY <1>2, <1>3 DEF CountsKept, Grows
  <1>4. CASE /\ new.counterCount = 1
             /\ new.minIncrement = new.totalCounter /\ new.maxIncrement = new.totalCounter
    BY <1>1, <1>2, <1>4 DEF CountSet, SameTimes, Grows
  <1> QED
    BY <1>3, <1>4

(* SedaStatsMapStoreStats.                                                 *)
LEMMA StoredOK ==
    ASSUME NEW s, StoreOK(s), NEW e, NEW new \in Stored(s, e)
    PROVE  /\ StoreOK(new) /\ new.persistent = s.persistent /\ Grows(s, new)
           /\ CountsFit /\ s.counterCount + 1 <= Cardinality(Measurements)
                /\ (s.counterCount > 0 /\ s.totalCounter >= 0 =>
                       s.avgIncrement \in s.minIncrement..s.maxIncrement) =>
                /\ new.counterCount <= s.counterCount + 1
                /\ new.counterCount > 0 /\ new.totalCounter >= 0 =>
                     new.avgIncrement \in new.minIncrement..new.maxIncrement
  <1>0. s \in Stores /\ s.counterCount \in Nat
    BY DEF StoreOK, Stores
  <1>1. ASSUME NEW n \in Counts, new = IncCounter(s, n)
        PROVE  /\ StoreOK(new) /\ new.persistent = s.persistent /\ Grows(s, new)
               /\ new.counterCount = s.counterCount + 1
               /\ CountsFit /\ s.counterCount + 1 <= Cardinality(Measurements)
                    /\ new.totalCounter >= 0 =>
                    new.avgIncrement \in new.minIncrement..new.maxIncrement
    <2>1. /\ StoreOK(new) /\ new.persistent = s.persistent
          /\ SameTimes(s, new) /\ CountsKept(s, new)
          /\ new.counterCount = s.counterCount + 1
          /\ CountsFit /\ s.counterCount + 1 <= Cardinality(Measurements)
               /\ new.totalCounter >= 0 =>
               new.avgIncrement \in new.minIncrement..new.maxIncrement
      BY <1>1, IncCounterOK
    <2>2. s.num \in Nat /\ s.max \in Nat /\ s.min \in Nat
      BY <1>0 DEF Stores
    <2>3. TimesKept(s, new)
      BY <2>1, <2>2 DEF TimesKept, SameTimes
    <2> QED
      BY <2>1, <2>3 DEF Grows
  <1>2. ASSUME NEW t \in Times, new = IncTotalTime(s, t)
        PROVE  /\ StoreOK(new) /\ new.persistent = s.persistent /\ Grows(s, new)
               /\ new.counterCount = s.counterCount /\ new.totalCounter = s.totalCounter
               /\ new.avgIncrement = s.avgIncrement
               /\ new.minIncrement = s.minIncrement /\ new.maxIncrement = s.maxIncrement
    <2>1. /\ StoreOK(new) /\ new.persistent = s.persistent /\ TimesKept(s, new)
          /\ new.counterCount = s.counterCount /\ new.totalCounter = s.totalCounter
          /\ new.avgIncrement = s.avgIncrement
          /\ new.minIncrement = s.minIncrement /\ new.maxIncrement = s.maxIncrement
      BY <1>2, IncTotalTimeOK
    <2>2. s.minIncrement \in Int /\ s.maxIncrement \in Int
      BY <1>0 DEF Stores
    <2>3. CountsKept(s, new)
      BY <1>0, <2>1, <2>2 DEF CountsKept
    <2> QED
      BY <2>1, <2>3 DEF Grows
  <1>3. ASSUME NEW t \in Times, NEW n \in Counts,
               new = IncCounter(IncTotalTime(s, t), n) \/ new = ResetCounter(IncTotalTime(s, t), n)
        PROVE  /\ StoreOK(new) /\ new.persistent = s.persistent /\ Grows(s, new)
               /\ new.counterCount <= s.counterCount + 1
               /\ CountsFit /\ s.counterCount + 1 <= Cardinality(Measurements)
                    /\ new.totalCounter >= 0 =>
                    new.avgIncrement \in new.minIncrement..new.maxIncrement
    <2> DEFINE timed == IncTotalTime(s, t)
    <2>1. /\ StoreOK(timed) /\ timed.persistent = s.persistent
          /\ TimesKept(s, timed) /\ timed.num = s.num + 1
          /\ timed.counterCount = s.counterCount /\ timed.totalCounter = s.totalCounter
          /\ timed.minIncrement = s.minIncrement /\ timed.maxIncrement = s.maxIncrement
      BY IncTotalTimeOK
    <2>2. timed \in Stores
      BY <2>1 DEF StoreOK
    <2> HIDE DEF timed
    <2>3. /\ StoreOK(new) /\ new.persistent = timed.persistent
          /\ SameTimes(timed, new)
          /\ \/ CountsKept(timed, new)
             \/ /\ new.counterCount = 1
                /\ new.minIncrement = new.totalCounter /\ new.maxIncrement = new.totalCounter
          /\ new.counterCount <= timed.counterCount + 1
          /\ CountsFit /\ timed.counterCount + 1 <= Cardinality(Measurements)
               /\ new.totalCounter >= 0 =>
               new.avgIncrement \in new.minIncrement..new.maxIncrement
      <3>1. CASE new = IncCounter(timed, n)
        BY <1>0, <2>1, <3>1, IncCounterOK
      <3>2. CASE new = ResetCounter(timed, n)
        BY <1>0, <2>1, <3>2, ResetCounterOK
      <3> QED
        BY <1>3, <3>1, <3>2 DEF timed
    <2>4. new \in Stores
      BY <2>3 DEF StoreOK
    <2>5. Grows(s, new)
      BY <1>0, <2>1, <2>2, <2>3, <2>4, GrowsInTwo
    <2> QED
      BY <2>1, <2>3, <2>5
  <1>4. \/ \E n \in Counts : new = IncCounter(s, n)
        \/ \E t \in Times : new = IncTotalTime(s, t)
        \/ \E t \in Times, n \in Counts : \/ new = IncCounter(IncTotalTime(s, t), n)
                                          \/ new = ResetCounter(IncTotalTime(s, t), n)
    BY DEF Stored
  <1>5. CASE \E n \in Counts : new = IncCounter(s, n)
    BY <1>0, <1>1, <1>5
  <1>6. CASE \E t \in Times : new = IncTotalTime(s, t)
    BY <1>0, <1>2, <1>6
  <1> QED
    BY <1>3, <1>4, <1>5, <1>6

-----------------------------------------------------------------------------
(* The stores of the stage.                                                *)

LEMMA ChosenFlags ==
    ASSUME NEW c \in Flags PROVE Chosen(c) \subseteq Flags
  BY DEF Chosen

(* _removeCategory and _clearStats: what is left is as it was or empty.    *)
LEMMA ClearedStores ==
    ASSUME RemoveCategory \/ ClearChosen,
           NEW c \in DOMAIN categoryMap', NEW i \in DOMAIN categoryMap'[c]
    PROVE  /\ c \in DOMAIN categoryMap /\ i \in DOMAIN categoryMap[c]
           /\ \/ categoryMap'[c][i] = categoryMap[c][i]
              \/ categoryMap'[c][i] = EmptyStore(categoryMap[c][i].persistent)
  <1>1. CASE RemoveCategory
    BY <1>1 DEF RemoveCategory, Without
  <1>2. CASE ClearChosen
    <2> DEFINE gone == IF call.id = All THEN Disabled(call.categories) ELSE {}
    <2>1. categoryMap' =
            [d \in DOMAIN categoryMap \ gone |->
               IF d \in call.categories
                 THEN Cleared(categoryMap[d], call.id, d \in Disabled(call.categories))
                 ELSE categoryMap[d]]
      BY <1>2 DEF ClearChosen
    <2> HIDE DEF gone
    <2>2. CASE c \notin call.categories
      BY <2>1, <2>2
    <2>3. CASE c \in call.categories
      <3>1. /\ c \in DOMAIN categoryMap
            /\ categoryMap'[c] =
                 Cleared(categoryMap[c], call.id, c \in Disabled(call.categories))
        BY <2>1, <2>3
      <3> QED
        BY <3>1 DEF Cleared, Without
    <2> QED
      BY <2>2, <2>3
  <1> QED
    BY <1>1, <1>2

(* storeStats.                                                             *)
OldStore(m) ==
    IF event[m].category \in DOMAIN categoryMap
         /\ event[m].id \in DOMAIN categoryMap[event[m].category]
      THEN categoryMap[event[m].category][event[m].id]
      ELSE EmptyStore(event[m].persistent)

LEMMA StoreStatsStep ==
    ASSUME OnItsWay, NEW m \in Measurements, StoreStats(m), event[m].category # All
    PROVE  LET c == event[m].category
               i == event[m].id
           IN /\ c \in Categories /\ i \in Ids
              /\ DOMAIN categoryMap' = DOMAIN categoryMap \cup {c}
              /\ \A d \in DOMAIN categoryMap : d # c => categoryMap'[d] = categoryMap[d]
              /\ DOMAIN categoryMap'[c] =
                   (IF c \in DOMAIN categoryMap THEN DOMAIN categoryMap[c] ELSE {}) \cup {i}
              /\ c \in DOMAIN categoryMap =>
                   \A j \in DOMAIN categoryMap[c] :
                     j # i => categoryMap'[c][j] = categoryMap[c][j]
              /\ categoryMap'[c][i] \in Stored(OldStore(m), event[m])
  <1> DEFINE c == event[m].category
             i == event[m].id
             old == StoresOf(c)
             s == IF i \in DOMAIN old THEN old[i] ELSE EmptyStore(event[m].persistent)
  <1>1. event[m] \in Events
    BY DEF OnItsWay, StoreStats
  <1>2. c \in Categories /\ i \in Ids
    BY <1>1, StatsAssumption DEF Events
  <1>3. DOMAIN old = IF c \in DOMAIN categoryMap THEN DOMAIN categoryMap[c] ELSE {}
    BY DEF StoresOf
  <1>4. s = OldStore(m)
    BY DEF StoresOf, OldStore
  <1>5. PICK new \in Stored(s, event[m]) :
          categoryMap' = Put(categoryMap, c, Put(old, i, new))
    BY DEF StoreStats, StoreEvent
  <1>6. /\ DOMAIN categoryMap' = DOMAIN categoryMap \cup {c}
        /\ categoryMap'[c] = Put(old, i, new)
        /\ \A d \in DOMAIN categoryMap : d # c => categoryMap'[d] = categoryMap[d]
    <2> HIDE DEF c, i, old
    <2> QED
      BY <1>5 DEF Put
  <1>7. /\ DOMAIN categoryMap'[c] = DOMAIN old \cup {i}
        /\ categoryMap'[c][i] = new
        /\ \A j \in DOMAIN old : j # i => categoryMap'[c][j] = old[j]
    <2> HIDE DEF c, i, old
    <2> QED
      BY <1>6 DEF Put
  <1>8. c \in DOMAIN categoryMap => old = categoryMap[c]
    BY DEF StoresOf
  <1> HIDE DEF old, s
  <1> QED
    BY <1>2, <1>3, <1>4, <1>5, <1>6, <1>7, <1>8

LEMMA NotStored ==
    ASSUME NEW m \in Measurements, StoreStats(m), event[m].category = All
    PROVE  UNCHANGED categoryMap
  BY DEF StoreStats

LEMMA OldStoreOK ==
    ASSUME OnItsWay, StoresOK, NEW m \in Measurements, place[m] = "taken"
    PROVE  StoreOK(OldStore(m))
  <1>1. event[m].persistent \in BOOLEAN
    BY DEF OnItsWay, Events
  <1> QED
    BY <1>1, EmptyStoreOK DEF OldStore, StoresOK

(* Other steps leave the stores, or there are none afterwards.             *)
LEMMA OtherSteps ==
    ASSUME Next
    PROVE  \/ RemoveCategory \/ ClearChosen \/ \E m \in Measurements : StoreStats(m)
           \/ MakeStage \/ DeleteStage
           \/ UNCHANGED categoryMap
  <1>1. CASE StageStep
    BY <1>1 DEF StageStep, SetProperties, Connect, Disconnect, Disconnected,
                DisableCollect, ClearPointer
  <1>2. CASE ManagerStep
    BY <1>2 DEF ManagerStep, EnableCategory, DisableCategory, ClearStats, DumpStats,
                TestPointer, ReadPointer, LockStores, Dumped, CallOnDead
  <1>3. ASSUME NEW m \in Measurements, MeasureStep(m), ~StoreStats(m)
        PROVE  UNCHANGED categoryMap
    BY <1>3 DEF MeasureStep, Measure, RecordCount, EndMeasure, Abandon, AddStatsEvent, Take
  <1>4. CASE Crashed
    BY <1>4 DEF Crashed, vars
  <1> QED
    BY <1>1, <1>2, <1>3, <1>4 DEF Next

(* Where a store comes from.                                               *)
LEMMA StoresFrom ==
    ASSUME TypeOK, OnItsWay, StoresOK, Next,
           NEW c \in DOMAIN categoryMap', NEW i \in DOMAIN categoryMap'[c]
    PROVE  /\ c \in Categories /\ i \in Ids
           /\ \/ /\ c \in DOMAIN categoryMap /\ i \in DOMAIN categoryMap[c]
                 /\ categoryMap'[c][i] = categoryMap[c][i]
              \/ \E p \in BOOLEAN : categoryMap'[c][i] = EmptyStore(p)
              \/ \E m \in Measurements :
                   StoreStats(m) /\ categoryMap'[c][i] \in Stored(OldStore(m), event[m])
  <1>0. /\ DOMAIN categoryMap \subseteq Categories
        /\ \A d \in DOMAIN categoryMap : DOMAIN categoryMap[d] \subseteq Ids
    BY DEF TypeOK
  <1>1. CASE MakeStage \/ DeleteStage
    BY <1>1 DEF MakeStage, DeleteStage
  <1>2. CASE UNCHANGED categoryMap
    BY <1>0, <1>2
  <1>3. CASE RemoveCategory \/ ClearChosen
    <2>1. /\ c \in DOMAIN categoryMap /\ i \in DOMAIN categoryMap[c]
          /\ \/ categoryMap'[c][i] = categoryMap[c][i]
             \/ categoryMap'[c][i] = EmptyStore(categoryMap[c][i].persistent)
      BY <1>3, ClearedStores
    <2>2. categoryMap[c][i].persistent \in BOOLEAN
      BY <2>1 DEF StoresOK, StoreOK, Stores
    <2> QED
      BY <1>0, <2>1, <2>2
  <1>4. ASSUME NEW m \in Measurements, StoreStats(m), event[m].category # All
        PROVE  /\ c \in Categories /\ i \in Ids
               /\ \/ /\ c \in DOMAIN categoryMap /\ i \in DOMAIN categoryMap[c]
                     /\ categoryMap'[c][i] = categoryMap[c][i]
                  \/ categoryMap'[c][i] \in Stored(OldStore(m), event[m])
    <2> DEFINE k == event[m].category
               j == event[m].id
    <2>0. /\ k \in Categories /\ j \in Ids
          /\ DOMAIN categoryMap' = DOMAIN categoryMap \cup {k}
          /\ \A d \in DOMAIN categoryMap : d # k => categoryMap'[d] = categoryMap[d]
          /\ DOMAIN categoryMap'[k] =
               (IF k \in DOMAIN categoryMap THEN DOMAIN categoryMap[k] ELSE {}) \cup {j}
          /\ k \in DOMAIN categoryMap =>
               \A l \in DOMAIN categoryMap[k] :
                 l # j => categoryMap'[k][l] = categoryMap[k][l]
          /\ categoryMap'[k][j] \in Stored(OldStore(m), event[m])
      BY <1>4, StoreStatsStep
    <2> HIDE DEF k, j
    <2>1. CASE c # k
      BY <1>0, <2>0, <2>1
    <2>2. CASE c = k /\ i # j
      BY <1>0, <2>0, <2>2
    <2>3. CASE c = k /\ i = j
      BY <2>0, <2>3
    <2> QED
      BY <2>1, <2>2, <2>3
  <1> QED
    BY <1>1, <1>2, <1>3, <1>4, OtherSteps, NotStored

LEMMA StoresStep ==
    ASSUME TypeOK, OnItsWay, StoresOK, Next PROVE StoresOK'
  <1> SUFFICES ASSUME NEW c \in DOMAIN categoryMap', NEW i \in DOMAIN categoryMap'[c]
               PROVE  StoreOK(categoryMap'[c][i])
    BY DEF StoresOK
  <1>1. ASSUME NEW m \in Measurements, StoreStats(m),
               categoryMap'[c][i] \in Stored(OldStore(m), event[m])
        PROVE  StoreOK(categoryMap'[c][i])
    <2>1. StoreOK(OldStore(m))
      BY <1>1, OldStoreOK DEF StoreStats
    <2> QED
      BY <1>1, <2>1, StoredOK
  <1> QED
    BY <1>1, StoresFrom, EmptyStoreOK DEF StoresOK

-----------------------------------------------------------------------------
(* The inductive invariant.                                                *)

LEMMA StatsInit == Init => StatsInv
  <1> SUFFICES ASSUME Init PROVE StatsInv
    OBVIOUS
  <1>1. DOMAIN categoryMap = {}
    BY DEF Init
  <1>2. TypeOK
    <2>1. makes \in 0..MaxMakes
      BY StatsAssumption DEF Init
    <2>2. collectEnabled \in BOOLEAN /\ theStatsCollectionStage \in BOOLEAN
      BY DEF Init
    <2>3. /\ place \in [Measurements -> {"none", "measuring", "sending", "late", "queued",
                                          "taken", "done", "lost"}]
          /\ event \in [Measurements -> Events \cup {None}]
      BY DEF Init
    <2> QED
      BY <1>1, <2>1, <2>2, <2>3 DEF Init, TypeOK
  <1>3. CallOK /\ StageLife /\ OnItsWay /\ StoresOK /\ SentToLivingStage
    BY <1>1 DEF Init, CallOK, StageLife, OnItsWay, StoresOK, SentToLivingStage
  <1> QED
    BY <1>2, <1>3 DEF StatsInv

LEMMA StageTypes ==
    ASSUME TypeOK, StageStep
    PROVE  /\ collectEnabled' \in BOOLEAN /\ theStatsCollectionStage' \in BOOLEAN
           /\ externalCategoryEnableMap' \subseteq Flags
           /\ internalCategoryEnableMap' \subseteq Flags
           /\ stage' \in {"made", "connected", "stopping", "disconnected", "dying", "dead"}
           /\ makes' \in 0..MaxMakes
  <1>0. /\ collectEnabled \in BOOLEAN /\ theStatsCollectionStage \in BOOLEAN
        /\ externalCategoryEnableMap \subseteq Flags
        /\ internalCategoryEnableMap \subseteq Flags
        /\ makes \in 0..MaxMakes
    BY DEF TypeOK
  <1>1. CASE MakeStage
    <2>1. makes' \in 0..MaxMakes
      BY <1>0, <1>1, StatsAssumption DEF MakeStage
    <2>2. /\ collectEnabled' = collectEnabled /\ theStatsCollectionStage' = TRUE
          /\ externalCategoryEnableMap' = externalCategoryEnableMap
          /\ internalCategoryEnableMap' = internalCategoryEnableMap /\ stage' = "made"
      BY <1>1 DEF MakeStage, flagVars
    <2> QED
      BY <1>0, <2>1, <2>2
  <1>2. CASE SetProperties
    BY <1>0, <1>2 DEF SetProperties, flagVars, stageVars
  <1>3. CASE Connect
    BY <1>0, <1>3 DEF Connect, flagVars, stageVars
  <1>4. CASE Disconnect
    BY <1>0, <1>4 DEF Disconnect, flagVars, stageVars
  <1>5. CASE Disconnected
    BY <1>0, <1>5 DEF Disconnected, flagVars, stageVars
  <1>6. CASE DisableCollect
    BY <1>0, <1>6 DEF DisableCollect, flagVars, stageVars
  <1>7. CASE ClearPointer
    BY <1>0, <1>7 DEF ClearPointer, flagVars, stageVars
  <1>8. CASE DeleteStage
    BY <1>0, <1>8 DEF DeleteStage, flagVars, stageVars
  <1> QED
    BY <1>1, <1>2, <1>3, <1>4, <1>5, <1>6, <1>7, <1>8 DEF StageStep

LEMMA TypesStep ==
    ASSUME StatsInv, Next PROVE TypeOK'
  <1>0. TypeOK /\ OnItsWay /\ StoresOK /\ CallOK
    BY DEF StatsInv
  <1>1. /\ DOMAIN categoryMap' \subseteq Categories
        /\ \A c \in DOMAIN categoryMap' : DOMAIN categoryMap'[c] \subseteq Ids
    <2>1. ASSUME NEW m \in Measurements, StoreStats(m), event[m].category # All
          PROVE  /\ DOMAIN categoryMap' \subseteq Categories
                 /\ \A c \in DOMAIN categoryMap' : DOMAIN categoryMap'[c] \subseteq Ids
      <3> DEFINE k == event[m].category
      <3>1. k \in Categories /\ DOMAIN categoryMap' = DOMAIN categoryMap \cup {k}
        BY <1>0, <2>1, StoreStatsStep
      <3> HIDE DEF k
      <3> QED
        BY <1>0, <3>1, StoresFrom DEF TypeOK
    <2>2. CASE RemoveCategory \/ ClearChosen
      BY <1>0, <2>2, ClearedStores DEF TypeOK, RemoveCategory, ClearChosen, Without
    <2>3. CASE MakeStage \/ DeleteStage
      BY <2>3 DEF MakeStage, DeleteStage
    <2>4. CASE UNCHANGED categoryMap
      BY <1>0, <2>4 DEF TypeOK
    <2> QED
      BY <2>1, <2>2, <2>3, <2>4, OtherSteps, NotStored
  <1>2. /\ collectEnabled' \in BOOLEAN /\ theStatsCollectionStage' \in BOOLEAN
        /\ externalCategoryEnableMap' \subseteq Flags
        /\ internalCategoryEnableMap' \subseteq Flags
        /\ stage' \in {"none", "made", "connected", "stopping", "disconnected", "dying", "dead"}
        /\ makes' \in 0..MaxMakes
    <2>1. CASE StageStep
      BY <1>0, <2>1, StageTypes
    <2>2. CASE ManagerStep
      <3>1. ASSUME NEW c \in Flags, EnableCategory(c) \/ DisableCategory(c)
            PROVE  internalCategoryEnableMap' \subseteq Flags
        BY <1>0, <3>1, ChosenFlags DEF EnableCategory, DisableCategory, TypeOK
      <3>2. /\ UNCHANGED <<collectEnabled, externalCategoryEnableMap, stageVars>>
            /\ \/ UNCHANGED internalCategoryEnableMap
               \/ \E c \in Flags : EnableCategory(c) \/ DisableCategory(c)
        BY <2>2 DEF ManagerStep, EnableCategory, DisableCategory, ClearStats, DumpStats,
             TestPointer, ReadPointer, LockStores, RemoveCategory, ClearChosen, Dumped,
             CallOnDead, flagVars, stageVars
      <3> QED
        BY <1>0, <3>1, <3>2 DEF TypeOK, stageVars
    <2>3. ASSUME NEW m \in Measurements, MeasureStep(m)
          PROVE  UNCHANGED <<flagVars, stageVars>>
      BY <2>3 DEF MeasureStep, Measure, RecordCount, EndMeasure, Abandon, AddStatsEvent, Take,
           StoreStats
    <2>4. CASE UNCHANGED <<flagVars, stageVars>>
      BY <1>0, <2>4 DEF TypeOK, flagVars, stageVars
    <2> QED
      BY <2>1, <2>2, <2>3, <2>4 DEF Next, Crashed, vars
  <1>3. /\ place' \in [Measurements -> {"none", "measuring", "sending", "late", "queued",
                                         "taken", "done", "lost"}]
        /\ event' \in [Measurements -> Events \cup {None}]
    <2>0. /\ place \in [Measurements -> {"none", "measuring", "sending", "late", "queued",
                                         "taken", "done", "lost"}]
          /\ event \in [Measurements -> Events \cup {None}]
      BY <1>0 DEF TypeOK
    <2>1. CASE StageStep
      BY <2>0, <2>1 DEF StageStep, MakeStage, SetProperties, Connect, Disconnect,
           Disconnected, DisableCollect, ClearPointer, DeleteStage, measureVars
    <2>2. CASE ManagerStep
      BY <2>0, <2>2 DEF ManagerStep, EnableCategory, DisableCategory, ClearStats, DumpStats,
           TestPointer, ReadPointer, LockStores, RemoveCategory, ClearChosen, Dumped,
           CallOnDead, measureVars
    <2>3. ASSUME NEW m \in Measurements, NEW c \in Measured, NEW id \in Ids,
                 NEW p \in BOOLEAN, Measure(m, c, id, p) \/ RecordCount(m, c, id, p)
          PROVE  \E e \in Events : event' = [event EXCEPT ![m] = e]
      <3>1. IsCategoryEnabled(c) \/ p \in BOOLEAN
        OBVIOUS
      <3>2. \A on, timed \in BOOLEAN :
              [category |-> c, id |-> id, persistent |-> p, enabled |-> on,
               hasTime |-> timed] \in Events
        BY DEF Events
      <3>3. (IsCategoryEnabled(c) \/ p) \in BOOLEAN
        OBVIOUS
      <3>4. CASE Measure(m, c, id, p)
        BY <3>2, <3>3, <3>4 DEF Measure
      <3>5. CASE RecordCount(m, c, id, p)
        BY <3>2, <3>5 DEF RecordCount
      <3> QED
        BY <2>3, <3>4, <3>5
    <2>4. ASSUME NEW m \in Measurements, MeasureStep(m)
          PROVE  /\ \/ UNCHANGED event
                    \/ \E e \in Events \cup {None} : event' = [event EXCEPT ![m] = e]
                 /\ \E x \in {"measuring", "sending", "late", "queued", "taken", "done", "lost"} :
                      place' = [place EXCEPT ![m] = x]
      <3>1. CASE \E c \in Measured, id \in Ids, p \in BOOLEAN :
                   Measure(m, c, id, p) \/ RecordCount(m, c, id, p)
        BY <2>3, <3>1 DEF Measure, RecordCount
      <3>2. CASE EndMeasure(m) \/ Abandon(m) \/ AddStatsEvent(m) \/ Take(m) \/ StoreStats(m)
        BY <3>2 DEF EndMeasure, Abandon, AddStatsEvent, Take, StoreStats
      <3> QED
        BY <2>4, <3>1, <3>2 DEF MeasureStep
    <2>5. ASSUME NEW m \in Measurements, MeasureStep(m)
          PROVE  /\ place' \in [Measurements -> {"none", "measuring", "sending", "late",
                                                  "queued", "taken", "done", "lost"}]
                 /\ event' \in [Measurements -> Events \cup {None}]
      BY <2>0, <2>4, <2>5
    <2>6. CASE Crashed
      BY <2>0, <2>6 DEF Crashed, vars, measureVars
    <2> QED
      BY <2>1, <2>2, <2>5, <2>6 DEF Next
  <1> QED
    BY <1>1, <1>2, <1>3 DEF TypeOK

LEMMA CallStep ==
    ASSUME StatsInv, Next PROVE CallOK'
  <1>0. CallOK /\ makes \in 0..MaxMakes
    BY DEF StatsInv, TypeOK
  <1>1. ASSUME NEW c \in Flags, NEW id \in Ids \cup {All},
               EnableCategory(c) \/ DisableCategory(c) \/ ClearStats(c, id) \/ DumpStats
        PROVE  \/ UNCHANGED call
               \/ \E op \in {"remove", "clear", "dump"}, d \in Flags, i \in Ids \cup {All} :
                    Called(op, d, i)
    BY <1>1 DEF EnableCategory, DisableCategory, ClearStats, DumpStats, Flags
  <1>2. ASSUME NEW op \in {"remove", "clear", "dump"}, NEW c \in Flags,
               NEW id \in Ids \cup {All}, Called(op, c, id)
        PROVE  call' \in Calls
    <2>1. 0 \in 0..MaxMakes
      BY StatsAssumption
    <2> QED
      BY <1>2, <2>1, ChosenFlags DEF Called, Calls
  <1>3. ASSUME NEW at \in {"test", "read", "lock", "use"}, call # None
        PROVE  [call EXCEPT !.at = at] \in Calls
    <2>1. call \in Calls
      BY <1>0, <1>3 DEF CallOK
    <2> QED
      BY <2>1 DEF Calls
  <1>4. ASSUME NEW n \in 0..MaxMakes, call # None
        PROVE  [call EXCEPT !.at = "lock", !.read = n] \in Calls
    <2>1. call \in Calls
      BY <1>0, <1>4 DEF CallOK
    <2> QED
      BY <2>1 DEF Calls
  <1>5. CASE TestPointer
    BY <1>3, <1>5 DEF TestPointer, CallOK
  <1>6. CASE ReadPointer
    <2> DEFINE n == IF theStatsCollectionStage THEN makes ELSE 0
    <2>1. n \in 0..MaxMakes
      BY <1>0, StatsAssumption
    <2>2. call # None /\ call' = [call EXCEPT !.at = "lock", !.read = n]
      BY <1>6 DEF ReadPointer
    <2> HIDE DEF n
    <2> QED
      BY <1>4, <2>1, <2>2 DEF CallOK
  <1>7. CASE LockStores
    BY <1>3, <1>7 DEF LockStores, CallOK
  <1>8. CASE RemoveCategory \/ ClearChosen \/ Dumped \/ CallOnDead
    BY <1>8 DEF RemoveCategory, ClearChosen, Dumped, CallOnDead, CallOK
  <1>9. CASE UNCHANGED call
    BY <1>0, <1>9 DEF CallOK
  <1>10. CASE ManagerStep
    <2>1. CASE \/ DumpStats
               \/ \E c \in Flags : \/ EnableCategory(c) \/ DisableCategory(c)
                                   \/ \E id \in Ids \cup {All} : ClearStats(c, id)
      <3>1. All \in Flags /\ All \in Ids \cup {All}
        BY DEF Flags
      <3>2. \/ UNCHANGED call
            \/ \E op \in {"remove", "clear", "dump"}, d \in Flags, i \in Ids \cup {All} :
                 Called(op, d, i)
        BY <1>1, <2>1, <3>1
      <3> QED
        BY <1>2, <1>9, <3>2 DEF CallOK
    <2> QED
      BY <1>5, <1>6, <1>7, <1>8, <1>10, <2>1 DEF ManagerStep
  <1>11. CASE StageStep
    BY <1>9, <1>11 DEF StageStep, MakeStage, SetProperties, Connect, Disconnect, Disconnected,
         DisableCollect, ClearPointer, DeleteStage
  <1>12. ASSUME NEW m \in Measurements, MeasureStep(m) PROVE UNCHANGED call
    BY <1>12 DEF MeasureStep, Measure, RecordCount, EndMeasure, Abandon, AddStatsEvent, Take,
         StoreStats
  <1> QED
    BY <1>9, <1>10, <1>11, <1>12 DEF Next, Crashed, vars

LEMMA StageLifeStep ==
    ASSUME StatsInv, Next PROVE StageLife'
  <1>0. TypeOK /\ StageLife /\ OnItsWay
    BY DEF StatsInv
  <1>1. CASE StageStep
    <2>1. CASE MakeStage
      BY <1>0, <2>1 DEF MakeStage, StageLife, flagVars
    <2>2. CASE SetProperties
      BY <1>0, <2>2 DEF SetProperties, StageLife, stageVars
    <2>3. CASE Connect \/ Disconnect \/ Disconnected
      BY <1>0, <2>3 DEF Connect, Disconnect, Disconnected, StageLife, flagVars
    <2>4. CASE DisableCollect
      BY <1>0, <2>4 DEF DisableCollect, StageLife
    <2>5. CASE ClearPointer
      BY <1>0, <2>5 DEF ClearPointer, StageLife, flagVars
    <2>6. CASE DeleteStage
      BY <1>0, <2>6 DEF DeleteStage, PointerFirst, StageLife, flagVars
    <2> QED
      BY <1>1, <2>1, <2>2, <2>3, <2>4, <2>5, <2>6 DEF StageStep
  <1>2. ASSUME UNCHANGED <<stageVars, collectEnabled>>,
               stage \in {"none", "dead"} => UNCHANGED categoryMap
        PROVE  StageLife'
    BY <1>0, <1>2 DEF StageLife, stageVars
  <1>3. CASE ManagerStep
    <2>1. UNCHANGED <<stageVars, collectEnabled>>
      BY <1>3 DEF ManagerStep, EnableCategory, DisableCategory, ClearStats, DumpStats,
           TestPointer, ReadPointer, LockStores, RemoveCategory, ClearChosen, Dumped,
           CallOnDead, flagVars
    <2>2. UNCHANGED categoryMap \/ InUse
      BY <1>3 DEF ManagerStep, EnableCategory, DisableCategory, ClearStats, DumpStats,
           TestPointer, ReadPointer, LockStores, RemoveCategory, ClearChosen, Dumped,
           CallOnDead
    <2>3. InUse => stage \notin {"none", "dead"}
      BY <1>0 DEF InUse, Reaches, StageLife
    <2> QED
      BY <1>2, <2>1, <2>2, <2>3
  <1>4. ASSUME NEW m \in Measurements, MeasureStep(m) PROVE StageLife'
    <2>1. UNCHANGED <<stageVars, collectEnabled>>
      BY <1>4 DEF MeasureStep, Measure, RecordCount, EndMeasure, Abandon, AddStatsEvent, Take,
           StoreStats, flagVars
    <2>2. UNCHANGED categoryMap \/ place[m] = "taken"
      BY <1>4 DEF MeasureStep, Measure, RecordCount, EndMeasure, Abandon, AddStatsEvent, Take,
           StoreStats
    <2>3. place[m] = "taken" => stage \notin {"none", "dead"}
      BY <1>0 DEF OnItsWay
    <2> QED
      BY <1>2, <2>1, <2>2, <2>3
  <1>5. CASE Crashed
    BY <1>2, <1>5 DEF Crashed, vars, flagVars
  <1> QED
    BY <1>1, <1>3, <1>4, <1>5 DEF Next

(* A measurement that is on its way carries an event; it is with the stage *)
(* only while that takes events or waits for those it has.                 *)
LEMMA OnItsWayStep ==
    ASSUME StatsInv, Next PROVE OnItsWay'
  <1>0. TypeOK /\ StageLife /\ OnItsWay
    BY DEF StatsInv
  <1> SUFFICES ASSUME NEW m \in Measurements
               PROVE  /\ place'[m] \in {"measuring", "sending", "late", "queued", "taken"} =>
                           event'[m] \in Events
                      /\ place'[m] \in {"queued", "taken"} => stage' \in {"connected", "stopping"}
                      /\ stage' = "none" /\ place'[m] = "sending" => event'[m].persistent
    BY DEF OnItsWay
  <1>1. /\ place[m] \in {"measuring", "sending", "late", "queued", "taken"} =>
             event[m] \in Events
        /\ place[m] \in {"queued", "taken"} => stage \in {"connected", "stopping"}
        /\ stage = "none" /\ place[m] = "sending" => event[m].persistent
    BY <1>0 DEF OnItsWay
  <1>2. /\ place \in [Measurements -> {"none", "measuring", "sending", "late", "queued",
                                       "taken", "done", "lost"}]
        /\ event \in [Measurements -> Events \cup {None}]
    BY <1>0 DEF TypeOK
  <1>3. ASSUME place'[m] = place[m], event'[m] = event[m], stage' = stage
        PROVE  /\ place'[m] \in {"measuring", "sending", "late", "queued", "taken"} =>
                    event'[m] \in Events
               /\ place'[m] \in {"queued", "taken"} => stage' \in {"connected", "stopping"}
               /\ stage' = "none" /\ place'[m] = "sending" => event'[m].persistent
    BY <1>1, <1>3
  <1>4. CASE StageStep
    <2>1. stage' # "none"
      BY <1>4, <1>0, StageTypes
    <2>2. CASE MakeStage \/ SetProperties \/ Disconnect \/ DisableCollect \/ ClearPointer
      BY <1>1, <2>1, <2>2 DEF MakeStage, SetProperties, Disconnect, DisableCollect,
           ClearPointer, measureVars, stageVars
    <2>3. CASE Connect
      BY <1>1, <2>1, <2>3 DEF Connect
    <2>4. CASE Disconnected
      BY <1>1, <2>1, <2>4 DEF Disconnected, measureVars
    <2>5. CASE DeleteStage
      BY <1>1, <2>1, <2>5 DEF DeleteStage
    <2> QED
      BY <1>4, <2>2, <2>3, <2>4, <2>5 DEF StageStep
  <1>5. CASE ManagerStep
    BY <1>3, <1>5 DEF ManagerStep, EnableCategory, DisableCategory, ClearStats, DumpStats,
         TestPointer, ReadPointer, LockStores, RemoveCategory, ClearChosen, Dumped,
         CallOnDead, measureVars, stageVars
  <1>6. ASSUME NEW n \in Measurements, MeasureStep(n), m # n
        PROVE  place'[m] = place[m] /\ event'[m] = event[m] /\ stage' = stage
    BY <1>2, <1>6 DEF MeasureStep, Measure, RecordCount, EndMeasure, Abandon, AddStatsEvent,
         Take, StoreStats, stageVars
  <1>7. ASSUME NEW c \in Measured, NEW id \in Ids, NEW p \in BOOLEAN, Measure(m, c, id, p)
        PROVE  place'[m] = "measuring" /\ event'[m] \in Events /\ stage' = stage
    <2>1. (IsCategoryEnabled(c) \/ p) \in BOOLEAN
      OBVIOUS
    <2>2. \A on \in BOOLEAN :
            [category |-> c, id |-> id, persistent |-> p, enabled |-> on,
             hasTime |-> TRUE] \in Events
      BY DEF Events
    <2> QED
      BY <1>2, <1>7, <2>1, <2>2 DEF Measure, stageVars
  <1>8. ASSUME NEW c \in Measured, NEW id \in Ids, NEW p \in BOOLEAN, RecordCount(m, c, id, p)
        PROVE  /\ place'[m] = "sending" /\ event'[m] \in Events /\ stage' = stage
               /\ stage' = "none" => event'[m].persistent
    <2>1. stage = "none" => p
      BY <1>0, <1>8 DEF RecordCount, IsCategoryEnabled, StageLife
    <2>2. event'[m] = [category |-> c, id |-> id, persistent |-> p, enabled |-> TRUE,
                       hasTime |-> FALSE]
      BY <1>2, <1>8 DEF RecordCount
    <2>3. event'[m] \in Events /\ (p => event'[m].persistent)
      BY <2>2 DEF Events
    <2>4. place'[m] = "sending" /\ stage' = stage
      BY <1>2, <1>8 DEF RecordCount, stageVars
    <2> QED
      BY <2>1, <2>3, <2>4
  <1>9. CASE EndMeasure(m)
    <2>1. /\ place[m] = "measuring" /\ place'[m] = "sending" /\ event'[m] = event[m]
          /\ stage' = stage /\ StillEnabled(event[m])
      BY <1>2, <1>9 DEF EndMeasure, stageVars
    <2>2. stage = "none" => event[m].persistent
      BY <1>0, <2>1 DEF StillEnabled, IsCategoryEnabled, StageLife
    <2> QED
      BY <1>1, <2>1, <2>2
  <1>10. CASE Abandon(m) \/ StoreStats(m)
    BY <1>2, <1>10 DEF Abandon, StoreStats
  <1>11. CASE AddStatsEvent(m)
    BY <1>1, <1>2, <1>11 DEF AddStatsEvent, stageVars
  <1>12. CASE Take(m)
    BY <1>1, <1>2, <1>12 DEF Take, stageVars
  <1>13. CASE Crashed
    BY <1>3, <1>13 DEF Crashed, vars, measureVars, stageVars
  <1>14. CASE MeasureStep(m)
    BY <1>7, <1>8, <1>9, <1>10, <1>11, <1>12, <1>14 DEF MeasureStep
  <1> QED
    BY <1>3, <1>4, <1>5, <1>6, <1>13, <1>14 DEF Next

LEMMA SentStep ==
    ASSUME StatsInv, Next PROVE SentToLivingStage'
  <1>0. TypeOK /\ StageLife /\ OnItsWay /\ CallOK /\ SentToLivingStage
    BY DEF StatsInv
  <1>1. CASE Crashed
    BY <1>0, <1>1 DEF Crashed, vars, measureVars, stageVars, SentToLivingStage
  <1>2. CASE crashed' = {}
    BY <1>2 DEF SentToLivingStage
  <1>3. ASSUME NEW m \in Measurements, AddStatsEvent(m), crashed = {}
        PROVE  SentToLivingStage'
    <2>1. SUFFICES ASSUME crashed' = {<<m, theStatsCollectionStage>>},
                          ~(theStatsCollectionStage /\ stage # "dead")
                   PROVE  SentToLivingStage'
      BY <1>2, <1>3 DEF AddStatsEvent
    <2>2. theStatsCollectionStage = FALSE
      BY <1>0, <2>1 DEF StageLife, TypeOK
    <2>3. stage \in {"none", "dying", "dead"} /\ stage' = stage /\ event' = event
      BY <1>0, <1>3, <2>2 DEF StageLife, AddStatsEvent, stageVars
    <2>4. stage = "none" => event[m].persistent
      BY <1>0, <1>3 DEF OnItsWay, AddStatsEvent
    <2> QED
      BY <2>1, <2>2, <2>3, <2>4 DEF SentToLivingStage
  <1>4. ASSUME CallOnDead, crashed = {} PROVE SentToLivingStage'
    <2>1. crashed' = {<<call.op, call.read # 0>>}
      BY <1>4 DEF CallOnDead
    <2>2. call.op \in {"remove", "clear", "dump"}
      BY <1>0, <1>4 DEF CallOnDead, CallOK, Calls
    <2>3. call.op \notin Measurements
      BY <2>2, StatsAssumption
    <2> QED
      BY <2>1, <2>3 DEF SentToLivingStage
  <1>5. StageStep => crashed' = crashed
    BY DEF StageStep, MakeStage, SetProperties, Connect, Disconnect, Disconnected,
         DisableCollect, ClearPointer, DeleteStage
  <1>6. ManagerStep => crashed' = crashed \/ CallOnDead
    BY DEF ManagerStep, EnableCategory, DisableCategory, ClearStats, DumpStats,
         TestPointer, ReadPointer, LockStores, RemoveCategory, ClearChosen, Dumped
  <1>7. \A m \in Measurements : MeasureStep(m) => crashed' = crashed \/ AddStatsEvent(m)
    BY DEF MeasureStep, Measure, RecordCount, EndMeasure, Abandon, Take, StoreStats
  <1> QED
    BY <1>1, <1>2, <1>3, <1>4, <1>5, <1>6, <1>7 DEF Next

LEMMA StatsStep == StatsInv /\ [Next]_vars => StatsInv'
  <1> SUFFICES ASSUME StatsInv, [Next]_vars PROVE StatsInv'
    OBVIOUS
  <1>1. CASE Next
    <2>1. TypeOK' /\ CallOK' /\ StageLife' /\ OnItsWay' /\ SentToLivingStage'
      BY <1>1, TypesStep, CallStep, StageLifeStep, OnItsWayStep, SentStep
    <2>2. StoresOK'
      BY <1>1, StoresStep DEF StatsInv
    <2> QED
      BY <2>1, <2>2 DEF StatsInv
  <1>2. CASE UNCHANGED vars
    BY <1>2 DEF vars, flagVars, stageVars, measureVars, StatsInv, TypeOK, CallOK, StageLife,
         OnItsWay, StoresOK, SentToLivingStage
  <1> QED
    BY <1>1, <1>2

(* The inductive invariant of the collection of statistics.                *)
THEOREM StatsInvariant == Spec => []StatsInv
  BY StatsInit, StatsStep, PTL DEF Spec

(* No measurement is added to a deleted stage, and only one that is        *)
(* persistent or has outlived a stage finds the pointer null: the          *)
(* destructor clears the flag and then, under sedaStageLock, the pointer   *)
(* before anything of the stage is deleted (~SedaStatsStage,               *)
(* addStatsEvent), for any number of measurements and of stages made one   *)
(* after the other.  The manager's calls, which take no such lock, are not *)
(* among this.                                                             *)
THEOREM NeverToADeadStage == Spec => []SentToLivingStage
  BY StatsInvariant, PTL DEF StatsInv

-----------------------------------------------------------------------------
(* Persistent statistics.                                                  *)

LEMMA PersistentStep ==
    ASSUME StatsInv, Next, NEW c \in DOMAIN categoryMap, NEW i \in DOMAIN categoryMap[c],
           categoryMap[c][i].persistent, IsCategoryEnabled(c)
    PROVE  /\ c \in DOMAIN categoryMap' /\ i \in DOMAIN categoryMap'[c]
           /\ \/ categoryMap'[c][i] = categoryMap[c][i]
              \/ MeasuredNow(c, i) /\ Grows(categoryMap[c][i], categoryMap'[c][i])
  <1>0. TypeOK /\ StageLife /\ OnItsWay /\ StoresOK
    BY DEF StatsInv
  <1>1. collectEnabled
    BY DEF IsCategoryEnabled
  <1>2. ~MakeStage /\ ~DeleteStage
    BY <1>0, <1>1 DEF MakeStage, DeleteStage, StageLife
  <1>4. CASE UNCHANGED categoryMap
    BY <1>4
  <1>5. CASE RemoveCategory
    <2>1. c \notin Disabled(call.categories)
      BY DEF Disabled
    <2> QED
      BY <1>5, <2>1 DEF RemoveCategory, Without
  <1>6. CASE ClearChosen
    <2> DEFINE gone == IF call.id = All THEN Disabled(call.categories) ELSE {}
    <2>1. categoryMap' =
            [d \in DOMAIN categoryMap \ gone |->
               IF d \in call.categories
                 THEN Cleared(categoryMap[d], call.id, d \in Disabled(call.categories))
                 ELSE categoryMap[d]]
      BY <1>6 DEF ClearChosen
    <2>2. c \notin Disabled(call.categories)
      BY DEF Disabled
    <2>3. c \notin gone
      BY <2>2
    <2> HIDE DEF gone
    <2>4. CASE c \notin call.categories
      BY <2>1, <2>3, <2>4
    <2>5. CASE c \in call.categories
      <3>1. /\ c \in DOMAIN categoryMap'
            /\ categoryMap'[c] =
                 Cleared(categoryMap[c], call.id, c \in Disabled(call.categories))
        BY <2>1, <2>3, <2>5
      <3>2. Kept(categoryMap[c][i])
        BY DEF Kept
      <3>3. i \in DOMAIN categoryMap'[c] /\ categoryMap'[c][i] = categoryMap[c][i]
        BY <2>2, <3>1, <3>2 DEF Cleared
      <3> QED
        BY <3>1, <3>3
    <2> QED
      BY <2>4, <2>5
  <1>7. ASSUME NEW m \in Measurements, StoreStats(m), event[m].category # All
        PROVE  /\ c \in DOMAIN categoryMap' /\ i \in DOMAIN categoryMap'[c]
               /\ \/ categoryMap'[c][i] = categoryMap[c][i]
                  \/ MeasuredNow(c, i) /\ Grows(categoryMap[c][i], categoryMap'[c][i])
    <2> DEFINE k == event[m].category
               j == event[m].id
    <2>0. /\ DOMAIN categoryMap' = DOMAIN categoryMap \cup {k}
          /\ \A d \in DOMAIN categoryMap : d # k => categoryMap'[d] = categoryMap[d]
          /\ DOMAIN categoryMap'[k] =
               (IF k \in DOMAIN categoryMap THEN DOMAIN categoryMap[k] ELSE {}) \cup {j}
          /\ k \in DOMAIN categoryMap =>
               \A l \in DOMAIN categoryMap[k] :
                 l # j => categoryMap'[k][l] = categoryMap[k][l]
          /\ categoryMap'[k][j] \in Stored(OldStore(m), event[m])
      BY <1>0, <1>7, StoreStatsStep
    <2>1. c = k /\ i = j => OldStore(m) = categoryMap[c][i]
      BY DEF OldStore
    <2>2. StoreOK(categoryMap[c][i])
      BY <1>0 DEF StoresOK
    <2> HIDE DEF k, j
    <2>3. CASE c # k
      BY <2>0, <2>3
    <2>4. CASE c = k /\ i # j
      BY <2>0, <2>4
    <2>5. CASE c = k /\ i = j
      <3>1. categoryMap'[c][i] \in Stored(categoryMap[c][i], event[m])
        BY <2>0, <2>1, <2>5
      <3>2. Grows(categoryMap[c][i], categoryMap'[c][i])
        BY <2>2, <3>1, StoredOK
      <3>3. place[m] = "taken" /\ place'[m] = "done"
        BY <1>0, <1>7 DEF StoreStats, TypeOK
      <3>4. MeasuredNow(c, i)
        BY <2>5, <3>3 DEF MeasuredNow, k, j
      <3> QED
        BY <2>0, <2>5, <3>2, <3>4
    <2> QED
      BY <2>3, <2>4, <2>5
  <1> QED
    BY <1>2, <1>4, <1>5, <1>6, <1>7, OtherSteps, NotStored

(* A persistent statistic of an enabled category stays as it is, whatever  *)
(* the manager disables, clears or dumps, unless a measurement of its own  *)
(* is stored, and that adds times and either adds to or sets the counts; a *)
(* stage that goes has disabled the categories before                      *)
(* (SedaStatsMapClearStats, _removeCategory, storeStats, incTotalTime,     *)
(* incCounter, resetCounter).                                              *)
THEOREM PersistentStays == Spec => PersistentKept
  <1> DEFINE Keeps ==
        \A c \in DOMAIN categoryMap : \A i \in DOMAIN categoryMap[c] :
          categoryMap[c][i].persistent /\ IsCategoryEnabled(c) =>
            /\ c \in DOMAIN categoryMap' /\ i \in DOMAIN categoryMap'[c]
            /\ \/ categoryMap'[c][i] = categoryMap[c][i]
               \/ MeasuredNow(c, i) /\ Grows(categoryMap[c][i], categoryMap'[c][i])
  <1>1. StatsInv /\ [Next]_vars => [Keeps]_vars
    BY PersistentStep
  <1> QED
    BY <1>1, StatsInvariant, PTL DEF Spec, PersistentKept

-----------------------------------------------------------------------------
(* Averages.                                                               *)

LEMMA AveragesInit == Init => AveragesOK
  BY DEF Init, AveragesOK

(* What is done stays done; what has been stored is done.                  *)
LEMMA FinishedGrows ==
    ASSUME CountsFit, TypeOK, Next
    PROVE  /\ Cardinality(Finished) \in Nat /\ Cardinality(Finished') \in Nat
           /\ Cardinality(Finished) <= Cardinality(Finished')
           /\ \A m \in Measurements : StoreStats(m) =>
                /\ Cardinality(Finished) + 1 <= Cardinality(Finished')
                /\ Cardinality(Finished) + 1 <= Cardinality(Measurements)
  <1>0. /\ IsFiniteSet(Measurements)
        /\ place \in [Measurements -> {"none", "measuring", "sending", "late", "queued",
                                       "taken", "done", "lost"}]
    BY DEF CountsFit, TypeOK
  <1>1. Finished \subseteq Measurements /\ Finished' \subseteq Measurements
    BY DEF Finished
  <1>2. Finished \subseteq Finished'
    <2>1. SUFFICES ASSUME NEW m \in Measurements, place[m] = "done" PROVE place'[m] = "done"
      BY DEF Finished
    <2>2. CASE StageStep
      BY <2>1, <2>2 DEF StageStep, MakeStage, SetProperties, Connect, Disconnect,
           Disconnected, DisableCollect, ClearPointer, DeleteStage, measureVars
    <2>3. CASE ManagerStep
      BY <2>1, <2>3 DEF ManagerStep, EnableCategory, DisableCategory, ClearStats, DumpStats,
           TestPointer, ReadPointer, LockStores, RemoveCategory, ClearChosen, Dumped,
           CallOnDead, measureVars
    <2>4. ASSUME NEW n \in Measurements, MeasureStep(n) PROVE place'[m] = "done"
      BY <1>0, <2>1, <2>4 DEF MeasureStep, Measure, RecordCount, EndMeasure, Abandon,
           AddStatsEvent, Take, StoreStats
    <2>5. CASE Crashed
      BY <2>1, <2>5 DEF Crashed, vars, measureVars
    <2> QED
      BY <2>2, <2>3, <2>4, <2>5 DEF Next
  <1>3. /\ IsFiniteSet(Finished) /\ IsFiniteSet(Finished')
        /\ Cardinality(Finished) \in Nat /\ Cardinality(Finished') \in Nat
        /\ Cardinality(Measurements) \in Nat
    BY <1>0, <1>1, FS_Subset, FS_CardinalityType
  <1>4. Cardinality(Finished) <= Cardinality(Finished')
    BY <1>2, <1>3, FS_Subset
  <1>5. ASSUME NEW m \in Measurements, StoreStats(m)
        PROVE  /\ Cardinality(Finished) + 1 <= Cardinality(Finished')
               /\ Cardinality(Finished) + 1 <= Cardinality(Measurements)
    <2>1. m \notin Finished /\ m \in Finished'
      BY <1>0, <1>5 DEF StoreStats, Finished
    <2>2. Cardinality(Finished \cup {m}) = Cardinality(Finished) + 1
      BY <1>3, <2>1, FS_AddElement
    <2>3. Finished \cup {m} \subseteq Finished' /\ Finished \cup {m} \subseteq Measurements
      BY <1>1, <1>2, <2>1
    <2>4. /\ Cardinality(Finished \cup {m}) <= Cardinality(Finished')
          /\ Cardinality(Finished \cup {m}) <= Cardinality(Measurements)
      BY <1>0, <1>3, <2>3, FS_Subset
    <2> QED
      BY <2>2, <2>4
  <1> QED
    BY <1>3, <1>4, <1>5

LEMMA AveragesStep ==
    ASSUME CountsFit, StatsInv, AveragesOK, Next PROVE AveragesOK'
  <1>0. TypeOK /\ StageLife /\ OnItsWay /\ StoresOK
    BY DEF StatsInv
  <1> SUFFICES ASSUME NEW c \in DOMAIN categoryMap', NEW i \in DOMAIN categoryMap'[c]
               PROVE  AverageOK(categoryMap'[c][i], Cardinality(Finished'))
    BY DEF AveragesOK
  <1>1. /\ Cardinality(Finished) \in Nat /\ Cardinality(Finished') \in Nat
        /\ Cardinality(Finished) <= Cardinality(Finished')
    BY <1>0, FinishedGrows
  <1>2. CASE /\ c \in DOMAIN categoryMap /\ i \in DOMAIN categoryMap[c]
             /\ categoryMap'[c][i] = categoryMap[c][i]
    <2>1. /\ AverageOK(categoryMap[c][i], Cardinality(Finished))
          /\ categoryMap[c][i].counterCount \in Nat
      BY <1>0, <1>2 DEF AveragesOK, StoresOK, StoreOK, Stores
    <2> QED
      BY <1>1, <1>2, <2>1 DEF AverageOK
  <1>3. CASE \E p \in BOOLEAN : categoryMap'[c][i] = EmptyStore(p)
    <2>1. categoryMap'[c][i].counterCount = 0
      BY <1>3, EmptyStoreOK
    <2> QED
      BY <1>1, <2>1 DEF AverageOK
  <1>4. ASSUME NEW m \in Measurements, StoreStats(m),
               categoryMap'[c][i] \in Stored(OldStore(m), event[m])
        PROVE  AverageOK(categoryMap'[c][i], Cardinality(Finished'))
    <2> DEFINE s == OldStore(m)
               new == categoryMap'[c][i]
    <2>1. StoreOK(s)
      BY <1>0, <1>4, OldStoreOK DEF StoreStats
    <2>2. AverageOK(s, Cardinality(Finished))
      <3>1. \A p : EmptyStore(p).counterCount = 0
        BY DEF EmptyStore
      <3>2. \A p : AverageOK(EmptyStore(p), Cardinality(Finished))
        BY <1>1, <3>1 DEF AverageOK
      <3> QED
        BY <3>2 DEF OldStore, AveragesOK
    <2>3. /\ Cardinality(Finished) + 1 <= Cardinality(Finished')
          /\ Cardinality(Finished) + 1 <= Cardinality(Measurements)
      BY <1>0, <1>4, FinishedGrows
    <2>4. s.counterCount \in Nat /\ Cardinality(Measurements) \in Nat
      BY <2>1, FS_CardinalityType DEF StoreOK, Stores, CountsFit
    <2>5. /\ s.counterCount <= Cardinality(Finished)
          /\ s.counterCount > 0 /\ s.totalCounter >= 0 =>
               s.avgIncrement \in s.minIncrement..s.maxIncrement
      BY <2>2 DEF AverageOK
    <2>6. s.counterCount + 1 <= Cardinality(Measurements)
      BY <1>1, <2>3, <2>4, <2>5
    <2>7. new \in Stored(s, event[m])
      BY <1>4
    <2> HIDE DEF s, new
    <2>8. /\ StoreOK(new) /\ new.counterCount <= s.counterCount + 1
          /\ new.counterCount > 0 /\ new.totalCounter >= 0 =>
               new.avgIncrement \in new.minIncrement..new.maxIncrement
      BY <2>1, <2>5, <2>6, <2>7, StoredOK
    <2>9. new.counterCount \in Nat
      BY <2>8 DEF StoreOK, Stores
    <2>10. new.counterCount <= Cardinality(Finished')
      BY <1>1, <2>3, <2>4, <2>5, <2>8, <2>9
    <2> QED
      BY <2>8, <2>10 DEF AverageOK, new
  <1> QED
    BY <1>0, <1>2, <1>3, <1>4, StoresFrom

LEMMA AverageOfInv == StatsInv /\ AveragesOK => AverageInRange
  <1> SUFFICES ASSUME StatsInv, AveragesOK PROVE AverageInRange
    OBVIOUS
  <1>1. TypeOK /\ StoresOK
    BY DEF StatsInv
  <1>2. ASSUME NEW row \in Dump(Categories, All)
        PROVE  \E c \in DOMAIN categoryMap : \E i \in DOMAIN categoryMap[c] :
                 row = DumpStore(categoryMap[c][i])
    <2>1. PICK c \in Categories \cap DOMAIN categoryMap : row \in RowsOf(categoryMap[c], All)
      BY <1>2 DEF Dump
    <2> QED
      BY <2>1 DEF RowsOf
  <1>3. ASSUME NEW s, StoreOK(s), AverageOK(s, Cardinality(Finished))
        PROVE  LET row == DumpStore(s)
               IN /\ row.numStats > 0 => row.avgTime \in row.minTime..row.maxTime
                  /\ row.isCounter /\ row.totalCounter >= 0 =>
                       row.avgCounter \in row.minCounter..row.maxCounter
    <2>1. s.num > 0 => GetAvgTime(s) \in s.min..s.max
      <3> SUFFICES ASSUME s.num > 0 PROVE GetAvgTime(s) \in s.min..s.max
        OBVIOUS
      <3>1. /\ s.total \in Nat /\ s.numEffective \in Nat /\ s.numEffective > 0
            /\ s.min \in Int /\ s.max \in Int
            /\ s.numEffective * s.min <= s.total /\ s.total <= s.numEffective * s.max
        BY <1>3 DEF StoreOK, Stores, TimesOK
      <3>2. s.total \div s.numEffective \in s.min..s.max
        BY <3>1, AverageBetween
      <3> QED
        BY <3>1, <3>2 DEF GetAvgTime
    <2> QED
      BY <1>3, <2>1 DEF DumpStore, AverageOK
  <1> QED
    BY <1>1, <1>2, <1>3 DEF AverageInRange, StoresOK, AveragesOK

(* If the counts of all measurements fit in a counter, the averages a dump *)
(* reports are possible at any time: those of times also when their total  *)
(* has overflowed and begun again, those of counters also when they have   *)
(* been set in between (SedaStatsStore::incTotalTime, incCounter).         *)
THEOREM AveragesArePossible ==
    ASSUME CountsFit PROVE Spec => []AverageInRange
  <1>1. StatsInv /\ AveragesOK /\ [Next]_vars => AveragesOK'
    <2> SUFFICES ASSUME StatsInv, AveragesOK, [Next]_vars PROVE AveragesOK'
      OBVIOUS
    <2>1. CASE Next
      BY <2>1, AveragesStep
    <2>2. CASE UNCHANGED vars
      BY <2>2 DEF vars, measureVars, AveragesOK, AverageOK, Finished
    <2> QED
      BY <2>1, <2>2
  <1> QED
    BY <1>1, AveragesInit, AverageOfInv, StatsInvariant, PTL DEF Spec
=============================================================================
