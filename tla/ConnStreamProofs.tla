--------------------------- MODULE ConnStreamProofs ---------------------------
(***************************************************************************)
(* Theorems about ConnStream, for any messages, block sizes, buffers and   *)
(* any cutting of the stream.                                              *)
(***************************************************************************)
EXTENDS ConnStream, WellFoundedInduction, TLAPS

-----------------------------------------------------------------------------
(* Part 1.  Sums of sizes.  The library's theorems of induction have an    *)
(* operator for the induction hypothesis, which the provers do not         *)
(* instantiate; a set of numbers in its place they do.                     *)
LEMMA InductiveSet ==
    ASSUME NEW S, 0 \in S, \A n \in Nat : n \in S => n + 1 \in S
    PROVE  \A n \in Nat : n \in S
  <1> DEFINE T == Nat \ S
             R == OpToRel(<, Nat)
  <1> SUFFICES ASSUME T # {} PROVE FALSE
    OBVIOUS
  <1>1. PICK x \in T : \A y \in T : ~(<<y, x>> \in R)
    <2> HIDE DEF T
    <2>1. T \subseteq Nat
      BY DEF T
    <2> QED
      BY <2>1, NatLessThanWellFounded, WFMin
  <1>2. x \in Nat \ {0} /\ x - 1 \in Nat /\ x - 1 + 1 = x
    OBVIOUS
  <1>3. <<x - 1, x>> \in R
    BY <1>2 DEF OpToRel
  <1>4. x - 1 \in S
    BY <1>1, <1>2, <1>3
  <1> QED
    BY <1>2, <1>4

IsRoom(g, sizes) ==
    g = [i \in 0..Len(sizes) |-> IF i = 0 THEN 0 ELSE g[i - 1] + sizes[i]]

LEMMA RoomToIs ==
    ASSUME NEW sizes, NEW g, IsRoom(g, sizes)
    PROVE  IsRoom(RoomTo(sizes), sizes)
  BY DEF RoomTo, IsRoom

(* The sums of the first sizes, up to n of them.                           *)
SumsUpTo(g, sizes, n) ==
    /\ g \in [0..n -> Nat] /\ g[0] = 0
    /\ \A i \in 1..n : g[i] = g[i - 1] + sizes[i]

LEMMA RoomToSums ==
    ASSUME NEW sizes \in Seq(Nat)
    PROVE  SumsUpTo(RoomTo(sizes), sizes, Len(sizes))
  <1> DEFINE S == {n \in Nat : n <= Len(sizes) => \E g : SumsUpTo(g, sizes, n)}
  <1>1. 0 \in S
    <2>1. SumsUpTo([i \in 0..0 |-> 0], sizes, 0)
      BY DEF SumsUpTo
    <2> QED
      BY <2>1
  <1>2. ASSUME NEW n \in Nat, n \in S PROVE n + 1 \in S
    <2> SUFFICES ASSUME n + 1 <= Len(sizes) PROVE \E g : SumsUpTo(g, sizes, n + 1)
      OBVIOUS
    <2>1. PICK g : SumsUpTo(g, sizes, n)
      BY <1>2
    <2> DEFINE h == [i \in 0..n + 1 |-> IF i = n + 1 THEN g[n] + sizes[n + 1] ELSE g[i]]
    <2>2. g[n] \in Nat /\ sizes[n + 1] \in Nat
      BY <2>1 DEF SumsUpTo
    <2>3. h \in [0..n + 1 -> Nat] /\ h[0] = 0
      BY <2>1, <2>2 DEF SumsUpTo
    <2>4. \A i \in 1..n + 1 : h[i] = h[i - 1] + sizes[i]
      <3> SUFFICES ASSUME NEW i \in 1..n + 1 PROVE h[i] = h[i - 1] + sizes[i]
        OBVIOUS
      <3>1. i \in 0..n + 1 /\ i - 1 \in 0..n /\ i - 1 # n + 1
        OBVIOUS
      <3>2. h[i - 1] = g[i - 1]
        BY <3>1
      <3>3. CASE i = n + 1
        BY <3>2, <3>3
      <3>4. CASE i # n + 1
        BY <2>1, <3>2, <3>4 DEF SumsUpTo
      <3> QED
        BY <3>3, <3>4
    <2> QED
      BY <2>3, <2>4 DEF SumsUpTo
  <1>3. \A n \in Nat : n \in S
    <2> HIDE DEF S
    <2> QED
      BY <1>1, <1>2, InductiveSet
  <1>4. PICK g : SumsUpTo(g, sizes, Len(sizes))
    BY <1>3
  <1>5. IsRoom(g, sizes)
    <2>1. \A i \in 0..Len(sizes) :
            g[i] = IF i = 0 THEN 0 ELSE g[i - 1] + sizes[i]
      BY <1>4 DEF SumsUpTo
    <2> QED
      BY <1>4, <2>1 DEF SumsUpTo, IsRoom
  <1>6. IsRoom(RoomTo(sizes), sizes)
    BY <1>5, RoomToIs
  <1> DEFINE f == RoomTo(sizes)
  <1>7. /\ f = [i \in 0..Len(sizes) |-> IF i = 0 THEN 0 ELSE f[i - 1] + sizes[i]]
    BY <1>6 DEF IsRoom
  <1> HIDE DEF f
  <1>8. f[0] = 0 /\ \A i \in 1..Len(sizes) : f[i] = f[i - 1] + sizes[i]
    <2>1. Len(sizes) \in Nat
      OBVIOUS
    <2>2. \A i \in 0..Len(sizes) : f[i] = IF i = 0 THEN 0 ELSE f[i - 1] + sizes[i]
      BY <1>7
    <2> QED
      BY <2>1, <2>2
  <1> DEFINE U == {n \in Nat : n <= Len(sizes) => f[n] \in Nat}
  <1>9. \A n \in Nat : n \in U
    <2>1. 0 \in U
      BY <1>8
    <2>2. ASSUME NEW n \in Nat, n \in U PROVE n + 1 \in U
      <3> SUFFICES ASSUME n + 1 <= Len(sizes) PROVE f[n + 1] \in Nat
        OBVIOUS
      <3>1. f[n] \in Nat /\ sizes[n + 1] \in Nat /\ n + 1 \in 1..Len(sizes)
            /\ n + 1 - 1 = n
        BY <2>2
      <3> QED
        BY <1>8, <3>1
    <2> HIDE DEF U
    <2> QED
      BY <2>1, <2>2, InductiveSet
  <1>10. f \in [0..Len(sizes) -> Nat]
    <2>1. \A i \in 0..Len(sizes) : f[i] \in Nat
      BY <1>9
    <2>2. f = [i \in 0..Len(sizes) |-> f[i]]
      BY <1>7
    <2> QED
      BY <2>1, <2>2
  <1> QED
    BY <1>8, <1>10 DEF SumsUpTo, f

(* Equal sizes, at a distance of k, have equal sums.                       *)
LEMMA SumsShifted ==
    ASSUME NEW s \in Seq(Nat), NEW t \in Seq(Nat), NEW k \in Nat, NEW n \in Nat,
           n <= Len(s), k + n <= Len(t), \A i \in 1..n : t[k + i] = s[i]
    PROVE  RoomTo(t)[k + n] = RoomTo(t)[k] + RoomTo(s)[n]
  <1> DEFINE f == RoomTo(s)
             g == RoomTo(t)
             S == {i \in Nat : i <= n => g[k + i] = g[k] + f[i]}
  <1>1. /\ f \in [0..Len(s) -> Nat] /\ f[0] = 0
        /\ \A i \in 1..Len(s) : f[i] = f[i - 1] + s[i]
        /\ g \in [0..Len(t) -> Nat]
        /\ \A i \in 1..Len(t) : g[i] = g[i - 1] + t[i]
        /\ Len(s) \in Nat /\ Len(t) \in Nat
    BY RoomToSums DEF SumsUpTo
  <1>0. \A i \in 1..Len(s) : s[i] \in Nat
    OBVIOUS
  <1> HIDE DEF f, g
  <1>2. 0 \in S
    <2>1. k \in 0..Len(t) /\ k + 0 = k
      BY <1>1
    <2>2. g[k] \in Nat
      BY <1>1, <2>1
    <2> QED
      BY <1>1, <2>1, <2>2
  <1>3. ASSUME NEW i \in Nat, i \in S PROVE i + 1 \in S
    <2> SUFFICES ASSUME i + 1 <= n PROVE g[k + (i + 1)] = g[k] + f[i + 1]
      OBVIOUS
    <2>1. /\ i + 1 \in 1..n /\ i + 1 \in 1..Len(s) /\ k + (i + 1) \in 1..Len(t)
          /\ i + 1 - 1 = i /\ k + (i + 1) - 1 = k + i
          /\ k \in 0..Len(t) /\ i \in 0..Len(s)
      BY <1>1
    <2>9. PICK j, l : j = k + (i + 1) /\ l = i + 1
      OBVIOUS
    <2>10. j \in 1..Len(t) /\ l \in 1..Len(s) /\ j - 1 = k + i /\ l - 1 = i
      BY <2>1, <2>9
    <2>11. g[j] = g[j - 1] + t[j]
      BY <1>1, <2>10
    <2>12. f[l] = f[l - 1] + s[l]
      BY <1>1, <2>10
    <2>2. g[k + (i + 1)] = g[k + i] + t[k + (i + 1)] /\ f[i + 1] = f[i] + s[i + 1]
      BY <2>9, <2>10, <2>11, <2>12
    <2>3. t[k + (i + 1)] = s[i + 1]
      BY <2>1
    <2>4. s[i + 1] \in Nat
      BY <1>0, <2>1
    <2>5. g[k] \in Nat /\ f[i] \in Nat
      BY <1>1, <2>1
    <2>6. g[k + i] = g[k] + f[i]
      BY <1>3
    <2> DEFINE a == g[k]
               b == f[i]
               c == s[i + 1]
    <2>7. /\ a \in Nat /\ b \in Nat /\ c \in Nat
          /\ g[k + (i + 1)] = a + b + c /\ f[i + 1] = b + c
      BY <2>2, <2>3, <2>4, <2>5, <2>6
    <2> HIDE DEF S, a, b, c
    <2>8. a + b + c = a + (b + c)
      BY <2>7
    <2> QED
      BY <2>7, <2>8 DEF a
  <1>4. \A i \in Nat : i \in S
    <2> HIDE DEF S
    <2> QED
      BY <1>2, <1>3, InductiveSet
  <1> QED
    BY <1>4 DEF f, g

LEMMA RoomNat ==
    ASSUME NEW sizes \in Seq(Nat)
    PROVE  /\ Room(sizes) \in Nat
           /\ Room(<<>>) = 0
           /\ \A i \in 1..Len(sizes) : Before(sizes, i) \in Nat
  <1>1. SumsUpTo(RoomTo(sizes), sizes, Len(sizes)) /\ Len(sizes) \in Nat
    BY RoomToSums
  <1>2. <<>> \in Seq(Nat) /\ Len(<<>>) = 0
    OBVIOUS
  <1>3. RoomTo(<<>>)[0] = 0
    BY <1>2, RoomToSums DEF SumsUpTo
  <1>4. RoomTo(sizes) \in [0..Len(sizes) -> Nat]
    BY <1>1 DEF SumsUpTo
  <1>5. \A i \in 1..Len(sizes) : i - 1 \in 0..Len(sizes)
    BY <1>1
  <1>6. Len(sizes) \in 0..Len(sizes)
    BY <1>1
  <1>7. Room(sizes) \in Nat
    BY <1>4, <1>6 DEF Room
  <1>8. \A i \in 1..Len(sizes) : Before(sizes, i) \in Nat
    BY <1>4, <1>5 DEF Before
  <1> QED
    BY <1>2, <1>3, <1>7, <1>8 DEF Room

LEMMA RoomConcat ==
    ASSUME NEW s \in Seq(Nat), NEW t \in Seq(Nat)
    PROVE  Room(s \o t) = Room(s) + Room(t)
  <1> DEFINE u == s \o t
  <1>1. /\ u \in Seq(Nat) /\ Len(u) = Len(s) + Len(t) /\ Len(s) \in Nat /\ Len(t) \in Nat
        /\ \A i \in 1..Len(s) : u[i] = s[i]
        /\ \A i \in 1..Len(t) : u[Len(s) + i] = t[i]
    OBVIOUS
  <1> HIDE DEF u
  <1>2. RoomTo(u)[0 + Len(s)] = RoomTo(u)[0] + RoomTo(s)[Len(s)]
    <2>1. \A i \in 1..Len(s) : 0 + i = i
      OBVIOUS
    <2>2. \A i \in 1..Len(s) : u[0 + i] = s[i]
      BY <1>1, <2>1
    <2>3. 0 \in Nat /\ Len(s) <= Len(s) /\ 0 + Len(s) <= Len(u)
      BY <1>1
    <2> QED
      BY <1>1, <2>2, <2>3, SumsShifted
  <1>3. RoomTo(u)[Len(s) + Len(t)] = RoomTo(u)[Len(s)] + RoomTo(t)[Len(t)]
    <2>1. /\ Len(s) \in Nat /\ Len(t) \in Nat
          /\ Len(t) <= Len(t) /\ Len(s) + Len(t) <= Len(u)
      BY <1>1
    <2>2. \A i \in 1..Len(t) : u[Len(s) + i] = t[i]
      BY <1>1
    <2>3. u \in Seq(Nat)
      BY <1>1
    <2> QED
      BY <2>1, <2>2, <2>3, SumsShifted
  <1>4. RoomTo(u)[0] = 0
    BY <1>1, RoomToSums DEF SumsUpTo
  <1>5. RoomTo(s)[Len(s)] \in Nat /\ RoomTo(t)[Len(t)] \in Nat
    BY RoomNat DEF Room
  <1> QED
    BY <1>1, <1>2, <1>3, <1>4, <1>5 DEF Room, u

LEMMA RoomOne ==
    ASSUME NEW size \in Nat
    PROVE  Room(<<size>>) = size
  <1>1. <<size>> \in Seq(Nat) /\ Len(<<size>>) = 1 /\ <<size>>[1] = size
    OBVIOUS
  <1> DEFINE q == <<size>>
  <1> HIDE DEF q
  <1>2. q \in Seq(Nat) /\ Len(q) = 1 /\ q[1] = size
    BY <1>1 DEF q
  <1>3. /\ RoomTo(q)[0] = 0
        /\ \A i \in 1..1 : RoomTo(q)[i] = RoomTo(q)[i - 1] + q[i]
    BY <1>2, RoomToSums DEF SumsUpTo
  <1>4. RoomTo(q)[1] = RoomTo(q)[1 - 1] + q[1]
    BY <1>3
  <1>5. RoomTo(q)[1] = size
    BY <1>2, <1>3, <1>4
  <1> QED
    BY <1>2, <1>5 DEF Room, q

-----------------------------------------------------------------------------
(* The blocks of a length, and the buffers cut to one.                     *)
LEMMA BlockCountOf ==
    ASSUME NEW len \in Nat
    PROVE  /\ BlockCount(len) \in Nat
           /\ len > 0 <=> BlockCount(len) > 0
           /\ len > 0 => /\ (BlockCount(len) - 1) * gMaxBlockSize < len
                         /\ len <= (BlockCount(len) - 1) * gMaxBlockSize + gMaxBlockSize
  <1> DEFINE g == gMaxBlockSize
             a == len + g - 1
             b == a \div g
             p == (b - 1) * g
  <1>1. g \in Nat /\ g > 0
    BY StreamAssumption
  <1> HIDE DEF g
  <1>2. a \in Nat
    BY <1>1
  <1> HIDE DEF a
  <1>3. /\ b \in Nat /\ a % g \in Nat /\ a % g < g /\ a = (g * b) + (a % g)
    BY <1>1, <1>2
  <1> HIDE DEF b
  <1>4. g * b = p + g /\ p \in Int
    BY <1>1, <1>3
  <1> HIDE DEF p
  <1>5. b = 0 => p = 0 - g
    BY <1>1, <1>3 DEF p
  <1>6. b > 0 => p >= 0
    <2>1. ASSUME NEW x \in Nat, NEW y \in Nat PROVE x * y >= 0
      BY <2>1
    <2> QED
      BY <1>1, <1>3, <2>1 DEF p
  <1>7. a = len + g - 1
    BY DEF a
  <1>8. p + g + (a % g) = len + g - 1
    BY <1>3, <1>4, <1>7
  <1>9. p < len /\ len <= p + g
    BY <1>1, <1>3, <1>4, <1>8
  <1>10. len > 0 <=> b > 0
    BY <1>1, <1>3, <1>4, <1>5, <1>6, <1>8
  <1> QED
    BY <1>3, <1>9, <1>10 DEF BlockCount, g, a, b, p

LEMMA BlocksOf ==
    ASSUME NEW len \in Nat
    PROVE  /\ BlockSizes(len) \in Seq(Nat) /\ Len(BlockSizes(len)) = BlockCount(len)
           /\ Room(BlockSizes(len)) = len
  <1> DEFINE q == BlockSizes(len)
             b == BlockCount(len)
             g == gMaxBlockSize
  <1>1. g \in Nat /\ g > 0
    BY StreamAssumption
  <1>2. /\ b \in Nat
        /\ len > 0 <=> b > 0
        /\ len > 0 => (b - 1) * g < len
    BY BlockCountOf
  <1>3. q = [i \in 1..b |-> IF i < b THEN g ELSE len - (b - 1) * g]
    BY DEF BlockSizes
  <1> HIDE DEF q, b, g
  <1>4. b > 0 => len - (b - 1) * g \in Nat
    <2> DEFINE p == (b - 1) * g
    <2>1. p \in Int
      BY <1>1, <1>2
    <2>2. b > 0 => p < len
      BY <1>2
    <2> HIDE DEF p
    <2>3. b > 0 => len - p \in Nat
      BY <2>1, <2>2
    <2> QED
      BY <2>3 DEF p
  <1>5. q \in Seq(Nat) /\ Len(q) = b
    BY <1>1, <1>2, <1>3, <1>4
  <1> DEFINE f == RoomTo(q)
             S == {i \in Nat : i < b => f[i] = i * g}
  <1>6. f[0] = 0 /\ \A i \in 1..b : f[i] = f[i - 1] + q[i]
    BY <1>5, RoomToSums DEF SumsUpTo
  <1> HIDE DEF f
  <1>7. 0 \in S
    BY <1>1, <1>6
  <1>8. ASSUME NEW i \in Nat, i \in S PROVE i + 1 \in S
    <2> SUFFICES ASSUME i + 1 < b PROVE f[i + 1] = (i + 1) * g
      OBVIOUS
    <2>1. i + 1 \in 1..b /\ i + 1 - 1 = i /\ i < b
      BY <1>2
    <2>2. f[i + 1] = f[i] + q[i + 1] /\ q[i + 1] = g
      BY <1>3, <1>6, <2>1
    <2>3. f[i] = i * g
      BY <1>8, <2>1
    <2>4. i * g + g = (i + 1) * g
      BY <1>1
    <2> HIDE DEF S
    <2> QED
      BY <2>2, <2>3, <2>4
  <1>9. \A i \in Nat : i \in S
    <2> HIDE DEF S
    <2> QED
      BY <1>7, <1>8, InductiveSet
  <1>10. CASE b = 0
    <2>1. Len(q) = 0 /\ len = 0
      BY <1>2, <1>5, <1>10
    <2>2. Room(q) = 0
      BY <1>6, <2>1 DEF Room, f
    <2> QED
      BY <1>5, <2>1, <2>2 DEF q, b
  <1>11. CASE b > 0
    <2>1. b - 1 \in Nat /\ b - 1 < b /\ b \in 1..b
      BY <1>2, <1>11
    <2>2. f[b - 1] = (b - 1) * g
      BY <1>9, <2>1
    <2>3. f[b] = f[b - 1] + q[b] /\ q[b] = len - (b - 1) * g
      BY <1>2, <1>3, <1>6, <2>1
    <2>4. (b - 1) * g \in Int
      BY <1>1, <1>2
    <2> DEFINE p == (b - 1) * g
    <2>5. f[b] = p + (len - p) /\ p \in Int
      BY <2>2, <2>3, <2>4
    <2> HIDE DEF p
    <2>6. f[b] = len
      BY <2>5
    <2> QED
      BY <1>5, <2>6 DEF Room, f, q, b
  <1> QED
    BY <1>2, <1>5, <1>10, <1>11 DEF q, b

LEMMA CutOf ==
    ASSUME NEW sizes \in Seq(Nat), NEW len \in Nat, Room(sizes) >= len
    PROVE  /\ CutTo(sizes, len) \in Seq(Nat) /\ Len(CutTo(sizes, len)) = Len(sizes)
           /\ Room(CutTo(sizes, len)) = len
  <1> DEFINE q == CutTo(sizes, len)
             f == RoomTo(sizes)
             g == RoomTo(q)
             n == Len(sizes)
             S == {i \in Nat : i <= n => g[i] = LeastOf(f[i], len)}
  <1>0. n \in Nat /\ \A i \in 1..n : sizes[i] \in Nat
    OBVIOUS
  <1>1. /\ f \in [0..n -> Nat] /\ f[0] = 0
        /\ \A i \in 1..n : f[i] = f[i - 1] + sizes[i]
    BY RoomToSums DEF SumsUpTo
  <1>2. q = [i \in 1..n |-> IF f[i - 1] >= len THEN 0
                            ELSE LeastOf(sizes[i], len - f[i - 1])]
    BY DEF CutTo, Before
  <1> HIDE DEF f, q
  <1>3. \A i \in 1..n : q[i] \in Nat
    <2> SUFFICES ASSUME NEW i \in 1..n PROVE q[i] \in Nat
      OBVIOUS
    <2>1. f[i - 1] \in Nat /\ sizes[i] \in Nat
      BY <1>0, <1>1
    <2> QED
      BY <1>2, <2>1 DEF LeastOf
  <1>4. q \in Seq(Nat) /\ Len(q) = n
    <2>1. q \in [1..n -> Nat]
      BY <1>2, <1>3
    <2> HIDE DEF n
    <2> QED
      BY <1>0, <2>1
  <1>5. g[0] = 0 /\ \A i \in 1..n : g[i] = g[i - 1] + q[i]
    BY <1>4, RoomToSums DEF SumsUpTo
  <1> HIDE DEF g, n
  <1>6. 0 \in S
    BY <1>1, <1>5 DEF LeastOf
  <1>7. ASSUME NEW i \in Nat, i \in S PROVE i + 1 \in S
    <2> SUFFICES ASSUME i + 1 <= n PROVE g[i + 1] = LeastOf(f[i + 1], len)
      OBVIOUS
    <2>1. i + 1 \in 1..n /\ i + 1 - 1 = i /\ i <= n /\ i \in 0..n
      BY <1>0
    <2>2. g[i + 1] = g[i] + q[i + 1] /\ g[i] = LeastOf(f[i], len)
      BY <1>5, <1>7, <2>1
    <2>3. f[i + 1] = f[i] + sizes[i + 1] /\ f[i] \in Nat /\ sizes[i + 1] \in Nat
      BY <1>0, <1>1, <2>1
    <2>4. q[i + 1] = IF f[i] >= len THEN 0 ELSE LeastOf(sizes[i + 1], len - f[i])
      BY <1>2, <2>1
    <2> DEFINE a == f[i]
               c == sizes[i + 1]
               d == g[i]
               e == q[i + 1]
    <2>5. /\ a \in Nat /\ c \in Nat /\ f[i + 1] = a + c /\ g[i + 1] = d + e
          /\ d = IF a <= len THEN a ELSE len
          /\ e = IF a >= len THEN 0 ELSE IF c <= len - a THEN c ELSE len - a
      BY <2>2, <2>3, <2>4 DEF LeastOf
    <2> HIDE DEF S, a, c, d, e
    <2>6. d + e = IF a + c <= len THEN a + c ELSE len
      BY <2>5
    <2> QED
      BY <2>5, <2>6 DEF LeastOf
  <1>8. \A i \in Nat : i \in S
    <2> HIDE DEF S
    <2> QED
      BY <1>6, <1>7, InductiveSet
  <1>9. g[n] = LeastOf(f[n], len)
    BY <1>0, <1>8
  <1>10. f[n] >= len /\ f[n] \in Nat
    BY <1>0, <1>1 DEF Room, f, n
  <1>11. g[n] = len
    BY <1>9, <1>10 DEF LeastOf
  <1> QED
    BY <1>4, <1>11 DEF Room, q, g, n

LEMMA RspSizesOf ==
    ASSUME NEW sizes \in Seq(Nat), sizes # <<>>, NEW len \in Nat
    PROVE  /\ RspSizes(sizes, len) \in Seq(Nat) /\ RspSizes(sizes, len) # <<>>
           /\ Room(RspSizes(sizes, len)) = len
  <1>1. Room(sizes) \in Nat /\ Len(sizes) \in Nat \ {0}
    BY RoomNat
  <1>2. CASE Room(sizes) >= len
    <2>1. RspSizes(sizes, len) = CutTo(sizes, len)
      BY <1>2 DEF RspSizes
    <2>2. CutTo(sizes, len) \in Seq(Nat) /\ Len(CutTo(sizes, len)) # 0
          /\ Room(CutTo(sizes, len)) = len
      BY <1>1, <1>2, CutOf
    <2>3. Len(<<>>) = 0
      OBVIOUS
    <2> QED
      BY <2>1, <2>2, <2>3
  <1>3. CASE ~(Room(sizes) >= len)
    <2> DEFINE more == BlockSizes(len - Room(sizes))
    <2>1. len - Room(sizes) \in Nat
      BY <1>1, <1>3
    <2>2. more \in Seq(Nat) /\ Room(more) = len - Room(sizes)
      BY <2>1, BlocksOf
    <2>3. RspSizes(sizes, len) = sizes \o more
      BY <1>3 DEF RspSizes
    <2> HIDE DEF more
    <2>4. sizes \o more \in Seq(Nat) /\ Len(sizes \o more) = Len(sizes) + Len(more)
      BY <2>2
    <2>5. Len(more) \in Nat /\ Len(<<>>) = 0
      BY <2>2
    <2>6. Len(sizes \o more) # Len(<<>>)
      BY <1>1, <2>4, <2>5
    <2>7. Room(sizes \o more) = Room(sizes) + Room(more)
      BY <2>2, RoomConcat
    <2> QED
      BY <1>1, <2>2, <2>3, <2>4, <2>6, <2>7
  <1> QED
    BY <1>2, <1>3

-----------------------------------------------------------------------------
(* Part 2.  Types.                                                         *)
SendTyped ==
    /\ posted \in Seq(Shapes) /\ Len(posted) <= MaxMessages
    /\ mSendQ \in Seq([id : Ids, units : Seq(Units), last : BOOLEAN])
    /\ sendFile \in Seq(Units)
    /\ truncated \subseteq Ids /\ closed \in BOOLEAN
WireTyped == wire \in Seq(Units) /\ Len(wire) <= WireMax
RecvTyped ==
    /\ mRecvQ \in Seq(RecvVecs)
    /\ mCurRecvBlock \in RecvVecs \cup {Nil}
    /\ mNextRecvPart \in States
    /\ cbp \in [cev : Ids \cup {Nil}, attLen : Nat, fileLen : Nat,
                remainVecs : Nat, drainLen : Nat]
    /\ data \in Seq(Units)
    /\ mSendEventMap \subseteq Ids
    /\ buffers \in UserBuffers
    /\ reply \in [Ids -> {"none", "answer", "malformed", "failure", "twice"}]
    /\ handed \in Seq([id : Ids, data : Seq(Units)])
    /\ ended \in {"open", "broken", "cleaned", "assert", "misread"}

LEMMA TypeParts == TypeOK <=> SendTyped /\ WireTyped /\ RecvTyped
  BY DEF TypeOK, SendTyped, WireTyped, RecvTyped

(* What is in the send queue belongs to posted messages.                   *)
PostedUnits(q) == \A i \in DOMAIN q : q[i].id \in DOMAIN posted
BlocksPosted ==
    \A b \in DOMAIN mSendQ :
        mSendQ[b].id \in DOMAIN posted /\ PostedUnits(mSendQ[b].units)

(* What a step changes: a sending step nothing of the receiver, and a      *)
(* callback nothing of the sender and of the wire.                         *)
recvVars == <<mRecvQ, mCurRecvBlock, mNextRecvPart, cbp, data, buffers, eventVars, ended>>
SenderStep ==
    \/ \E m \in Shapes : PostSend(m)
    \/ SendStep \/ PeerClose
CallbackStep ==
    \/ MisreadHeader \/ AlienHeader \/ HeaderCallback \/ HeaderAssert
    \/ MessageStep \/ RecvAttach
    \/ \E written \in BOOLEAN : RecvFile(written)
    \/ RecvDrain

LEMMA StepKinds ==
    ASSUME [Next]_vars
    PROVE  \/ SenderStep \/ TakeVec \/ CallbackStep \/ RecvBroken \/ Cleanup
           \/ \E k \in 1..WireMax : RecvVec(k)
           \/ UNCHANGED vars
  BY DEF Next, RecvStep, SenderStep, CallbackStep

LEMMA SenderFrame ==
    ASSUME SenderStep
    PROVE  UNCHANGED recvVars /\ ~closed
  BY DEF SenderStep, SendStep, PostSend, SendVec, SendCallback, SendFile, PeerClose,
         recvVars, eventVars

LEMMA CallbackFrame ==
    ASSUME CallbackStep
    PROVE  UNCHANGED <<sendVars, wire, buffers>> /\ ended = "open" /\ Done
  BY DEF CallbackStep, MessageStep, MisreadHeader, AlienHeader, HeaderCallback,
         HeaderAssert, MessageUnusable, RecvReqMsg, RecvRspMsg, RecvAttach, RecvFile,
         RecvDrain, NothingSent, Callback

-----------------------------------------------------------------------------
(* The parts of a sequence.                                                *)
LEMMA CutSeq ==
    ASSUME NEW S, NEW q \in Seq(S), NEW k \in Nat, k <= Len(q)
    PROVE  /\ SubSeq(q, 1, k) \in Seq(S) /\ Len(SubSeq(q, 1, k)) = k
           /\ \A i \in 1..k : SubSeq(q, 1, k)[i] = q[i]
           /\ SubSeq(q, k + 1, Len(q)) \in Seq(S)
           /\ Len(SubSeq(q, k + 1, Len(q))) = Len(q) - k
           /\ \A i \in 1..Len(q) - k : SubSeq(q, k + 1, Len(q))[i] = q[k + i]
  <1>1. Len(q) \in Nat /\ \A i \in 1..Len(q) : q[i] \in S
    OBVIOUS
  <1>2. /\ SubSeq(q, 1, k) = [i \in 1..k |-> q[1 + i - 1]]
        /\ \A i \in 1..k : 1 + i - 1 = i
    OBVIOUS
  <1>3. SubSeq(q, 1, k) \in Seq(S) /\ Len(SubSeq(q, 1, k)) = k
    BY <1>1
  <1>4. SubSeq(q, k + 1, Len(q)) = [i \in 1..Len(q) - k |-> q[k + i]]
    BY <1>1
  <1>5. \A i \in 1..Len(q) - k : q[k + i] \in S
    BY <1>1
  <1>6. [i \in 1..Len(q) - k |-> q[k + i]] \in [1..Len(q) - k -> S] /\ Len(q) - k \in Nat
    BY <1>1, <1>5
  <1> QED
    BY <1>1, <1>2, <1>3, <1>4, <1>6

LEMMA ConcatOf ==
    ASSUME NEW S, NEW s \in Seq(S), NEW t \in Seq(S)
    PROVE  /\ s \o t \in Seq(S) /\ Len(s \o t) = Len(s) + Len(t)
           /\ Len(s) \in Nat /\ Len(t) \in Nat
           /\ \A i \in 1..Len(s) : (s \o t)[i] = s[i]
           /\ \A i \in 1..Len(t) : (s \o t)[Len(s) + i] = t[i]
  OBVIOUS

LEMMA ConsOf ==
    ASSUME NEW S, NEW v \in S, NEW q \in Seq(S)
    PROVE  /\ <<v>> \o q \in Seq(S) /\ Len(<<v>> \o q) = 1 + Len(q) /\ Len(q) \in Nat
           /\ <<v>> \o q = [i \in 1..1 + Len(q) |-> (<<v>> \o q)[i]]
           /\ (<<v>> \o q)[1] = v
           /\ \A i \in 1..Len(q) : (<<v>> \o q)[1 + i] = q[i]
           /\ <<>> \o q = q
  <1> DEFINE s == <<v>>
             u == s \o q
  <1>0. s \in Seq(S)
    OBVIOUS
  <1>1. Len(s) = 1 /\ s[1] = v /\ <<>> \o q = q
    OBVIOUS
  <1> HIDE DEF s
  <1>2. /\ u \in Seq(S) /\ Len(u) = Len(s) + Len(q) /\ Len(q) \in Nat
        /\ \A i \in 1..Len(s) : u[i] = s[i]
        /\ \A i \in 1..Len(q) : u[Len(s) + i] = q[i]
    BY <1>0, ConcatOf
  <1> HIDE DEF u
  <1>3. u = [i \in 1..Len(u) |-> u[i]]
    BY <1>2
  <1>4. /\ Len(u) = 1 + Len(q) /\ u[1] = v
        /\ \A i \in 1..Len(q) : u[1 + i] = q[i]
    BY <1>1, <1>2
  <1> QED
    BY <1>1, <1>2, <1>3, <1>4 DEF s, u

LEMMA UnitsTyped ==
    ASSUME NEW id \in Ids, NEW part \in Parts, NEW len \in Nat
    PROVE  /\ UnitsOf(id, part, len) \in Seq(Units) /\ Len(UnitsOf(id, part, len)) = len
           /\ \A n \in 1..len :
                UnitsOf(id, part, len)[n] = [id |-> id, part |-> part, n |-> n]
  <1>1. \A n \in 1..len : [id |-> id, part |-> part, n |-> n] \in Units
    BY DEF Units
  <1> QED
    BY <1>1 DEF UnitsOf

LEMMA ShapeTyped ==
    ASSUME SendTyped
    PROVE  /\ Len(posted) \in Nat /\ DOMAIN posted = 1..Len(posted)
           /\ DOMAIN posted \subseteq Ids
           /\ \A id \in DOMAIN posted :
                /\ posted[id] \in Shapes /\ posted[id].kind \in Kinds
                /\ posted[id].att \in Nat /\ posted[id].file \in Nat
  <1>1. /\ posted \in Seq(Shapes) /\ Len(posted) <= MaxMessages /\ MaxMessages \in Nat
    BY StreamAssumption DEF SendTyped
  <1>2. Shapes \subseteq [kind : Kinds, att : Nat, file : Nat]
    BY StreamAssumption
  <1>3. Len(posted) \in Nat /\ DOMAIN posted = 1..Len(posted)
    BY <1>1
  <1>4. \A id \in 1..Len(posted) : posted[id] \in Shapes
    BY <1>1
  <1> QED
    BY <1>1, <1>2, <1>3, <1>4 DEF Ids

Blocks == [id : Ids, units : Seq(Units), last : BOOLEAN]

LEMMA IoVecsTyped ==
    ASSUME NEW id \in Ids, NEW m \in Shapes
    PROVE  IoVecsOf(id, m) \in Seq(Blocks)
  <1> DEFINE first == UnitsOf(id, "header", 1) \o UnitsOf(id, "message", 1)
             rest == UnitsOf(id, "att", m.att)
  <1>1. m.att \in Nat /\ 1 \in Nat /\ {"header", "message", "att"} \subseteq Parts
    BY StreamAssumption DEF Parts
  <1>2. first \in Seq(Units) /\ rest \in Seq(Units)
    <2>1. UnitsOf(id, "header", 1) \in Seq(Units)
      BY <1>1, UnitsTyped
    <2>2. UnitsOf(id, "message", 1) \in Seq(Units)
      BY <1>1, UnitsTyped
    <2>3. rest \in Seq(Units)
      BY <1>1, UnitsTyped
    <2> QED
      BY <2>1, <2>2, <2>3
  <1> HIDE DEF first, rest
  <1>3. /\ [id |-> id, units |-> first, last |-> TRUE] \in Blocks
        /\ [id |-> id, units |-> first, last |-> FALSE] \in Blocks
        /\ [id |-> id, units |-> rest, last |-> TRUE] \in Blocks
    BY <1>2 DEF Blocks
  <1>4. IoVecsOf(id, m) =
          IF m.att = 0 THEN <<[id |-> id, units |-> first, last |-> TRUE]>>
          ELSE <<[id |-> id, units |-> first, last |-> FALSE],
                 [id |-> id, units |-> rest, last |-> TRUE]>>
    BY DEF IoVecsOf, first, rest
  <1> QED
    BY <1>3, <1>4

(* The current block.                                                      *)
LEMMA HeadBlock ==
    ASSUME SendTyped, mSendQ # <<>>
    PROVE  /\ Head(mSendQ) \in Blocks /\ Head(mSendQ) = mSendQ[1]
           /\ 1 \in DOMAIN mSendQ /\ DOMAIN mSendQ = 1..Len(mSendQ)
           /\ Head(mSendQ).units \in Seq(Units) /\ Head(mSendQ).id \in Ids
           /\ Tail(mSendQ) \in Seq(Blocks) /\ Len(Tail(mSendQ)) = Len(mSendQ) - 1
           /\ \A b \in DOMAIN Tail(mSendQ) :
                b + 1 \in DOMAIN mSendQ /\ Tail(mSendQ)[b] = mSendQ[b + 1]
  <1>1. mSendQ \in Seq(Blocks)
    BY DEF SendTyped, Blocks
  <1> HIDE DEF Blocks
  <1>2. /\ Head(mSendQ) \in Blocks /\ Head(mSendQ) = mSendQ[1]
        /\ 1 \in DOMAIN mSendQ /\ DOMAIN mSendQ = 1..Len(mSendQ)
        /\ Tail(mSendQ) \in Seq(Blocks) /\ Len(Tail(mSendQ)) = Len(mSendQ) - 1
        /\ \A b \in DOMAIN Tail(mSendQ) :
             b + 1 \in DOMAIN mSendQ /\ Tail(mSendQ)[b] = mSendQ[b + 1]
    BY <1>1
  <1> QED
    BY <1>2 DEF Blocks

LEMMA TypeSender ==
    ASSUME SendTyped, WireTyped, BlocksPosted, SenderStep
    PROVE  SendTyped' /\ WireTyped'
  <1>1. ASSUME NEW m \in Shapes, PostSend(m) PROVE SendTyped' /\ WireTyped'
    <2>1. PICK id : id = Len(posted) + 1
      OBVIOUS
    <2>2. /\ id \in Ids /\ posted' = Append(posted, m)
          /\ mSendQ' = mSendQ \o IoVecsOf(id, m)
          /\ UNCHANGED <<sendFile, truncated, closed, wire>>
      BY <1>1, <2>1 DEF PostSend
    <2>3. posted' \in Seq(Shapes) /\ Len(posted') = id /\ id <= MaxMessages
      BY <2>1, <2>2 DEF SendTyped, Ids
    <2>4. mSendQ' \in Seq(Blocks)
      <3>1. mSendQ \in Seq(Blocks) /\ IoVecsOf(id, m) \in Seq(Blocks)
        BY <2>2, IoVecsTyped DEF SendTyped, Blocks
      <3> HIDE DEF Blocks
      <3> QED
        BY <2>2, <3>1
    <2> QED
      BY <2>2, <2>3, <2>4 DEF SendTyped, WireTyped, Blocks
  <1>2. ASSUME NEW k \in 1..WireMax, SendVec(k) PROVE SendTyped' /\ WireTyped'
    <2>1. PICK u : u = Head(mSendQ).units
      OBVIOUS
    <2>2. /\ mSendQ # <<>> /\ k <= Len(u) /\ Len(wire) + k <= WireMax
          /\ wire' = wire \o SubSeq(u, 1, k)
          /\ mSendQ' = [mSendQ EXCEPT ![1].units = SubSeq(@, k + 1, Len(@))]
          /\ UNCHANGED <<posted, sendFile, truncated, closed>>
      BY <1>2, <2>1 DEF SendVec
    <2>3. k \in Nat /\ u \in Seq(Units) /\ u = mSendQ[1].units
      BY <2>1, <2>2, HeadBlock, StreamAssumption
    <2>4. /\ SubSeq(u, 1, k) \in Seq(Units) /\ Len(SubSeq(u, 1, k)) = k
          /\ SubSeq(u, k + 1, Len(u)) \in Seq(Units)
      BY <2>2, <2>3, CutSeq
    <2>5. wire' \in Seq(Units) /\ Len(wire') <= WireMax
      <3> DEFINE v == SubSeq(u, 1, k)
      <3> HIDE DEF v
      <3>1. v \in Seq(Units) /\ Len(v) = k /\ wire' = wire \o v
        BY <2>2, <2>4 DEF v
      <3> QED
        BY <2>2, <3>1 DEF WireTyped
    <2>6. mSendQ' \in Seq(Blocks)
      <3> DEFINE v == SubSeq(u, k + 1, Len(u))
                 w == [mSendQ[1] EXCEPT !.units = v]
      <3>1. mSendQ' = [mSendQ EXCEPT ![1] = w]
        BY <2>2, <2>3
      <3>2. mSendQ \in Seq(Blocks) /\ mSendQ[1] \in Blocks /\ 1 \in DOMAIN mSendQ
        BY <2>2, HeadBlock DEF SendTyped, Blocks
      <3>3. w \in Blocks
        BY <2>4, <3>2 DEF Blocks
      <3> HIDE DEF w, Blocks
      <3> QED
        BY <3>1, <3>2, <3>3
    <2> QED
      BY <2>2, <2>5, <2>6 DEF SendTyped, WireTyped, Blocks
  <1>3. ASSUME NEW opened \in BOOLEAN, SendCallback(opened) PROVE SendTyped' /\ WireTyped'
    <2>1. PICK iov : iov = Head(mSendQ)
      OBVIOUS
    <2>2. /\ mSendQ # <<>> /\ mSendQ' = Tail(mSendQ)
          /\ \/ sendFile' = UnitsOf(iov.id, "file", posted[iov.id].file)
             \/ sendFile' = <<>>
          /\ truncated' = truncated \cup {iov.id} \/ truncated' = truncated
          /\ UNCHANGED <<posted, closed, wire>>
      BY <1>3, <2>1 DEF SendCallback
    <2>3. iov.id \in DOMAIN posted /\ iov.id \in Ids
      BY <2>1, <2>2, HeadBlock, ShapeTyped DEF BlocksPosted
    <2>4. posted[iov.id].file \in Nat /\ "file" \in Parts
      BY <2>3, ShapeTyped DEF Parts
    <2>5. sendFile' \in Seq(Units)
      BY <2>2, <2>3, <2>4, UnitsTyped
    <2>6. mSendQ' \in Seq(Blocks)
      BY <2>2, HeadBlock
    <2>7. truncated' \subseteq Ids
      BY <2>2, <2>3 DEF SendTyped
    <2> QED
      BY <2>2, <2>5, <2>6, <2>7 DEF SendTyped, WireTyped, Blocks
  <1>4. ASSUME SendFile PROVE SendTyped' /\ WireTyped'
    <2>1. /\ sendFile # <<>> /\ Len(wire) < WireMax
          /\ wire' = Append(wire, Head(sendFile)) /\ sendFile' = Tail(sendFile)
          /\ UNCHANGED <<posted, mSendQ, truncated, closed>>
      BY <1>4 DEF SendFile
    <2>2. sendFile \in Seq(Units) /\ wire \in Seq(Units)
      BY DEF SendTyped, WireTyped
    <2>3. sendFile' \in Seq(Units) /\ wire' \in Seq(Units) /\ Len(wire') = Len(wire) + 1
      BY <2>1, <2>2
    <2>4. Len(wire') <= WireMax
      BY <2>1, <2>2, <2>3, StreamAssumption
    <2> QED
      BY <2>1, <2>3, <2>4 DEF SendTyped, WireTyped
  <1>5. ASSUME PeerClose PROVE SendTyped' /\ WireTyped'
    BY <1>5 DEF PeerClose, SendTyped, WireTyped
  <1> QED
    BY <1>1, <1>2, <1>3, <1>4, <1>5 DEF SenderStep, SendStep

-----------------------------------------------------------------------------
(* What the callbacks are made of.                                         *)
CbpType == [cev : Ids \cup {Nil}, attLen : Nat, fileLen : Nat,
            remainVecs : Nat, drainLen : Nat]
Replies == [Ids -> {"none", "answer", "malformed", "failure", "twice"}]
Events == [id : Ids, data : Seq(Units)]
OneVecTyped == mRecvQ \in Seq(RecvVecs) /\ mCurRecvBlock \in RecvVecs

LEMMA PostTyped ==
    ASSUME OneVecTyped, NEW vecs \in Seq(RecvVecs), Post(vecs)
    PROVE  mRecvQ' \in Seq(RecvVecs) /\ mCurRecvBlock' = Nil
  <1> HIDE DEF RecvVecs
  <1> QED
    BY DEF Post, OneVecTyped

LEMMA VecTyped ==
    ASSUME NEW size \in Nat, NEW alloc \in AllocTypes
    PROVE  /\ [size |-> size, got |-> <<>>, alloc |-> alloc] \in RecvVecs
           /\ <<[size |-> size, got |-> <<>>, alloc |-> alloc]>> \in Seq(RecvVecs)
  <1>1. <<>> \in Seq(Units)
    OBVIOUS
  <1>2. [size |-> size, got |-> <<>>, alloc |-> alloc] \in RecvVecs
    BY <1>1 DEF RecvVecs
  <1> HIDE DEF RecvVecs
  <1> QED
    BY <1>2

LEMMA LeastNat ==
    ASSUME NEW a \in Nat, NEW b \in Nat
    PROVE  /\ LeastOf(a, b) \in Nat /\ LeastOf(a, b) <= a /\ LeastOf(a, b) <= b
           /\ a > 0 /\ b > 0 => LeastOf(a, b) > 0
  BY DEF LeastOf

LEMMA TypeHeader ==
    ASSUME OneVecTyped, RepostHeader
    PROVE  /\ mRecvQ' \in Seq(RecvVecs) /\ mCurRecvBlock' = Nil /\ mNextRecvPart' = "HEADER"
  <1>1. mCurRecvBlock.alloc \in AllocTypes /\ 1 \in Nat
    BY DEF OneVecTyped, RecvVecs
  <1>2. <<HeaderVec(mCurRecvBlock.alloc)>> \in Seq(RecvVecs)
    BY <1>1, VecTyped DEF HeaderVec
  <1> QED
    BY <1>2, PostTyped DEF RepostHeader

LEMMA TypeDrain ==
    ASSUME OneVecTyped, NEW len \in Nat, NEW c \in CbpType, PrepareDrain(len, c)
    PROVE  /\ mRecvQ' \in Seq(RecvVecs) /\ mCurRecvBlock' = Nil /\ mNextRecvPart' \in States
           /\ cbp' \in CbpType
  <1>1. CASE len > 0
    <2>1. /\ cbp' = [c EXCEPT !.drainLen = len, !.remainVecs = BlockCount(len)]
          /\ Post(<<[size |-> LeastOf(gMaxBlockSize, len), got |-> <<>>,
                     alloc |-> mCurRecvBlock.alloc]>>)
          /\ mNextRecvPart' = "DRAIN"
      BY <1>1 DEF PrepareDrain
    <2>2. BlockCount(len) \in Nat
      BY BlockCountOf
    <2>3. LeastOf(gMaxBlockSize, len) \in Nat
      BY StreamAssumption, LeastNat
    <2>4. mCurRecvBlock.alloc \in AllocTypes
      BY DEF OneVecTyped, RecvVecs
    <2>5. mRecvQ' \in Seq(RecvVecs) /\ mCurRecvBlock' = Nil
      BY <2>1, <2>3, <2>4, VecTyped, PostTyped
    <2>6. cbp' \in CbpType
      BY <2>1, <2>2 DEF CbpType
    <2> QED
      BY <2>1, <2>5, <2>6 DEF States
  <1>2. CASE ~(len > 0)
    <2>1. cbp' = [c EXCEPT !.cev = Nil, !.drainLen = 0] /\ RepostHeader
      BY <1>2 DEF PrepareDrain
    <2>2. cbp' \in CbpType
      BY <2>1 DEF CbpType
    <2> QED
      BY <2>1, <2>2, TypeHeader DEF States
  <1> QED
    BY <1>1, <1>2

LEMMA AttachTyped ==
    ASSUME NEW sizes \in Seq(Nat)
    PROVE  /\ AttachVecs(sizes) \in Seq(RecvVecs) /\ Len(AttachVecs(sizes)) = Len(sizes)
           /\ \A i \in 1..Len(sizes) : /\ AttachVecs(sizes)[i].size = sizes[i]
                                       /\ AttachVecs(sizes)[i].got = <<>>
  <1>1. \A i \in 1..Len(sizes) : sizes[i] \in Nat
    OBVIOUS
  <1>2. \A i \in 1..Len(sizes) :
          [size |-> sizes[i], got |-> <<>>, alloc |-> "USER_ALLOC"] \in RecvVecs
    BY <1>1, VecTyped DEF AllocTypes
  <1>3. /\ AttachVecs(sizes) = [i \in 1..Len(sizes) |->
                [size |-> sizes[i], got |-> <<>>, alloc |-> "USER_ALLOC"]]
        /\ Len(sizes) \in Nat
    BY DEF AttachVecs
  <1> HIDE DEF RecvVecs
  <1> QED
    BY <1>2, <1>3

LEMMA TypePost ==
    ASSUME OneVecTyped, NEW c \in CbpType
    PROVE  /\ \A sizes \in Seq(Nat) : PostAttach(sizes, c) =>
                /\ mRecvQ' \in Seq(RecvVecs) /\ mCurRecvBlock' = Nil
                /\ mNextRecvPart' \in States /\ cbp' \in CbpType
           /\ PostFile(c) =>
                /\ mRecvQ' \in Seq(RecvVecs) /\ mCurRecvBlock' = Nil
                /\ mNextRecvPart' \in States /\ cbp' \in CbpType
  <1>1. ASSUME NEW sizes \in Seq(Nat), PostAttach(sizes, c)
        PROVE  /\ mRecvQ' \in Seq(RecvVecs) /\ mCurRecvBlock' = Nil
               /\ mNextRecvPart' \in States /\ cbp' \in CbpType
    <2>1. /\ Post(AttachVecs(sizes)) /\ mNextRecvPart' = "ATTACHMENT"
          /\ cbp' = [c EXCEPT !.remainVecs = Len(sizes)]
      BY <1>1 DEF PostAttach
    <2>2. mRecvQ' \in Seq(RecvVecs) /\ mCurRecvBlock' = Nil
      BY <2>1, AttachTyped, PostTyped
    <2>3. Len(sizes) \in Nat
      OBVIOUS
    <2>4. cbp' \in CbpType
      BY <2>1, <2>3 DEF CbpType
    <2> QED
      BY <2>1, <2>2, <2>4 DEF States
  <1>2. ASSUME PostFile(c)
        PROVE  /\ mRecvQ' \in Seq(RecvVecs) /\ mCurRecvBlock' = Nil
               /\ mNextRecvPart' \in States /\ cbp' \in CbpType
    <2>1. /\ Post(<<[size |-> LeastOf(gMaxBlockSize, c.fileLen), got |-> <<>>,
                     alloc |-> "SYS_ALLOC"]>>)
          /\ cbp' = [c EXCEPT !.remainVecs = BlockCount(c.fileLen)]
          /\ mNextRecvPart' = "ATTACHFILE"
      BY <1>2 DEF PostFile
    <2>2. c.fileLen \in Nat
      BY DEF CbpType
    <2>3. LeastOf(gMaxBlockSize, c.fileLen) \in Nat /\ BlockCount(c.fileLen) \in Nat
      BY <2>2, StreamAssumption, LeastNat, BlockCountOf
    <2>4. mRecvQ' \in Seq(RecvVecs) /\ mCurRecvBlock' = Nil
      BY <2>1, <2>3, VecTyped, PostTyped DEF AllocTypes
    <2>5. cbp' \in CbpType
      BY <2>1, <2>3 DEF CbpType
    <2> QED
      BY <2>1, <2>4, <2>5 DEF States
  <1> QED
    BY <1>1, <1>2

LEMMA TypeComplete ==
    ASSUME reply \in Replies, NEW S, NEW how \in {"answer", "failure"}, CompleteAll(S, how)
    PROVE  /\ reply' \in Replies
           /\ \A r \in Ids : reply'[r] = IF r \notin S THEN reply[r]
                                         ELSE IF reply[r] = "none" THEN how ELSE "twice"
  BY DEF CompleteAll, Replies

LEMMA TypeDeliver ==
    ASSUME OneVecTyped, reply \in Replies, handed \in Seq(Events), NEW c \in CbpType,
           NEW id \in Ids, NEW content \in Seq(Units), Deliver(id, content, c)
    PROVE  /\ mRecvQ' \in Seq(RecvVecs) /\ mCurRecvBlock' = Nil /\ mNextRecvPart' \in States
           /\ cbp' \in CbpType /\ reply' \in Replies /\ handed' \in Seq(Events)
  <1>1. /\ handed' = Append(handed, [id |-> id, data |-> content])
        /\ CompleteAll(IF posted[id].kind = "response" THEN {id} ELSE {}, "answer")
        /\ cbp' = [c EXCEPT !.cev = Nil] /\ RepostHeader
    BY DEF Deliver
  <1>2. [id |-> id, data |-> content] \in Events
    BY DEF Events
  <1>3. handed' \in Seq(Events)
    <2> HIDE DEF Events
    <2> QED
      BY <1>1, <1>2
  <1>4. reply' \in Replies
    BY <1>1, TypeComplete
  <1>5. cbp' \in CbpType
    BY <1>1 DEF CbpType
  <1> QED
    BY <1>1, <1>3, <1>4, <1>5, TypeHeader DEF States

-----------------------------------------------------------------------------
(* Part 3.  Vectors.                                                       *)

(* While the connection is open: vectors for headers and messages are one  *)
(* unit, a vector in the queue is empty, and remainVecs counts down to the *)
(* last vector.                                                            *)
OneVecParts == {"HEADER", "MESSAGE", "DRAIN"}
AttachParts == {"ATTACHMENT", "ATTACHFILE"}
SizesOf(vecs) == [i \in DOMAIN vecs |-> vecs[i].size]

Fitting ==
    /\ mCurRecvBlock # Nil => Len(mCurRecvBlock.got) <= mCurRecvBlock.size
    /\ \A i \in DOMAIN mRecvQ : mRecvQ[i].got = <<>>
Counted ==
    /\ mNextRecvPart \in OneVecParts => VecCount = 1
    /\ mNextRecvPart = "ATTACHFILE" => VecCount <= 1
    /\ mNextRecvPart = "ATTACHMENT" => VecCount = cbp.remainVecs
    /\ mNextRecvPart \in {"ATTACHMENT", "DRAIN"} => cbp.remainVecs > 0
    /\ mNextRecvPart = "ATTACHFILE" /\ VecCount = 1 => cbp.remainVecs > 0
Sized ==
    /\ mNextRecvPart \in {"HEADER", "MESSAGE"} =>
         /\ mCurRecvBlock # Nil => mCurRecvBlock.size = 1
         /\ \A i \in DOMAIN mRecvQ : mRecvQ[i].size = 1
    /\ mNextRecvPart = "MESSAGE" => data = <<>>
    /\ mNextRecvPart = "ATTACHMENT" =>
         Len(data) + Room(SizesOf(Posted)) = cbp.attLen
VectorsInv == Fitting /\ (ended = "open" => Counted /\ Sized)

UnitsInv ==
    /\ BlocksPosted /\ PostedUnits(sendFile) /\ PostedUnits(wire)
    /\ mCurRecvBlock # Nil => PostedUnits(mCurRecvBlock.got)

BaseInv == TypeOK /\ VectorsInv /\ UnitsInv

(* The vector whose callback runs is full; in every phase but that of the  *)
(* attachments it is the only one.                                         *)
LEMMA CurrentVec ==
    ASSUME BaseInv, ended = "open", Done
    PROVE  /\ mCurRecvBlock \in RecvVecs /\ mRecvQ \in Seq(RecvVecs) /\ OneVecTyped
           /\ mCurRecvBlock.got \in Seq(Units)
           /\ Len(mCurRecvBlock.got) = mCurRecvBlock.size
           /\ VecCount = Len(mRecvQ) + 1 /\ Len(mRecvQ) \in Nat
           /\ mNextRecvPart # "ATTACHMENT" => mRecvQ = <<>>
           /\ cbp \in CbpType /\ cbp.remainVecs \in Nat
           /\ mNextRecvPart \in AttachParts \cup {"DRAIN"} => cbp.remainVecs > 0
           /\ mNextRecvPart = "ATTACHMENT" => cbp.remainVecs = Len(mRecvQ) + 1
  <1>1. RecvTyped /\ VectorsInv /\ Counted
    BY TypeParts DEF BaseInv, VectorsInv
  <1>2. mCurRecvBlock # Nil /\ mCurRecvBlock.size - Len(mCurRecvBlock.got) = 0
    BY DEF Done, Remain
  <1>3. mCurRecvBlock \in RecvVecs /\ mRecvQ \in Seq(RecvVecs)
    BY <1>1, <1>2 DEF RecvTyped
  <1>4. mCurRecvBlock.got \in Seq(Units) /\ mCurRecvBlock.size \in Nat
    BY <1>3 DEF RecvVecs
  <1>5. Len(mCurRecvBlock.got) = mCurRecvBlock.size
    BY <1>2, <1>4
  <1>6. VecCount = Len(mRecvQ) + 1 /\ Len(mRecvQ) \in Nat
    BY <1>2, <1>3 DEF VecCount
  <1>7. mNextRecvPart # "ATTACHMENT" => VecCount <= 1
    BY <1>1, <1>6 DEF RecvTyped, States, Counted, OneVecParts
  <1>8. mNextRecvPart # "ATTACHMENT" => mRecvQ = <<>>
    <2> HIDE DEF RecvVecs
    <2> QED
      BY <1>3, <1>6, <1>7
  <1>9. cbp \in CbpType /\ cbp.remainVecs \in Nat
    BY <1>1 DEF RecvTyped, CbpType
  <1>10. mNextRecvPart \in AttachParts \cup {"DRAIN"} => cbp.remainVecs > 0
    <2>1. mNextRecvPart = "ATTACHFILE" => VecCount = 1
      BY <1>6, <1>8
    <2> QED
      BY <1>1, <2>1 DEF Counted, AttachParts
  <1>11. mNextRecvPart = "ATTACHMENT" => cbp.remainVecs = Len(mRecvQ) + 1
    BY <1>1, <1>6 DEF Counted
  <1> QED
    BY <1>3, <1>4, <1>5, <1>6, <1>8, <1>9, <1>10, <1>11 DEF OneVecTyped

LEMMA FirstUnit ==
    ASSUME BaseInv, ended = "open", Done, mNextRecvPart \in {"HEADER", "MESSAGE"}
    PROVE  /\ mCurRecvBlock.got = <<First>> /\ First \in Units
           /\ First.id \in DOMAIN posted /\ First.id \in Ids
           /\ mCurRecvBlock.size = 1
  <1>1. mCurRecvBlock.got \in Seq(Units) /\ Len(mCurRecvBlock.got) = mCurRecvBlock.size
    BY CurrentVec
  <1>2. mCurRecvBlock # Nil
    BY DEF Done
  <1>3. mCurRecvBlock.size = 1 /\ PostedUnits(mCurRecvBlock.got)
    BY <1>2 DEF BaseInv, VectorsInv, Sized, UnitsInv
  <1>4. mCurRecvBlock.got = <<First>> /\ First \in Units
    <2> HIDE DEF Units
    <2> QED
      BY <1>1, <1>3 DEF First
  <1>5. First.id \in DOMAIN posted
    BY <1>3, <1>4 DEF PostedUnits, First
  <1>6. First.id \in Ids
    BY <1>4 DEF Units
  <1> QED
    BY <1>3, <1>4, <1>5, <1>6

-----------------------------------------------------------------------------
(* What a callback leaves: the phases it leads to.                         *)
PostsOne ==
    \E v \in RecvVecs : v.got = <<>> /\ mRecvQ' = <<v>> /\ mCurRecvBlock' = Nil
PostsUnit ==
    \E v \in RecvVecs : /\ v.got = <<>> /\ v.size = 1
                        /\ mRecvQ' = <<v>> /\ mCurRecvBlock' = Nil

ToHeader ==
    PostsUnit /\ mNextRecvPart' = "HEADER" /\ cbp'.cev = Nil /\ ended' = "open"
ToDrain ==
    /\ mNextRecvPart \in OneVecParts
    /\ PostsOne /\ mNextRecvPart' = "DRAIN" /\ ended' = "open"
    /\ cbp'.cev \in {cbp.cev, Nil} /\ cbp'.remainVecs > 0
ToMessage ==
    /\ mNextRecvPart = "HEADER" /\ First.part = "header"
    /\ PostsUnit /\ mNextRecvPart' = "MESSAGE" /\ ended' = "open"
    /\ cbp' = NewHeader(posted[First.id]) /\ data' = <<>>
ToAttach ==
    \E sizes \in Seq(Nat) :
        /\ sizes # <<>> /\ Room(sizes) = cbp.attLen /\ cbp.attLen > 0
        /\ mRecvQ' = AttachVecs(sizes) /\ mCurRecvBlock' = Nil
        /\ cbp' = [cbp EXCEPT !.cev = First.id, !.remainVecs = Len(sizes)]
        /\ mNextRecvPart' = "ATTACHMENT" /\ ended' = "open" /\ data' = data
ToFile(id) ==
    /\ PostsOne /\ mNextRecvPart' = "ATTACHFILE" /\ ended' = "open"
    /\ cbp.fileLen > 0
    /\ cbp' = [cbp EXCEPT !.cev = id, !.remainVecs = BlockCount(cbp.fileLen)]
MoreAttach ==
    /\ mRecvQ' = mRecvQ /\ mCurRecvBlock' = Nil /\ UNCHANGED <<mNextRecvPart, ended>>
    /\ cbp' = [cbp EXCEPT !.remainVecs = @ - 1] /\ cbp.remainVecs > 1
    /\ data' = data \o mCurRecvBlock.got
FileStalls ==
    /\ mRecvQ' = <<>> /\ mCurRecvBlock' = Nil /\ UNCHANGED <<mNextRecvPart, ended>>
    /\ \E left \in Nat : cbp' = [cbp EXCEPT !.remainVecs = left]
Stops ==
    /\ mNextRecvPart = "HEADER" /\ ended' \in {"misread", "assert"}
    /\ UNCHANGED <<mRecvQ, mCurRecvBlock, mNextRecvPart, cbp, data, eventVars>>

LEMMA PostOne ==
    ASSUME mRecvQ = <<>>, NEW v \in RecvVecs, v.got = <<>>, Post(<<v>>)
    PROVE  PostsOne /\ (v.size = 1 => PostsUnit)
  <1> HIDE DEF RecvVecs
  <1>1. <<>> \o <<v>> = <<v>>
    OBVIOUS
  <1>2. mRecvQ' = <<v>> /\ mCurRecvBlock' = Nil
    BY <1>1 DEF Post
  <1> QED
    BY <1>2 DEF PostsOne, PostsUnit

LEMMA OutHeader ==
    ASSUME mRecvQ = <<>>, mCurRecvBlock \in RecvVecs, RepostHeader, cbp'.cev = Nil,
           ended' = "open"
    PROVE  ToHeader
  <1> DEFINE v == HeaderVec(mCurRecvBlock.alloc)
  <1>1. mCurRecvBlock.alloc \in AllocTypes
    BY DEF RecvVecs
  <1>2. v \in RecvVecs /\ v.got = <<>> /\ v.size = 1
    BY <1>1, VecTyped DEF HeaderVec
  <1>3. Post(<<v>>) /\ mNextRecvPart' = "HEADER"
    BY DEF RepostHeader
  <1> HIDE DEF v
  <1> QED
    BY <1>2, <1>3, PostOne DEF ToHeader

LEMMA OutDrain ==
    ASSUME mRecvQ = <<>>, mCurRecvBlock \in RecvVecs, NEW len \in Nat, NEW c \in CbpType,
           c.cev \in {cbp.cev, Nil}, PrepareDrain(len, c), ended' = "open",
           mNextRecvPart \in OneVecParts
    PROVE  ToHeader \/ ToDrain
  <1>1. CASE len > 0
    <2> DEFINE v == [size |-> LeastOf(gMaxBlockSize, len), got |-> <<>>,
                     alloc |-> mCurRecvBlock.alloc]
    <2>1. /\ cbp' = [c EXCEPT !.drainLen = len, !.remainVecs = BlockCount(len)]
          /\ Post(<<v>>) /\ mNextRecvPart' = "DRAIN"
      BY <1>1 DEF PrepareDrain
    <2>2. LeastOf(gMaxBlockSize, len) \in Nat /\ mCurRecvBlock.alloc \in AllocTypes
      BY StreamAssumption, LeastNat DEF RecvVecs
    <2>3. v \in RecvVecs /\ v.got = <<>>
      BY <2>2, VecTyped
    <2> HIDE DEF v
    <2>4. PostsOne
      BY <2>1, <2>3, PostOne
    <2>5. cbp'.cev = c.cev /\ cbp'.remainVecs = BlockCount(len) /\ BlockCount(len) > 0
      BY <1>1, <2>1, BlockCountOf DEF CbpType
    <2> QED
      BY <2>1, <2>4, <2>5 DEF ToDrain
  <1>2. CASE ~(len > 0)
    <2>1. cbp' = [c EXCEPT !.cev = Nil, !.drainLen = 0] /\ RepostHeader
      BY <1>2 DEF PrepareDrain
    <2>2. cbp'.cev = Nil
      BY <2>1 DEF CbpType
    <2> QED
      BY <2>1, <2>2, OutHeader
  <1> QED
    BY <1>1, <1>2

LEMMA OutFile ==
    ASSUME mRecvQ = <<>>, mCurRecvBlock \in RecvVecs, NEW c \in CbpType, NEW id \in Ids,
           cbp \in CbpType, c.cev = id, c.attLen = cbp.attLen, c.fileLen = cbp.fileLen,
           c.drainLen = cbp.drainLen, c.fileLen > 0, PostFile(c), ended' = "open"
    PROVE  ToFile(id)
  <1> DEFINE v == [size |-> LeastOf(gMaxBlockSize, c.fileLen), got |-> <<>>,
                   alloc |-> "SYS_ALLOC"]
  <1>1. /\ Post(<<v>>) /\ mNextRecvPart' = "ATTACHFILE"
        /\ cbp' = [c EXCEPT !.remainVecs = BlockCount(c.fileLen)]
    BY DEF PostFile
  <1>2. c.fileLen \in Nat
    BY DEF CbpType
  <1>3. v \in RecvVecs /\ v.got = <<>>
    BY <1>2, StreamAssumption, LeastNat, VecTyped DEF AllocTypes
  <1> HIDE DEF v
  <1>4. PostsOne
    BY <1>1, <1>3, PostOne
  <1>5. cbp' = [cbp EXCEPT !.cev = id, !.remainVecs = BlockCount(cbp.fileLen)]
    BY <1>1 DEF CbpType
  <1> QED
    BY <1>1, <1>4, <1>5 DEF ToFile

-----------------------------------------------------------------------------
(* Each callback: the types it leaves, and the phase it leads to.          *)
LEMMA TypesKept ==
    ASSUME RecvTyped, mRecvQ' \in Seq(RecvVecs), mCurRecvBlock' = Nil,
           mNextRecvPart' \in States, cbp' \in CbpType, data' \in Seq(Units),
           mSendEventMap' \subseteq mSendEventMap, buffers' = buffers,
           reply' \in Replies, handed' \in Seq(Events), ended' = ended
    PROVE  RecvTyped'
  BY DEF RecvTyped, CbpType, Replies, Events

LEMMA MoreTyped ==
    ASSUME RecvTyped
    PROVE  /\ reply \in Replies /\ handed \in Seq(Events) /\ data \in Seq(Units)
           /\ cbp \in CbpType /\ cbp.attLen \in Nat /\ cbp.fileLen \in Nat
           /\ cbp.drainLen \in Nat /\ cbp.remainVecs \in Nat
           /\ cbp.cev \in Ids \cup {Nil}
  BY DEF RecvTyped, Replies, Events, CbpType

LEMMA StopOut ==
    ASSUME BaseInv, MisreadHeader \/ HeaderAssert
    PROVE  RecvTyped' /\ Stops
  <1>1. RecvTyped
    BY TypeParts DEF BaseInv
  <1>2. /\ mNextRecvPart = "HEADER" /\ ended' \in {"misread", "assert"}
        /\ UNCHANGED <<mRecvQ, mCurRecvBlock, mNextRecvPart, cbp, data, mSendEventMap,
                       reply, handed, buffers>>
    BY DEF MisreadHeader, HeaderAssert, NotDelivered, NothingSent, Callback
  <1> QED
    BY <1>1, <1>2 DEF RecvTyped, Stops, eventVars

LEMMA NewHeaderTyped ==
    ASSUME NEW m \in Shapes
    PROVE  /\ NewHeader(m) \in CbpType /\ NewHeader(m).cev = Nil
           /\ NewHeader(m).attLen = m.att /\ NewHeader(m).fileLen = m.file
  <1>1. m.att \in Nat /\ m.file \in Nat
    BY StreamAssumption
  <1> QED
    BY <1>1 DEF NewHeader, NewCbp, CbpType

LEMMA AlienOut ==
    ASSUME BaseInv, AlienHeader
    PROVE  RecvTyped' /\ (ToHeader \/ ToDrain) /\ UNCHANGED eventVars
  <1>1. SendTyped /\ RecvTyped /\ ended = "open" /\ Done /\ mNextRecvPart = "HEADER"
    BY TypeParts DEF BaseInv, AlienHeader, Callback
  <1>2. PICK m : m = posted[First.id]
    OBVIOUS
  <1>3. m \in Shapes /\ m.att \in Nat /\ m.file \in Nat
    BY <1>1, <1>2, FirstUnit, ShapeTyped
  <1>4. /\ PrepareDrain(1 + m.att + m.file, NewHeader(m)) /\ data' = <<>>
        /\ UNCHANGED <<mSendEventMap, ended, reply, handed, buffers>>
    BY <1>2 DEF AlienHeader, NothingSent, NotDelivered
  <1>5. 1 + m.att + m.file \in Nat /\ <<>> \in Seq(Units)
    BY <1>3
  <1>6. mRecvQ = <<>> /\ OneVecTyped /\ mCurRecvBlock \in RecvVecs
    BY <1>1, CurrentVec
  <1>7. NewHeader(m) \in CbpType /\ NewHeader(m).cev = Nil
    BY <1>3, NewHeaderTyped
  <1>8. /\ mRecvQ' \in Seq(RecvVecs) /\ mCurRecvBlock' = Nil /\ mNextRecvPart' \in States
        /\ cbp' \in CbpType
    BY <1>4, <1>5, <1>6, <1>7, TypeDrain
  <1>9. ToHeader \/ ToDrain
    BY <1>1, <1>4, <1>5, <1>6, <1>7, OutDrain DEF OneVecParts
  <1>10. reply' \in Replies /\ handed' \in Seq(Events)
    BY <1>1, <1>4, MoreTyped
  <1> QED
    BY <1>1, <1>4, <1>5, <1>8, <1>9, <1>10, TypesKept DEF eventVars

LEMMA HeaderOut ==
    ASSUME BaseInv, HeaderCallback
    PROVE  RecvTyped' /\ ToMessage /\ UNCHANGED eventVars
  <1>1. SendTyped /\ RecvTyped /\ ended = "open" /\ Done /\ mNextRecvPart = "HEADER"
    BY TypeParts DEF BaseInv, HeaderCallback, Callback
  <1> DEFINE v == [size |-> 1, got |-> <<>>, alloc |-> "SYS_ALLOC"]
  <1>2. /\ cbp' = NewHeader(posted[First.id]) /\ Post(<<v>>)
        /\ mNextRecvPart' = "MESSAGE" /\ data' = <<>>
        /\ UNCHANGED <<mSendEventMap, ended, reply, handed, buffers>>
    BY DEF HeaderCallback, NothingSent, NotDelivered
  <1>3. posted[First.id] \in Shapes
    BY <1>1, FirstUnit, ShapeTyped
  <1>4. cbp' \in CbpType
    BY <1>2, <1>3, NewHeaderTyped
  <1>5. v \in RecvVecs /\ v.got = <<>> /\ v.size = 1 /\ <<v>> \in Seq(RecvVecs)
    BY VecTyped DEF AllocTypes
  <1> HIDE DEF v
  <1>6. mRecvQ = <<>> /\ OneVecTyped
    BY <1>1, CurrentVec
  <1>7. PostsUnit
    BY <1>2, <1>5, <1>6, PostOne
  <1>8. mRecvQ' \in Seq(RecvVecs) /\ mCurRecvBlock' = Nil
    BY <1>2, <1>5, <1>6, PostTyped
  <1>9. reply' \in Replies /\ handed' \in Seq(Events) /\ data' \in Seq(Units)
    BY <1>1, <1>2, MoreTyped
  <1>10. ToMessage
    BY <1>1, <1>2, <1>7 DEF ToMessage, HeaderCallback
  <1> QED
    BY <1>1, <1>2, <1>4, <1>8, <1>9, <1>10, TypesKept DEF States, eventVars

LEMMA UnusableOut ==
    ASSUME BaseInv, MessageUnusable
    PROVE  RecvTyped' /\ (ToHeader \/ ToDrain) /\ UNCHANGED eventVars
  <1>1. RecvTyped /\ ended = "open" /\ Done /\ mNextRecvPart = "MESSAGE"
    BY TypeParts DEF BaseInv, MessageUnusable, Callback
  <1>2. /\ PrepareDrain(Rest, cbp)
        /\ UNCHANGED <<data, mSendEventMap, ended, reply, handed, buffers>>
    BY DEF MessageUnusable, NothingSent, NotDelivered
  <1>3. Rest \in Nat /\ cbp \in CbpType
    BY <1>1, MoreTyped DEF Rest
  <1>6. mRecvQ = <<>> /\ OneVecTyped /\ mCurRecvBlock \in RecvVecs
    BY <1>1, CurrentVec
  <1>8. /\ mRecvQ' \in Seq(RecvVecs) /\ mCurRecvBlock' = Nil /\ mNextRecvPart' \in States
        /\ cbp' \in CbpType
    BY <1>2, <1>3, <1>6, TypeDrain
  <1>9. ToHeader \/ ToDrain
    BY <1>1, <1>2, <1>3, <1>6, OutDrain DEF OneVecParts
  <1>10. reply' \in Replies /\ handed' \in Seq(Events) /\ data' \in Seq(Units)
    BY <1>1, <1>2, MoreTyped
  <1> QED
    BY <1>1, <1>2, <1>8, <1>9, <1>10, TypesKept DEF eventVars

Delivers(id, content) ==
    /\ ToHeader /\ handed' = Append(handed, [id |-> id, data |-> content])
    /\ CompleteAll(IF posted[id].kind = "response" THEN {id} ELSE {}, "answer")

LEMMA DeliverOut ==
    ASSUME RecvTyped, mRecvQ = <<>>, mCurRecvBlock \in RecvVecs, NEW c \in CbpType,
           NEW id \in Ids, NEW content \in Seq(Units), Deliver(id, content, c),
           data' \in Seq(Units), mSendEventMap' \subseteq mSendEventMap,
           buffers' = buffers, ended' = ended, ended = "open"
    PROVE  RecvTyped' /\ Delivers(id, content)
  <1>1. OneVecTyped /\ reply \in Replies /\ handed \in Seq(Events)
    BY MoreTyped DEF OneVecTyped, RecvTyped
  <1>2. /\ mRecvQ' \in Seq(RecvVecs) /\ mCurRecvBlock' = Nil /\ mNextRecvPart' \in States
        /\ cbp' \in CbpType /\ reply' \in Replies /\ handed' \in Seq(Events)
    BY <1>1, TypeDeliver
  <1>3. RecvTyped'
    BY <1>2, TypesKept
  <1>4. /\ handed' = Append(handed, [id |-> id, data |-> content])
        /\ CompleteAll(IF posted[id].kind = "response" THEN {id} ELSE {}, "answer")
        /\ cbp' = [c EXCEPT !.cev = Nil] /\ RepostHeader
    BY DEF Deliver
  <1>5. cbp'.cev = Nil
    BY <1>4 DEF CbpType
  <1>6. ToHeader
    BY <1>4, <1>5, OutHeader
  <1> QED
    BY <1>3, <1>4, <1>6 DEF Delivers

(* A usable message.                                                       *)
Usable(id) ==
    \/ ToAttach /\ UNCHANGED <<reply, handed>>
    \/ ToFile(id) /\ cbp.attLen = 0 /\ UNCHANGED <<reply, handed>>
    \/ Delivers(id, <<>>) /\ cbp.attLen = 0 /\ cbp.fileLen = 0

LEMMA UsableOut ==
    ASSUME BaseInv, Callback("MESSAGE"), NEW sizes \in Seq(Nat),
           cbp.attLen > 0 => sizes # <<>> /\ Room(sizes) = cbp.attLen,
           MessageUsable(First.id, sizes), data' = data,
           mSendEventMap' \subseteq mSendEventMap, buffers' = buffers, ended' = ended
    PROVE  RecvTyped' /\ Usable(First.id)
  <1>1. RecvTyped /\ ended = "open" /\ Done /\ mNextRecvPart = "MESSAGE"
    BY TypeParts DEF BaseInv, Callback
  <1>2. mRecvQ = <<>> /\ OneVecTyped /\ mCurRecvBlock \in RecvVecs
    BY <1>1, CurrentVec
  <1>3. First.id \in Ids
    BY <1>1, FirstUnit
  <1>4. /\ cbp \in CbpType /\ cbp.attLen \in Nat /\ cbp.fileLen \in Nat
        /\ reply \in Replies /\ handed \in Seq(Events) /\ data \in Seq(Units)
    BY <1>1, MoreTyped
  <1>5. PICK c : c = [cbp EXCEPT !.cev = First.id]
    OBVIOUS
  <1>6. /\ c \in CbpType /\ c.cev = First.id /\ c.attLen = cbp.attLen
        /\ c.fileLen = cbp.fileLen /\ c.drainLen = cbp.drainLen
    BY <1>3, <1>4, <1>5 DEF CbpType
  <1>7. CASE cbp.attLen > 0
    <2>1. PostAttach(sizes, c) /\ UNCHANGED <<reply, handed>>
      BY <1>5, <1>7 DEF MessageUsable, NotDelivered
    <2>2. /\ mRecvQ' \in Seq(RecvVecs) /\ mCurRecvBlock' = Nil
          /\ mNextRecvPart' \in States /\ cbp' \in CbpType
      BY <1>2, <1>6, <2>1, TypePost
    <2>3. RecvTyped'
      BY <1>1, <1>4, <2>1, <2>2, TypesKept
    <2>4. /\ Post(AttachVecs(sizes)) /\ cbp' = [c EXCEPT !.remainVecs = Len(sizes)]
          /\ mNextRecvPart' = "ATTACHMENT"
      BY <2>1 DEF PostAttach
    <2>5. mRecvQ' = AttachVecs(sizes)
      <3> DEFINE w == AttachVecs(sizes)
      <3>1. w \in Seq(RecvVecs) /\ mRecvQ' = mRecvQ \o w
        BY <2>4, AttachTyped DEF Post
      <3> HIDE DEF w, RecvVecs
      <3>2. <<>> \o w = w
        BY <3>1
      <3> QED
        BY <1>2, <3>1, <3>2 DEF w
    <2>6. cbp' = [cbp EXCEPT !.cev = First.id, !.remainVecs = Len(sizes)]
      BY <1>4, <1>5, <2>4 DEF CbpType
    <2>7. ToAttach
      BY <1>1, <1>7, <2>2, <2>4, <2>5, <2>6 DEF ToAttach
    <2> QED
      BY <2>1, <2>3, <2>7 DEF Usable
  <1>8. CASE ~(cbp.attLen > 0) /\ cbp.fileLen > 0
    <2>1. PostFile(c) /\ UNCHANGED <<reply, handed>>
      BY <1>5, <1>8 DEF MessageUsable, NotDelivered
    <2>2. /\ mRecvQ' \in Seq(RecvVecs) /\ mCurRecvBlock' = Nil
          /\ mNextRecvPart' \in States /\ cbp' \in CbpType
      BY <1>2, <1>6, <2>1, TypePost
    <2>3. RecvTyped'
      BY <1>1, <1>4, <2>1, <2>2, TypesKept
    <2>4. ToFile(First.id)
      BY <1>1, <1>2, <1>3, <1>4, <1>6, <1>8, <2>1, OutFile
    <2> QED
      BY <1>4, <1>8, <2>1, <2>3, <2>4 DEF Usable
  <1>9. CASE ~(cbp.attLen > 0) /\ ~(cbp.fileLen > 0)
    <2>1. Deliver(First.id, <<>>, c)
      BY <1>5, <1>9 DEF MessageUsable
    <2>2. <<>> \in Seq(Units)
      OBVIOUS
    <2>3. RecvTyped' /\ Delivers(First.id, <<>>)
      BY <1>1, <1>2, <1>3, <1>4, <1>6, <2>1, <2>2, DeliverOut
    <2> QED
      BY <1>4, <1>9, <2>3 DEF Usable
  <1> QED
    BY <1>7, <1>8, <1>9

LEMMA ReqOut ==
    ASSUME BaseInv, RecvReqMsg
    PROVE  RecvTyped' /\ Usable(First.id) /\ mSendEventMap' = mSendEventMap
  <1>1. /\ Callback("MESSAGE") /\ MessageUsable(First.id, BlockSizes(cbp.attLen))
        /\ UNCHANGED <<data, mSendEventMap, ended, buffers>>
    BY DEF RecvReqMsg, NothingSent
  <1>2. cbp.attLen \in Nat
    BY TypeParts, MoreTyped DEF BaseInv
  <1>3. PICK sizes : sizes = BlockSizes(cbp.attLen)
    OBVIOUS
  <1>4. /\ sizes \in Seq(Nat) /\ Room(sizes) = cbp.attLen
        /\ Len(sizes) = BlockCount(cbp.attLen)
    BY <1>2, <1>3, BlocksOf
  <1>5. cbp.attLen > 0 => sizes # <<>>
    <2>1. cbp.attLen > 0 => Len(sizes) > 0
      BY <1>2, <1>4, BlockCountOf
    <2>2. Len(<<>>) = 0
      OBVIOUS
    <2> QED
      BY <2>1, <2>2
  <1>6. MessageUsable(First.id, sizes)
    BY <1>1, <1>3
  <1> QED
    BY <1>1, <1>4, <1>5, <1>6, UsableOut

LEMMA RspOut ==
    ASSUME BaseInv, RecvRspMsg
    PROVE  /\ RecvTyped' /\ Usable(First.id)
           /\ First.id \in mSendEventMap /\ mSendEventMap' = mSendEventMap \ {First.id}
           /\ posted[First.id].kind = "response"
  <1>1. /\ Callback("MESSAGE") /\ First.id \in mSendEventMap
        /\ posted[First.id].kind = "response"
        /\ mSendEventMap' = mSendEventMap \ {First.id}
        /\ MessageUsable(First.id, IF buffers = <<>> THEN BlockSizes(cbp.attLen)
                                   ELSE RspSizes(buffers, cbp.attLen))
        /\ UNCHANGED <<data, ended, buffers>>
    BY DEF RecvRspMsg, NothingSent
  <1>2. cbp.attLen \in Nat /\ buffers \in Seq(Nat)
    <2>1. RecvTyped
      BY TypeParts DEF BaseInv
    <2> QED
      BY <2>1, MoreTyped, StreamAssumption DEF RecvTyped
  <1>3. PICK sizes : sizes = IF buffers = <<>> THEN BlockSizes(cbp.attLen)
                             ELSE RspSizes(buffers, cbp.attLen)
    OBVIOUS
  <1>4. /\ sizes \in Seq(Nat) /\ Room(sizes) = cbp.attLen
        /\ cbp.attLen > 0 => sizes # <<>>
    <2>1. CASE buffers = <<>>
      <3>1. sizes = BlockSizes(cbp.attLen)
        BY <1>3, <2>1
      <3>2. /\ sizes \in Seq(Nat) /\ Room(sizes) = cbp.attLen
            /\ Len(sizes) = BlockCount(cbp.attLen)
        BY <1>2, <3>1, BlocksOf
      <3>3. cbp.attLen > 0 => Len(sizes) > 0
        BY <1>2, <3>2, BlockCountOf
      <3>4. Len(<<>>) = 0
        OBVIOUS
      <3> QED
        BY <3>2, <3>3, <3>4
    <2>2. CASE buffers # <<>>
      BY <1>2, <1>3, <2>2, RspSizesOf
    <2> QED
      BY <2>1, <2>2
  <1>6. MessageUsable(First.id, sizes)
    BY <1>1, <1>3
  <1>7. RecvTyped' /\ Usable(First.id)
    BY <1>1, <1>4, <1>6, UsableOut
  <1> QED
    BY <1>1, <1>7

(* One more vector of attachments.                                         *)
Attached ==
    /\ data' = data \o mCurRecvBlock.got
    /\ \/ MoreAttach /\ UNCHANGED <<reply, handed>>
       \/ /\ ToFile(cbp.cev) /\ cbp.remainVecs = 1 /\ mRecvQ = <<>>
          /\ UNCHANGED <<reply, handed>>
       \/ /\ Delivers(cbp.cev, data \o mCurRecvBlock.got) /\ cbp.fileLen = 0
          /\ cbp.remainVecs = 1 /\ mRecvQ = <<>>

LEMMA AttachOut ==
    ASSUME BaseInv, cbp.cev # Nil, RecvAttach
    PROVE  RecvTyped' /\ Attached /\ mSendEventMap' = mSendEventMap
  <1>1. RecvTyped /\ ended = "open" /\ Done /\ mNextRecvPart = "ATTACHMENT"
    BY TypeParts DEF BaseInv, RecvAttach, Callback
  <1>2. PICK c : c = [cbp EXCEPT !.remainVecs = @ - 1]
    OBVIOUS
  <1>3. /\ data' = data \o mCurRecvBlock.got
        /\ IF c.remainVecs > 0
           THEN /\ cbp' = c /\ mCurRecvBlock' = Nil
                /\ UNCHANGED <<reply, handed, mRecvQ, mNextRecvPart>>
           ELSE IF c.fileLen > 0 THEN PostFile(c) /\ UNCHANGED <<reply, handed>>
           ELSE Deliver(c.cev, data', c)
        /\ UNCHANGED <<mSendEventMap, ended, buffers>>
    BY <1>2 DEF RecvAttach, NotDelivered, NothingSent
  <1>4. /\ cbp \in CbpType /\ cbp.attLen \in Nat /\ cbp.fileLen \in Nat
        /\ reply \in Replies /\ handed \in Seq(Events) /\ data \in Seq(Units)
        /\ cbp.cev \in Ids /\ cbp.remainVecs \in Nat
    BY <1>1, MoreTyped
  <1>5. /\ mRecvQ \in Seq(RecvVecs) /\ mCurRecvBlock \in RecvVecs /\ OneVecTyped
        /\ mCurRecvBlock.got \in Seq(Units)
        /\ cbp.remainVecs > 0 /\ cbp.remainVecs = Len(mRecvQ) + 1 /\ Len(mRecvQ) \in Nat
    BY <1>1, CurrentVec DEF AttachParts
  <1>6. /\ c \in CbpType /\ c.cev = cbp.cev /\ c.attLen = cbp.attLen
        /\ c.fileLen = cbp.fileLen /\ c.drainLen = cbp.drainLen
        /\ c.remainVecs = cbp.remainVecs - 1
    <2>1. cbp.remainVecs - 1 \in Nat
      BY <1>4, <1>5
    <2> QED
      BY <1>2, <1>4, <2>1 DEF CbpType
  <1>7. data' \in Seq(Units)
    BY <1>3, <1>4, <1>5
  <1>8. CASE c.remainVecs > 0
    <2>1. cbp.remainVecs > 1
      BY <1>4, <1>6, <1>8
    <2>2. MoreAttach
      BY <1>2, <1>3, <1>8, <2>1 DEF MoreAttach
    <2>3. RecvTyped'
      BY <1>1, <1>3, <1>4, <1>5, <1>6, <1>7, <1>8, TypesKept DEF RecvTyped
    <2> QED
      BY <1>3, <1>8, <2>2, <2>3 DEF Attached
  <1>9. CASE ~(c.remainVecs > 0)
    <2>1. cbp.remainVecs = 1 /\ mRecvQ = <<>>
      <3>1. cbp.remainVecs = 1 /\ Len(mRecvQ) = 0
        BY <1>4, <1>5, <1>6, <1>9
      <3> HIDE DEF RecvVecs
      <3> QED
        BY <1>5, <3>1
    <2>2. CASE c.fileLen > 0
      <3>1. PostFile(c) /\ UNCHANGED <<reply, handed>>
        BY <1>3, <1>9, <2>2
      <3>2. /\ mRecvQ' \in Seq(RecvVecs) /\ mCurRecvBlock' = Nil
            /\ mNextRecvPart' \in States /\ cbp' \in CbpType
        BY <1>5, <1>6, <3>1, TypePost
      <3>3. RecvTyped'
        BY <1>1, <1>3, <1>4, <1>7, <3>1, <3>2, TypesKept
      <3>4. ToFile(cbp.cev)
        BY <1>1, <1>3, <1>4, <1>5, <1>6, <2>1, <2>2, <3>1, OutFile
      <3> QED
        BY <1>3, <2>1, <3>1, <3>3, <3>4 DEF Attached
    <2>3. CASE ~(c.fileLen > 0)
      <3>1. Deliver(cbp.cev, data', c)
        BY <1>3, <1>6, <1>9, <2>3
      <3>2. RecvTyped' /\ Delivers(cbp.cev, data')
        BY <1>1, <1>3, <1>4, <1>5, <1>6, <1>7, <2>1, <3>1, DeliverOut
      <3>3. cbp.fileLen = 0
        BY <1>4, <1>6, <2>3
      <3> QED
        BY <1>3, <2>1, <3>2, <3>3 DEF Attached
    <2> QED
      BY <2>2, <2>3
  <1> QED
    BY <1>3, <1>8, <1>9

(* A block of a file.                                                      *)
Filed ==
    \/ FileStalls /\ UNCHANGED <<reply, handed>>
    \/ /\ Delivers(cbp.cev, data \o mCurRecvBlock.got) /\ cbp.remainVecs = 1
       /\ data' = data \o mCurRecvBlock.got

LEMMA FileOut ==
    ASSUME BaseInv, cbp.cev # Nil, NEW written \in BOOLEAN, RecvFile(written)
    PROVE  RecvTyped' /\ Filed /\ mSendEventMap' = mSendEventMap /\ mRecvQ = <<>>
  <1>1. RecvTyped /\ ended = "open" /\ Done /\ mNextRecvPart = "ATTACHFILE"
    BY TypeParts DEF BaseInv, RecvFile, Callback
  <1>2. PICK c : c = [cbp EXCEPT !.remainVecs = @ - 1]
    OBVIOUS
  <1>3. PICK content : content = data \o mCurRecvBlock.got
    OBVIOUS
  <1>4. /\ \/ /\ c.remainVecs = 0
              /\ data' = content /\ Deliver(c.cev, content, c)
           \/ /\ c.remainVecs > 0
              /\ data' = content /\ cbp' = c /\ mCurRecvBlock' = Nil
              /\ UNCHANGED <<reply, handed, mRecvQ, mNextRecvPart>>
           \/ /\ mCurRecvBlock' = Nil
              /\ UNCHANGED <<reply, handed, mRecvQ, mNextRecvPart, cbp, data>>
        /\ UNCHANGED <<mSendEventMap, ended, buffers>>
    BY <1>2, <1>3 DEF RecvFile, NotDelivered, NothingSent
  <1>5. /\ cbp \in CbpType /\ cbp.attLen \in Nat /\ cbp.fileLen \in Nat
        /\ reply \in Replies /\ handed \in Seq(Events) /\ data \in Seq(Units)
        /\ cbp.cev \in Ids /\ cbp.remainVecs \in Nat
    BY <1>1, MoreTyped
  <1>6. /\ mRecvQ = <<>> /\ mRecvQ \in Seq(RecvVecs) /\ mCurRecvBlock \in RecvVecs
        /\ OneVecTyped /\ mCurRecvBlock.got \in Seq(Units) /\ cbp.remainVecs > 0
    BY <1>1, CurrentVec DEF AttachParts
  <1>7. /\ c \in CbpType /\ c.cev = cbp.cev /\ c.remainVecs = cbp.remainVecs - 1
    BY <1>2, <1>5, <1>6 DEF CbpType
  <1>8. content \in Seq(Units)
    BY <1>3, <1>5, <1>6
  <1>9. CASE c.remainVecs = 0 /\ data' = content /\ Deliver(c.cev, content, c)
    <2>1. Deliver(cbp.cev, content, c)
      BY <1>7, <1>9
    <2>2. RecvTyped' /\ Delivers(cbp.cev, content)
      BY <1>1, <1>4, <1>5, <1>6, <1>7, <1>8, <1>9, <2>1, DeliverOut
    <2>3. cbp.remainVecs = 1
      BY <1>5, <1>7, <1>9
    <2> QED
      BY <1>3, <1>4, <1>6, <1>9, <2>2, <2>3 DEF Filed
  <1>10. CASE /\ c.remainVecs > 0
              /\ data' = content /\ cbp' = c /\ mCurRecvBlock' = Nil
              /\ UNCHANGED <<reply, handed, mRecvQ, mNextRecvPart>>
    <2>1. RecvTyped'
      BY <1>1, <1>4, <1>5, <1>6, <1>7, <1>8, <1>10, TypesKept DEF RecvTyped
    <2>2. c.remainVecs \in Nat /\ cbp' = [cbp EXCEPT !.remainVecs = c.remainVecs]
      BY <1>2, <1>5, <1>7, <1>10
    <2>3. FileStalls
      BY <1>4, <1>6, <1>10, <2>2 DEF FileStalls
    <2> QED
      BY <1>4, <1>6, <1>10, <2>1, <2>3 DEF Filed
  <1>11. CASE /\ mCurRecvBlock' = Nil
              /\ UNCHANGED <<reply, handed, mRecvQ, mNextRecvPart, cbp, data>>
    <2>1. RecvTyped'
      BY <1>1, <1>4, <1>5, <1>6, <1>11, TypesKept DEF RecvTyped
    <2>2. cbp' = [cbp EXCEPT !.remainVecs = cbp.remainVecs]
      BY <1>5, <1>11 DEF CbpType
    <2>3. FileStalls
      BY <1>4, <1>5, <1>6, <1>11, <2>2 DEF FileStalls
    <2> QED
      BY <1>4, <1>6, <1>11, <2>1, <2>3 DEF Filed
  <1> QED
    BY <1>4, <1>9, <1>10, <1>11

(* A drained vector.                                                       *)
LEMMA DrainOut ==
    ASSUME BaseInv, RecvDrain
    PROVE  /\ RecvTyped' /\ mSendEventMap' = mSendEventMap /\ handed' = handed
           /\ \/ ToHeader /\ CompleteAll(FailedRequest, "failure") /\ cbp.remainVecs = 1
              \/ ToDrain /\ reply' = reply /\ cbp.remainVecs > 1
  <1>1. RecvTyped /\ ended = "open" /\ Done /\ mNextRecvPart = "DRAIN"
    BY TypeParts DEF BaseInv, RecvDrain, Callback
  <1>2. PICK left : left = cbp.remainVecs - 1
    OBVIOUS
  <1> DEFINE v == [mCurRecvBlock EXCEPT !.size = DrainSize(left), !.got = <<>>]
  <1>3. /\ IF left = 0
           THEN /\ RepostHeader /\ cbp' = [cbp EXCEPT !.remainVecs = 0, !.cev = Nil]
                /\ CompleteAll(FailedRequest, "failure")
           ELSE /\ Post(<<v>>) /\ cbp' = [cbp EXCEPT !.remainVecs = left]
                /\ UNCHANGED <<reply, mNextRecvPart>>
        /\ UNCHANGED <<data, mSendEventMap, handed, ended, buffers>>
    BY <1>2 DEF RecvDrain, NothingSent
  <1>4. /\ cbp \in CbpType /\ reply \in Replies /\ handed \in Seq(Events)
        /\ data \in Seq(Units) /\ cbp.remainVecs \in Nat /\ cbp.drainLen \in Nat
    BY <1>1, MoreTyped
  <1>5. /\ mRecvQ = <<>> /\ OneVecTyped /\ mCurRecvBlock \in RecvVecs
        /\ cbp.remainVecs > 0
    BY <1>1, CurrentVec
  <1>6. left \in Nat
    BY <1>2, <1>4, <1>5
  <1>7. CASE left = 0
    <2>1. /\ RepostHeader /\ cbp' = [cbp EXCEPT !.remainVecs = 0, !.cev = Nil]
          /\ CompleteAll(FailedRequest, "failure")
      BY <1>3, <1>7
    <2>2. cbp' \in CbpType /\ cbp'.cev = Nil
      BY <1>4, <2>1 DEF CbpType
    <2>3. ToHeader
      BY <1>1, <1>3, <1>5, <2>1, <2>2, OutHeader
    <2>4. /\ mRecvQ' \in Seq(RecvVecs) /\ mCurRecvBlock' = Nil /\ mNextRecvPart' \in States
      BY <1>5, <2>1, TypeHeader DEF States
    <2>5. reply' \in Replies
      BY <1>4, <2>1, TypeComplete
    <2>6. RecvTyped'
      BY <1>1, <1>3, <1>4, <2>2, <2>4, <2>5, TypesKept
    <2> QED
      BY <1>2, <1>3, <1>4, <1>7, <2>1, <2>3, <2>6
  <1>8. CASE left # 0
    <2>1. /\ Post(<<v>>) /\ cbp' = [cbp EXCEPT !.remainVecs = left]
          /\ UNCHANGED <<reply, mNextRecvPart>>
      BY <1>3, <1>8
    <2>2. cbp' \in CbpType /\ cbp'.cev = cbp.cev /\ cbp'.remainVecs = left
      BY <1>4, <1>6, <2>1 DEF CbpType
    <2>3. DrainSize(left) \in Nat
      <3>1. gMaxBlockSize \in Nat /\ gMaxBlockSize > 0
        BY StreamAssumption
      <3>2. cbp.drainLen % gMaxBlockSize \in Nat
        BY <1>4, <3>1
      <3>3. mCurRecvBlock.size \in Nat
        BY <1>5 DEF RecvVecs
      <3> QED
        BY <3>2, <3>3 DEF DrainSize
    <2>4. v \in RecvVecs /\ v.got = <<>>
      <3>1. <<>> \in Seq(Units)
        OBVIOUS
      <3> QED
        BY <1>5, <2>3, <3>1 DEF RecvVecs
    <2> HIDE DEF v
    <2>5. <<v>> \in Seq(RecvVecs)
      <3> HIDE DEF RecvVecs
      <3> QED
        BY <2>4
    <2>6. mRecvQ' \in Seq(RecvVecs) /\ mCurRecvBlock' = Nil
      BY <1>5, <2>1, <2>5, PostTyped
    <2>7. PostsOne
      BY <1>5, <2>1, <2>4, PostOne
    <2>8. ToDrain
      BY <1>1, <1>3, <1>6, <1>8, <2>1, <2>2, <2>7 DEF ToDrain, OneVecParts
    <2>9. RecvTyped'
      BY <1>1, <1>3, <1>4, <2>1, <2>2, <2>6, TypesKept DEF States
    <2> QED
      BY <1>2, <1>3, <1>4, <1>6, <1>8, <2>1, <2>8, <2>9
  <1> QED
    BY <1>7, <1>8

-----------------------------------------------------------------------------
(* Reading, and the end of the connection.                                 *)
LEMMA TakeOut ==
    ASSUME BaseInv, TakeVec
    PROVE  /\ RecvTyped' /\ ended = "open" /\ ended' = "open" /\ mCurRecvBlock = Nil
           /\ mRecvQ # <<>> /\ mRecvQ \in Seq(RecvVecs)
           /\ mCurRecvBlock' = Head(mRecvQ) /\ mRecvQ' = Tail(mRecvQ)
           /\ Head(mRecvQ) \in RecvVecs /\ mCurRecvBlock' # Nil
           /\ Head(mRecvQ) = mRecvQ[1] /\ 1 \in DOMAIN mRecvQ
           /\ Len(mRecvQ') = Len(mRecvQ) - 1 /\ Len(mRecvQ) \in Nat
           /\ \A i \in DOMAIN mRecvQ' : i + 1 \in DOMAIN mRecvQ /\ mRecvQ'[i] = mRecvQ[i + 1]
           /\ UNCHANGED <<sendVars, wire, mNextRecvPart, cbp, data, buffers, eventVars, ended>>
  <1>1. RecvTyped
    BY TypeParts DEF BaseInv
  <1>2. /\ ended = "open" /\ mCurRecvBlock = Nil /\ mRecvQ # <<>>
        /\ mCurRecvBlock' = Head(mRecvQ) /\ mRecvQ' = Tail(mRecvQ)
        /\ UNCHANGED <<sendVars, wire, mNextRecvPart, cbp, data, buffers, eventVars, ended>>
    BY DEF TakeVec
  <1>3. mRecvQ \in Seq(RecvVecs)
    BY <1>1 DEF RecvTyped
  <1>4. /\ Head(mRecvQ) \in RecvVecs /\ mRecvQ' \in Seq(RecvVecs)
        /\ Len(mRecvQ') = Len(mRecvQ) - 1 /\ Len(mRecvQ) \in Nat
        /\ Head(mRecvQ) = mRecvQ[1] /\ 1 \in DOMAIN mRecvQ
        /\ \A i \in DOMAIN mRecvQ' : i + 1 \in DOMAIN mRecvQ /\ mRecvQ'[i] = mRecvQ[i + 1]
    <2> HIDE DEF RecvVecs
    <2> QED
      BY <1>2, <1>3
  <1>5. mCurRecvBlock' # Nil
    BY <1>2, <1>4, StreamAssumption
  <1>6. RecvTyped'
    BY <1>1, <1>2, <1>4 DEF RecvTyped, eventVars
  <1> QED
    BY <1>2, <1>3, <1>4, <1>5, <1>6

LEMMA ReadOut ==
    ASSUME BaseInv, NEW k \in 1..WireMax, RecvVec(k)
    PROVE  /\ RecvTyped' /\ WireTyped' /\ ended = "open" /\ mCurRecvBlock \in RecvVecs
           /\ k \in Nat \ {0} /\ k <= Len(wire)
           /\ mCurRecvBlock.got \in Seq(Units)
           /\ k <= mCurRecvBlock.size - Len(mCurRecvBlock.got)
           /\ mCurRecvBlock' = [mCurRecvBlock EXCEPT !.got = @ \o SubSeq(wire, 1, k)]
           /\ mCurRecvBlock' \in RecvVecs /\ mCurRecvBlock' # Nil
           /\ mCurRecvBlock'.got = mCurRecvBlock.got \o SubSeq(wire, 1, k)
           /\ Len(mCurRecvBlock'.got) = Len(mCurRecvBlock.got) + k
           /\ mCurRecvBlock'.size = mCurRecvBlock.size
           /\ wire \in Seq(Units) /\ wire' = SubSeq(wire, k + 1, Len(wire))
           /\ UNCHANGED <<sendVars, mRecvQ, mNextRecvPart, cbp, data, buffers,
                          eventVars, ended>>
  <1>1. RecvTyped /\ WireTyped /\ Fitting
    BY TypeParts DEF BaseInv, VectorsInv
  <1>2. /\ ended = "open" /\ mCurRecvBlock # Nil
        /\ k \in 1..LeastOf(Remain, Len(wire))
        /\ mCurRecvBlock' = [mCurRecvBlock EXCEPT !.got = @ \o SubSeq(wire, 1, k)]
        /\ wire' = SubSeq(wire, k + 1, Len(wire))
        /\ UNCHANGED <<sendVars, mRecvQ, mNextRecvPart, cbp, data, buffers,
                       eventVars, ended>>
    BY DEF RecvVec
  <1>3. mCurRecvBlock \in RecvVecs /\ wire \in Seq(Units)
    BY <1>1, <1>2 DEF RecvTyped, WireTyped
  <1>4. mCurRecvBlock.got \in Seq(Units) /\ mCurRecvBlock.size \in Nat
    BY <1>3 DEF RecvVecs
  <1>5. Remain \in Nat /\ Len(wire) \in Nat
    <2>1. Len(mCurRecvBlock.got) <= mCurRecvBlock.size
      BY <1>1, <1>2 DEF Fitting
    <2>2. Len(mCurRecvBlock.got) \in Nat
      BY <1>4
    <2> QED
      BY <1>3, <1>4, <2>1, <2>2 DEF Remain
  <1>6. k \in Nat \ {0} /\ k <= Len(wire) /\ k <= Remain
    BY <1>2, <1>5, LeastNat
  <1>7. /\ SubSeq(wire, 1, k) \in Seq(Units) /\ Len(SubSeq(wire, 1, k)) = k
        /\ wire' \in Seq(Units) /\ Len(wire') = Len(wire) - k
    BY <1>2, <1>3, <1>6, CutSeq
  <1>8. PICK q : q = SubSeq(wire, 1, k)
    OBVIOUS
  <1>9. /\ mCurRecvBlock.got \o q \in Seq(Units)
        /\ Len(mCurRecvBlock.got \o q) = Len(mCurRecvBlock.got) + k
    BY <1>4, <1>7, <1>8
  <1>10. /\ mCurRecvBlock' \in RecvVecs
         /\ mCurRecvBlock'.got = mCurRecvBlock.got \o q
         /\ mCurRecvBlock'.size = mCurRecvBlock.size
    BY <1>2, <1>3, <1>8, <1>9 DEF RecvVecs
  <1>11. WireTyped'
    BY <1>1, <1>5, <1>6, <1>7, StreamAssumption DEF WireTyped
  <1>12. RecvTyped'
    BY <1>1, <1>2, <1>10 DEF RecvTyped, eventVars
  <1>13. mCurRecvBlock' # Nil
    BY <1>10, StreamAssumption
  <1> QED
    BY <1>2, <1>3, <1>4, <1>6, <1>8, <1>9, <1>10, <1>11, <1>12, <1>13 DEF Remain

LEMMA BrokenOut ==
    ASSUME BaseInv, RecvBroken
    PROVE  /\ RecvTyped' /\ ended = "open" /\ ended' = "broken" /\ mCurRecvBlock # Nil
           /\ mCurRecvBlock' = Nil /\ cbp'.cev = Nil
           /\ CompleteAll(FailedRequest, "failure")
           /\ UNCHANGED <<sendVars, wire, buffers, mRecvQ, mNextRecvPart, data,
                          mSendEventMap, handed>>
  <1>1. RecvTyped
    BY TypeParts DEF BaseInv
  <1>2. /\ ended = "open" /\ mCurRecvBlock # Nil
        /\ mCurRecvBlock' = Nil /\ cbp' = [cbp EXCEPT !.cev = Nil]
        /\ CompleteAll(FailedRequest, "failure") /\ ended' = "broken"
        /\ UNCHANGED <<sendVars, wire, buffers, mRecvQ, mNextRecvPart, data,
                       mSendEventMap, handed>>
    BY DEF RecvBroken, NothingSent
  <1>3. cbp' \in CbpType /\ cbp'.cev = Nil
    BY <1>1, <1>2, MoreTyped DEF CbpType
  <1>4. reply' \in Replies
    BY <1>1, <1>2, MoreTyped, TypeComplete
  <1>5. RecvTyped'
    BY <1>1, <1>2, <1>3, <1>4 DEF RecvTyped, CbpType, Replies
  <1> QED
    BY <1>2, <1>3, <1>5

LEMMA CleanupOut ==
    ASSUME BaseInv, Cleanup
    PROVE  /\ RecvTyped' /\ ended \in {"open", "broken"} /\ ended' = "cleaned"
           /\ CompleteAll(GivenUp \cup mSendEventMap, "failure") /\ mSendEventMap' = {}
           /\ mRecvQ' = <<>> /\ mCurRecvBlock' = Nil /\ cbp'.cev = Nil
           /\ UNCHANGED <<sendVars, wire, buffers, mNextRecvPart, data, handed>>
  <1>1. RecvTyped
    BY TypeParts DEF BaseInv
  <1>2. /\ ended \in {"open", "broken"}
        /\ CompleteAll(GivenUp \cup mSendEventMap, "failure") /\ mSendEventMap' = {}
        /\ mRecvQ' = <<>> /\ mCurRecvBlock' = Nil /\ cbp' = NewCbp /\ ended' = "cleaned"
        /\ UNCHANGED <<sendVars, wire, buffers, mNextRecvPart, data, handed>>
    BY DEF Cleanup, NothingSent
  <1>3. cbp' \in CbpType /\ cbp'.cev = Nil
    BY <1>2 DEF NewCbp, CbpType
  <1>4. reply' \in Replies
    BY <1>1, <1>2, MoreTyped, TypeComplete
  <1>5. <<>> \in Seq(RecvVecs)
    OBVIOUS
  <1>6. RecvTyped'
    BY <1>1, <1>2, <1>3, <1>4, <1>5 DEF RecvTyped, CbpType, Replies
  <1> QED
    BY <1>2, <1>3, <1>6

(* Every callback leads to one of the phases.                              *)
Outcome ==
    \/ Stops \/ ToHeader \/ ToDrain \/ ToMessage
    \/ mNextRecvPart = "MESSAGE" /\ Usable(First.id)
    \/ mNextRecvPart = "ATTACHMENT" /\ Attached
    \/ mNextRecvPart = "ATTACHFILE" /\ mRecvQ = <<>> /\ FileStalls

EventHeld == ended = "open" /\ mNextRecvPart \in AttachParts => cbp.cev # Nil

LEMMA CallbackOut ==
    ASSUME BaseInv, EventHeld, CallbackStep
    PROVE  RecvTyped' /\ Outcome
  <1>1. CASE MisreadHeader \/ HeaderAssert
    BY <1>1, StopOut DEF Outcome
  <1>2. CASE AlienHeader
    BY <1>2, AlienOut DEF Outcome
  <1>3. CASE HeaderCallback
    BY <1>3, HeaderOut DEF Outcome
  <1>4. CASE MessageUnusable
    BY <1>4, UnusableOut DEF Outcome
  <1>5. CASE RecvReqMsg
    <2>1. mNextRecvPart = "MESSAGE"
      BY <1>5 DEF RecvReqMsg, Callback
    <2> QED
      BY <1>5, <2>1, ReqOut DEF Outcome
  <1>6. CASE RecvRspMsg
    <2>1. mNextRecvPart = "MESSAGE"
      BY <1>6 DEF RecvRspMsg, Callback
    <2> QED
      BY <1>6, <2>1, RspOut DEF Outcome
  <1>7. CASE RecvAttach
    <2>1. mNextRecvPart = "ATTACHMENT"
      BY <1>7 DEF RecvAttach, Callback
    <2> QED
      BY <1>7, <2>1, AttachOut, CallbackFrame DEF EventHeld, Outcome, AttachParts
  <1>8. ASSUME NEW written \in BOOLEAN, RecvFile(written) PROVE RecvTyped' /\ Outcome
    <2>1. mNextRecvPart = "ATTACHFILE"
      BY <1>8 DEF RecvFile, Callback
    <2>2. RecvTyped' /\ Filed /\ mRecvQ = <<>>
      BY <1>8, <2>1, FileOut, CallbackFrame DEF EventHeld, AttachParts
    <2> QED
      BY <2>1, <2>2 DEF Outcome, Filed, Delivers
  <1>9. CASE RecvDrain
    BY <1>9, DrainOut DEF Outcome
  <1> QED
    BY <1>1, <1>2, <1>3, <1>4, <1>5, <1>6, <1>7, <1>8, <1>9 DEF CallbackStep, MessageStep

-----------------------------------------------------------------------------
(* The vectors are preserved.                                              *)
LEMMA RoomOfVecs ==
    ASSUME NEW v \in RecvVecs, NEW q \in Seq(RecvVecs)
    PROVE  /\ Room(SizesOf(q)) \in Nat
           /\ Room(SizesOf(<<v>> \o q)) = v.size + Room(SizesOf(q))
           /\ <<>> \o q = q
  <1>1. \A i \in 1..Len(q) : q[i] \in RecvVecs
    OBVIOUS
  <1>2. v.size \in Nat /\ \A i \in 1..Len(q) : q[i].size \in Nat
    BY <1>1 DEF RecvVecs
  <1>3. /\ Len(q) \in Nat /\ DOMAIN q = 1..Len(q)
        /\ Len(<<v>> \o q) = 1 + Len(q) /\ DOMAIN (<<v>> \o q) = 1..1 + Len(q)
        /\ (<<v>> \o q)[1] = v
        /\ \A i \in 1..Len(q) : (<<v>> \o q)[1 + i] = q[i]
        /\ <<>> \o q = q
    <2> HIDE DEF RecvVecs
    <2> DEFINE w == <<v>> \o q
    <2>1. /\ w \in Seq(RecvVecs) /\ Len(w) = 1 + Len(q) /\ Len(q) \in Nat
          /\ w[1] = v /\ \A i \in 1..Len(q) : w[1 + i] = q[i]
          /\ <<>> \o q = q
      BY ConsOf
    <2> HIDE DEF w
    <2>2. DOMAIN w = 1..1 + Len(q) /\ DOMAIN q = 1..Len(q)
      BY <2>1
    <2> QED
      BY <2>1, <2>2 DEF w
  <1> DEFINE t == SizesOf(q)
             u == SizesOf(<<v>> \o q)
             w == <<v>> \o q
             x == <<v.size>> \o t
  <1>4. t \in Seq(Nat) /\ Len(t) = Len(q) /\ \A i \in 1..Len(q) : t[i] = q[i].size
    <2>1. t = [i \in 1..Len(q) |-> q[i].size]
      BY <1>3 DEF SizesOf
    <2> HIDE DEF t
    <2> QED
      BY <1>2, <1>3, <2>1
  <1>5. u = [i \in 1..1 + Len(q) |-> w[i].size]
    BY <1>3 DEF SizesOf
  <1>6. Room(<<v.size>>) = v.size /\ <<v.size>> \in Seq(Nat)
    BY <1>2, RoomOne
  <1>7. w[1] = v /\ \A i \in 1..Len(q) : w[1 + i] = q[i]
    BY <1>3
  <1>8. /\ x = [i \in 1..1 + Len(q) |-> x[i]]
        /\ x[1] = v.size
        /\ \A i \in 1..Len(q) : x[1 + i] = q[i].size
    <2> HIDE DEF t
    <2>1. /\ x = [i \in 1..1 + Len(t) |-> x[i]] /\ x[1] = v.size
          /\ \A i \in 1..Len(t) : x[1 + i] = t[i]
      <3>1. PICK y : y = v.size
        OBVIOUS
      <3>2. y \in Nat /\ t \in Seq(Nat)
        BY <1>2, <1>4, <3>1
      <3>3. /\ <<y>> \o t = [i \in 1..1 + Len(t) |-> (<<y>> \o t)[i]]
            /\ (<<y>> \o t)[1] = y
            /\ \A i \in 1..Len(t) : (<<y>> \o t)[1 + i] = t[i]
        BY <3>2, ConsOf
      <3>4. x = <<y>> \o t
        BY <3>1
      <3> HIDE DEF x
      <3> QED
        BY <3>1, <3>3, <3>4
    <2> HIDE DEF x
    <2> QED
      BY <1>4, <2>1
  <1>11. Room(x) = Room(<<v.size>>) + Room(t) /\ Room(t) \in Nat
    BY <1>4, <1>6, RoomConcat, RoomNat
  <1> HIDE DEF t, u, w, x
  <1>9. \A i \in 1..1 + Len(q) : u[i] = x[i]
    <2> SUFFICES ASSUME NEW i \in 1..1 + Len(q) PROVE u[i] = x[i]
      OBVIOUS
    <2>1. CASE i = 1
      BY <1>5, <1>7, <1>8, <2>1
    <2>2. CASE i # 1
      <3>1. PICK j \in 1..Len(q) : i = 1 + j
        <4>1. i - 1 \in 1..Len(q) /\ i = 1 + (i - 1)
          BY <1>3, <2>2
        <4> QED
          BY <4>1
      <3>2. u[i] = w[i].size /\ w[1 + j] = q[j] /\ x[1 + j] = q[j].size
        BY <1>5, <1>7, <1>8
      <3> QED
        BY <3>1, <3>2
    <2> QED
      BY <2>1, <2>2
  <1>10. u = x
    BY <1>5, <1>8, <1>9
  <1> QED
    BY <1>3, <1>6, <1>10, <1>11 DEF t, u, w

LEMMA SizesOfAttach ==
    ASSUME NEW sizes \in Seq(Nat)
    PROVE  SizesOf(AttachVecs(sizes)) = sizes
  <1>1. /\ AttachVecs(sizes) \in Seq(RecvVecs) /\ Len(AttachVecs(sizes)) = Len(sizes)
        /\ \A i \in 1..Len(sizes) : AttachVecs(sizes)[i].size = sizes[i]
    BY AttachTyped
  <1>2. DOMAIN AttachVecs(sizes) = 1..Len(sizes)
    BY DEF AttachVecs
  <1>3. SizesOf(AttachVecs(sizes)) = [i \in 1..Len(sizes) |-> sizes[i]]
    BY <1>1, <1>2 DEF SizesOf
  <1> QED
    BY <1>3

(* The room of the vectors posted.                                         *)
LEMMA RoomPosted ==
    ASSUME RecvTyped
    PROVE  /\ mCurRecvBlock = Nil => Posted = mRecvQ
           /\ mCurRecvBlock # Nil =>
                /\ Posted = <<mCurRecvBlock>> \o mRecvQ
                /\ Room(SizesOf(Posted)) = mCurRecvBlock.size + Room(SizesOf(mRecvQ))
           /\ Room(SizesOf(mRecvQ)) \in Nat
  <1>1. mRecvQ \in Seq(RecvVecs) /\ mCurRecvBlock \in RecvVecs \cup {Nil}
    BY DEF RecvTyped
  <1>2. \E v : v \in RecvVecs
    BY VecTyped, StreamAssumption DEF AllocTypes
  <1>3. Room(SizesOf(mRecvQ)) \in Nat /\ <<>> \o mRecvQ = mRecvQ
    BY <1>1, <1>2, RoomOfVecs
  <1>4. CASE mCurRecvBlock = Nil
    BY <1>3, <1>4 DEF Posted
  <1>5. CASE mCurRecvBlock # Nil
    <2>1. mCurRecvBlock \in RecvVecs
      BY <1>1, <1>5
    <2>2. Posted = <<mCurRecvBlock>> \o mRecvQ
      BY <1>5 DEF Posted
    <2> QED
      BY <1>1, <1>3, <1>5, <2>1, <2>2, RoomOfVecs
  <1> QED
    BY <1>3, <1>4, <1>5

LEMMA OnePosted ==
    ASSUME PostsOne
    PROVE  /\ Fitting' /\ VecCount' = 1 /\ mCurRecvBlock' = Nil
           /\ PostsUnit => \A i \in DOMAIN mRecvQ' : mRecvQ'[i].size = 1
  <1>1. PICK v \in RecvVecs : v.got = <<>> /\ mRecvQ' = <<v>> /\ mCurRecvBlock' = Nil
    BY DEF PostsOne
  <1>2. DOMAIN mRecvQ' = {1} /\ mRecvQ'[1] = v /\ Len(mRecvQ') = 1
    BY <1>1
  <1>3. Fitting' /\ VecCount' = 1
    BY <1>1, <1>2 DEF Fitting, VecCount
  <1>4. ASSUME PostsUnit PROVE \A i \in DOMAIN mRecvQ' : mRecvQ'[i].size = 1
    BY <1>4, <1>2 DEF PostsUnit
  <1> QED
    BY <1>1, <1>3, <1>4

LEMMA VectorsOut ==
    ASSUME BaseInv, ended = "open", Done, Outcome
    PROVE  VectorsInv'
  <1>0. VectorsInv /\ Fitting /\ Counted /\ Sized /\ RecvTyped
    BY TypeParts DEF BaseInv, VectorsInv
  <1>a. PostsUnit => PostsOne
    BY DEF PostsUnit, PostsOne
  <1>1. CASE Stops
    BY <1>0, <1>1 DEF Stops, VectorsInv, Fitting
  <1>2. CASE ToHeader
    <2>1. PostsUnit /\ PostsOne /\ mNextRecvPart' = "HEADER"
      BY <1>a, <1>2 DEF ToHeader
    <2>2. Fitting' /\ VecCount' = 1 /\ mCurRecvBlock' = Nil
          /\ \A i \in DOMAIN mRecvQ' : mRecvQ'[i].size = 1
      BY <2>1, OnePosted
    <2> QED
      BY <2>1, <2>2 DEF VectorsInv, Counted, Sized
  <1>3. CASE ToDrain
    <2>1. PostsOne /\ mNextRecvPart' = "DRAIN" /\ cbp'.remainVecs > 0
      BY <1>3 DEF ToDrain
    <2>2. Fitting' /\ VecCount' = 1
      BY <2>1, OnePosted
    <2> QED
      BY <2>1, <2>2 DEF VectorsInv, Counted, Sized
  <1>4. CASE ToMessage
    <2>1. PostsUnit /\ PostsOne /\ mNextRecvPart' = "MESSAGE" /\ data' = <<>>
      BY <1>a, <1>4 DEF ToMessage
    <2>2. Fitting' /\ VecCount' = 1 /\ mCurRecvBlock' = Nil
          /\ \A i \in DOMAIN mRecvQ' : mRecvQ'[i].size = 1
      BY <2>1, OnePosted
    <2> QED
      BY <2>1, <2>2 DEF VectorsInv, Counted, Sized
  <1>5. ASSUME NEW id, ToFile(id) PROVE VectorsInv'
    <2>1. /\ PostsOne /\ mNextRecvPart' = "ATTACHFILE" /\ cbp.fileLen > 0
          /\ cbp' = [cbp EXCEPT !.cev = id, !.remainVecs = BlockCount(cbp.fileLen)]
      BY <1>5 DEF ToFile
    <2>2. Fitting' /\ VecCount' = 1
      BY <2>1, OnePosted
    <2>3. cbp'.remainVecs > 0
      <3>1. cbp \in CbpType /\ cbp.fileLen \in Nat
        BY <1>0, MoreTyped
      <3>2. cbp'.remainVecs = BlockCount(cbp.fileLen)
        BY <2>1, <3>1 DEF CbpType
      <3> QED
        BY <2>1, <3>1, <3>2, BlockCountOf
    <2> QED
      BY <2>1, <2>2, <2>3 DEF VectorsInv, Counted, Sized, OneVecParts
  <1>6. CASE mNextRecvPart = "MESSAGE" /\ ToAttach
    <2>0. data = <<>> /\ cbp \in CbpType
      BY <1>0, <1>6, MoreTyped DEF Sized
    <2>1. PICK sizes \in Seq(Nat) :
            /\ sizes # <<>> /\ Room(sizes) = cbp.attLen /\ cbp.attLen > 0
            /\ mRecvQ' = AttachVecs(sizes) /\ mCurRecvBlock' = Nil
            /\ cbp' = [cbp EXCEPT !.cev = First.id, !.remainVecs = Len(sizes)]
            /\ mNextRecvPart' = "ATTACHMENT" /\ data' = data
      BY <1>6 DEF ToAttach
    <2>2. /\ AttachVecs(sizes) \in Seq(RecvVecs) /\ Len(AttachVecs(sizes)) = Len(sizes)
          /\ \A i \in 1..Len(sizes) : AttachVecs(sizes)[i].got = <<>>
      BY AttachTyped
    <2>3. DOMAIN mRecvQ' = 1..Len(sizes)
      BY <2>1 DEF AttachVecs
    <2>4. Fitting'
      BY <2>1, <2>2, <2>3 DEF Fitting
    <2>5. cbp'.remainVecs = Len(sizes) /\ cbp'.attLen = cbp.attLen
      BY <2>0, <2>1 DEF CbpType
    <2>6. Len(sizes) > 0 /\ Len(sizes) \in Nat
      BY <2>1
    <2>7. VecCount' = Len(sizes)
      BY <2>1, <2>2, <2>6 DEF VecCount
    <2>8. Posted' = mRecvQ'
      <3>1. <<>> \o AttachVecs(sizes) = AttachVecs(sizes)
        <4> DEFINE q == AttachVecs(sizes)
        <4> HIDE DEF q, RecvVecs
        <4>1. q \in Seq(RecvVecs)
          BY <2>2 DEF q
        <4>2. <<>> \o q = q
          BY <4>1
        <4> QED
          BY <4>2 DEF q
      <3> QED
        BY <2>1, <3>1 DEF Posted
    <2>9. Room(SizesOf(Posted)') = cbp.attLen
      <3>1. SizesOf(mRecvQ') = sizes
        BY <2>1, SizesOfAttach
      <3>2. SizesOf(Posted)' = SizesOf(mRecvQ')
        BY <2>8 DEF SizesOf
      <3> QED
        BY <2>1, <3>1, <3>2
    <2>10. Len(data') = 0 /\ cbp.attLen \in Nat
      BY <1>0, <2>0, <2>1, MoreTyped
    <2>11. Len(data') + Room(SizesOf(Posted)') = cbp'.attLen
      BY <2>5, <2>9, <2>10
    <2>12. Counted'
      BY <2>1, <2>5, <2>6, <2>7 DEF Counted, OneVecParts
    <2>13. Sized'
      BY <2>1, <2>11 DEF Sized
    <2> QED
      BY <2>4, <2>12, <2>13 DEF VectorsInv
  <1>7. CASE mNextRecvPart = "ATTACHMENT" /\ MoreAttach
    <2>1. /\ mCurRecvBlock \in RecvVecs /\ mCurRecvBlock # Nil
          /\ mRecvQ \in Seq(RecvVecs) /\ mCurRecvBlock.got \in Seq(Units)
          /\ Len(mCurRecvBlock.got) = mCurRecvBlock.size
          /\ Len(mRecvQ) \in Nat /\ cbp \in CbpType
          /\ cbp.remainVecs = Len(mRecvQ) + 1
      BY <1>7, CurrentVec DEF Done
    <2>2. /\ mRecvQ' = mRecvQ /\ mCurRecvBlock' = Nil
          /\ UNCHANGED <<mNextRecvPart, ended>>
          /\ cbp' = [cbp EXCEPT !.remainVecs = @ - 1] /\ cbp.remainVecs > 1
          /\ data' = data \o mCurRecvBlock.got
      BY <1>7 DEF MoreAttach
    <2>3. cbp'.remainVecs = cbp.remainVecs - 1 /\ cbp'.attLen = cbp.attLen
      BY <2>1, <2>2 DEF CbpType
    <2>4. Fitting'
      BY <1>0, <2>2 DEF Fitting
    <2>5. VecCount' = Len(mRecvQ)
      BY <2>1, <2>2 DEF VecCount
    <2>6. Counted'
      BY <1>7, <2>1, <2>2, <2>3, <2>5 DEF Counted, OneVecParts
    <2>7. Posted' = mRecvQ
      <3>1. <<>> \o mRecvQ = mRecvQ
        <4> HIDE DEF RecvVecs
        <4> QED
          BY <2>1
      <3> QED
        BY <2>2, <3>1 DEF Posted
    <2>8. SizesOf(Posted)' = SizesOf(mRecvQ)
      BY <2>7 DEF SizesOf
    <2>9. /\ Room(SizesOf(Posted)) = mCurRecvBlock.size + Room(SizesOf(mRecvQ))
          /\ Room(SizesOf(mRecvQ)) \in Nat
      BY <1>0, <2>1, RoomPosted
    <2>10. Len(data) + Room(SizesOf(Posted)) = cbp.attLen /\ data \in Seq(Units)
      BY <1>0, <1>7, MoreTyped DEF Sized
    <2>11. Len(data') = Len(data) + Len(mCurRecvBlock.got) /\ Len(data) \in Nat
           /\ Len(mCurRecvBlock.got) \in Nat
      <3> HIDE DEF Units
      <3> QED
        BY <2>1, <2>2, <2>10
    <2>12. Len(data') + Room(SizesOf(Posted)') = cbp'.attLen
      BY <2>1, <2>3, <2>8, <2>9, <2>10, <2>11
    <2>13. Sized'
      BY <1>7, <2>2, <2>12 DEF Sized
    <2> QED
      BY <2>4, <2>6, <2>13 DEF VectorsInv
  <1>8. CASE mNextRecvPart = "ATTACHFILE" /\ mRecvQ = <<>> /\ FileStalls
    <2>1. mRecvQ' = <<>> /\ mCurRecvBlock' = Nil /\ mNextRecvPart' = "ATTACHFILE"
      BY <1>8 DEF FileStalls
    <2>2. VecCount' = 0
      BY <2>1 DEF VecCount
    <2> QED
      BY <2>1, <2>2 DEF VectorsInv, Fitting, Counted, Sized, OneVecParts
  <1>9. CASE mNextRecvPart = "MESSAGE" /\ Usable(First.id)
    BY <1>2, <1>5, <1>6, <1>9 DEF Usable, Delivers
  <1>10. CASE mNextRecvPart = "ATTACHMENT" /\ Attached
    BY <1>2, <1>5, <1>7, <1>10 DEF Attached, Delivers
  <1> QED
    BY <1>1, <1>2, <1>3, <1>4, <1>8, <1>9, <1>10 DEF Outcome

LEMMA HeadTail ==
    ASSUME NEW S, NEW q \in Seq(S), q # <<>>
    PROVE  <<Head(q)>> \o Tail(q) = q
  OBVIOUS

LEMMA VectorsTake ==
    ASSUME BaseInv, TakeVec
    PROVE  VectorsInv'
  <1>0. Fitting /\ Counted /\ Sized /\ RecvTyped
    BY TypeParts, TakeOut DEF BaseInv, VectorsInv
  <1>1. /\ mCurRecvBlock = Nil /\ mRecvQ # <<>> /\ mRecvQ \in Seq(RecvVecs)
        /\ mCurRecvBlock' = Head(mRecvQ) /\ mRecvQ' = Tail(mRecvQ)
        /\ Head(mRecvQ) \in RecvVecs /\ mCurRecvBlock' # Nil
        /\ Head(mRecvQ) = mRecvQ[1] /\ 1 \in DOMAIN mRecvQ
        /\ Len(mRecvQ') = Len(mRecvQ) - 1 /\ Len(mRecvQ) \in Nat
        /\ \A i \in DOMAIN mRecvQ' : i + 1 \in DOMAIN mRecvQ /\ mRecvQ'[i] = mRecvQ[i + 1]
        /\ UNCHANGED <<mNextRecvPart, cbp, data>>
    BY TakeOut
  <1>2. VecCount' = VecCount
    BY <1>1 DEF VecCount
  <1>3. Posted = mRecvQ /\ Posted' = mRecvQ
    <2>1. Posted = mRecvQ
      BY <1>0, <1>1, RoomPosted
    <2>2. Posted' = <<Head(mRecvQ)>> \o Tail(mRecvQ)
      BY <1>1 DEF Posted
    <2> HIDE DEF RecvVecs
    <2>3. <<Head(mRecvQ)>> \o Tail(mRecvQ) = mRecvQ
      BY <1>1, HeadTail
    <2> QED
      BY <2>1, <2>2, <2>3
  <1>4. mCurRecvBlock'.got = <<>> /\ mCurRecvBlock'.size \in Nat
    BY <1>0, <1>1 DEF Fitting, RecvVecs
  <1>5. Fitting'
    <2>1. Len(mCurRecvBlock'.got) <= mCurRecvBlock'.size
      BY <1>4
    <2> QED
      BY <1>0, <1>1, <2>1 DEF Fitting
  <1>6. Counted'
    BY <1>0, <1>1, <1>2 DEF Counted
  <1>7. SizesOf(Posted)' = SizesOf(Posted)
    BY <1>3 DEF SizesOf
  <1>8. Sized'
    <2>1. ASSUME mNextRecvPart \in {"HEADER", "MESSAGE"}
          PROVE  /\ mCurRecvBlock'.size = 1
                 /\ \A i \in DOMAIN mRecvQ' : mRecvQ'[i].size = 1
      BY <1>0, <1>1, <2>1 DEF Sized
    <2> QED
      BY <1>0, <1>1, <1>7, <2>1 DEF Sized
  <1> QED
    BY <1>5, <1>6, <1>8 DEF VectorsInv

LEMMA VectorsRead ==
    ASSUME BaseInv, NEW k \in 1..WireMax, RecvVec(k)
    PROVE  VectorsInv'
  <1>0. Fitting /\ Counted /\ Sized /\ RecvTyped
    BY TypeParts, ReadOut DEF BaseInv, VectorsInv
  <1>1. /\ mCurRecvBlock \in RecvVecs /\ mCurRecvBlock # Nil /\ mCurRecvBlock' \in RecvVecs
        /\ mCurRecvBlock' # Nil /\ mCurRecvBlock'.size = mCurRecvBlock.size
        /\ k \in Nat /\ k <= mCurRecvBlock.size - Len(mCurRecvBlock.got)
        /\ Len(mCurRecvBlock'.got) = Len(mCurRecvBlock.got) + k
        /\ mCurRecvBlock.got \in Seq(Units)
        /\ UNCHANGED <<mRecvQ, mNextRecvPart, cbp, data, ended>>
    BY ReadOut, StreamAssumption
  <1>2. VecCount' = VecCount
    BY <1>1 DEF VecCount
  <1>3. Room(SizesOf(Posted)') = Room(SizesOf(Posted))
    <2>1. Posted' = <<mCurRecvBlock'>> \o mRecvQ
      BY <1>1 DEF Posted
    <2>2. mRecvQ \in Seq(RecvVecs)
      BY <1>0 DEF RecvTyped
    <2>3. Room(SizesOf(<<mCurRecvBlock'>> \o mRecvQ))
            = mCurRecvBlock'.size + Room(SizesOf(mRecvQ))
      BY <1>1, <2>2, RoomOfVecs
    <2>4. Room(SizesOf(Posted)) = mCurRecvBlock.size + Room(SizesOf(mRecvQ))
      BY <1>0, <1>1, RoomPosted
    <2>5. SizesOf(Posted)' = SizesOf(<<mCurRecvBlock'>> \o mRecvQ)
      BY <2>1 DEF SizesOf
    <2> QED
      BY <1>1, <2>3, <2>4, <2>5
  <1>4. Fitting'
    <2>1. Len(mCurRecvBlock'.got) <= mCurRecvBlock'.size
      <3>1. Len(mCurRecvBlock.got) \in Nat /\ mCurRecvBlock.size \in Nat
        BY <1>1 DEF RecvVecs
      <3> QED
        BY <1>1, <3>1
    <2> QED
      BY <1>0, <1>1, <2>1 DEF Fitting
  <1>5. Counted'
    BY <1>0, <1>1, <1>2 DEF Counted
  <1>6. Sized'
    BY <1>0, <1>1, <1>3 DEF Sized
  <1> QED
    BY <1>4, <1>5, <1>6 DEF VectorsInv

LEMMA VectorsNext ==
    ASSUME BaseInv, EventHeld, [Next]_vars
    PROVE  VectorsInv'
  <1>1. CASE UNCHANGED recvVars
    <2>1. VectorsInv
      BY DEF BaseInv
    <2>2. UNCHANGED <<mRecvQ, mCurRecvBlock, mNextRecvPart, cbp, data, ended>>
      BY <1>1 DEF recvVars
    <2> QED
      BY <2>1, <2>2 DEF VectorsInv, Fitting, Counted, Sized, VecCount, Posted, SizesOf
  <1>2. CASE SenderStep
    BY <1>1, <1>2, SenderFrame
  <1>3. CASE UNCHANGED vars
    BY <1>1, <1>3 DEF vars, recvVars
  <1>4. CASE CallbackStep
    BY <1>4, CallbackFrame, CallbackOut, VectorsOut
  <1>5. CASE RecvBroken
    <2>1. Fitting
      BY DEF BaseInv, VectorsInv
    <2> QED
      BY <1>5, <2>1, BrokenOut DEF VectorsInv, Fitting
  <1>6. CASE Cleanup
    <2>1. mRecvQ' = <<>> /\ mCurRecvBlock' = Nil /\ ended' = "cleaned"
      BY <1>6, CleanupOut
    <2> QED
      BY <2>1 DEF VectorsInv, Fitting
  <1> QED
    BY <1>2, <1>3, <1>4, <1>5, <1>6, VectorsTake, VectorsRead, StepKinds

-----------------------------------------------------------------------------
(* Part 4.  The units in the stream.                                       *)

(* What a sending step does to the queue and to the wire, unit by unit.    *)
MessageOf(h) == [id |-> h, part |-> "message", n |-> 1]
OwnUnits(id, q) ==
    \A i \in DOMAIN q :
        /\ q[i].id = id
        /\ q[i].part = "header" => i + 1 \in DOMAIN q /\ q[i + 1] = MessageOf(id)

LEMMA UnitsOwn ==
    ASSUME NEW id, NEW part, part # "header", NEW len \in Nat
    PROVE  /\ OwnUnits(id, UnitsOf(id, part, len))
           /\ \A i \in DOMAIN UnitsOf(id, part, len) : UnitsOf(id, part, len)[i].part = part
  BY DEF OwnUnits, UnitsOf

LEMMA TwoUnits ==
    ASSUME NEW S, NEW a \in S, NEW b \in S
    PROVE  <<a>> \o <<b>> = <<a, b>>
  <1>1. PICK p, q : p = <<a>> /\ q = <<b>>
    OBVIOUS
  <1>2. p \in Seq(S) /\ q \in Seq(S) /\ Len(p) = 1 /\ Len(q) = 1 /\ p[1] = a /\ q[1] = b
    BY <1>1
  <1> DEFINE u == p \o q
  <1>3. u \in Seq(S) /\ Len(u) = 2 /\ u[1] = a /\ u[2] = b
    <2>1. p \in Seq(S)
      BY <1>2
    <2>2. q \in Seq(S)
      BY <1>2
    <2>3. /\ u \in Seq(S) /\ Len(u) = Len(p) + Len(q)
          /\ \A i \in 1..Len(p) : u[i] = p[i]
          /\ \A i \in 1..Len(q) : u[Len(p) + i] = q[i]
      BY <2>1, <2>2, ConcatOf
    <2> QED
      BY <1>2, <2>3
  <1> HIDE DEF u
  <1>4. u = <<u[1], u[2]>>
    BY <1>3
  <1> QED
    BY <1>1, <1>3, <1>4 DEF u

LEMMA FirstBlock ==
    ASSUME NEW id \in Ids
    PROVE  OwnUnits(id, UnitsOf(id, "header", 1) \o UnitsOf(id, "message", 1))
  <1> DEFINE h == [id |-> id, part |-> "header", n |-> 1]
             m == MessageOf(id)
  <1>1. UnitsOf(id, "header", 1) = <<h>> /\ UnitsOf(id, "message", 1) = <<m>>
    <2>1. 1..1 = {1}
      OBVIOUS
    <2> QED
      BY <2>1 DEF UnitsOf, MessageOf
  <1>2. h.id = id /\ m.id = id /\ m.part # "header"
    BY DEF MessageOf
  <1> HIDE DEF h, m
  <1>3. <<h>> \o <<m>> = <<h, m>>
    <2>1. PICK S : S = {h, m}
      OBVIOUS
    <2>2. h \in S /\ m \in S
      BY <2>1
    <2> QED
      BY <2>2, TwoUnits
  <1>4. DOMAIN <<h, m>> = {1, 2} /\ <<h, m>>[1] = h /\ <<h, m>>[2] = m
    OBVIOUS
  <1>5. OwnUnits(id, <<h, m>>)
    BY <1>2, <1>4 DEF OwnUnits, m
  <1> QED
    BY <1>1, <1>3, <1>5

LEMMA IoVecsOwn ==
    ASSUME NEW id \in Ids, NEW m \in Shapes
    PROVE  /\ DOMAIN IoVecsOf(id, m) = 1..Len(IoVecsOf(id, m))
           /\ \A b \in DOMAIN IoVecsOf(id, m) :
                /\ IoVecsOf(id, m)[b].id = id
                /\ OwnUnits(id, IoVecsOf(id, m)[b].units)
  <1> DEFINE first == UnitsOf(id, "header", 1) \o UnitsOf(id, "message", 1)
             rest == UnitsOf(id, "att", m.att)
  <1>1. OwnUnits(id, first)
    BY FirstBlock
  <1>2. OwnUnits(id, rest)
    BY UnitsOwn, StreamAssumption
  <1>3. IoVecsOf(id, m) =
          IF m.att = 0 THEN <<[id |-> id, units |-> first, last |-> TRUE]>>
          ELSE <<[id |-> id, units |-> first, last |-> FALSE],
                 [id |-> id, units |-> rest, last |-> TRUE]>>
    BY DEF IoVecsOf
  <1> HIDE DEF first, rest
  <1>4. CASE m.att = 0
    BY <1>1, <1>3, <1>4
  <1>5. CASE m.att # 0
    BY <1>1, <1>2, <1>3, <1>5
  <1> QED
    BY <1>4, <1>5

LEMMA PostSendOut ==
    ASSUME SendTyped, NEW m \in Shapes, PostSend(m)
    PROVE  /\ ~closed /\ UNCHANGED <<sendFile, truncated, closed, wire>>
           /\ DOMAIN posted' = DOMAIN posted \cup {Len(posted) + 1}
           /\ \A i \in DOMAIN posted : posted'[i] = posted[i]
           /\ DOMAIN mSendQ \subseteq DOMAIN mSendQ' /\ DOMAIN mSendQ = 1..Len(mSendQ)
           /\ \A b \in DOMAIN mSendQ : mSendQ'[b] = mSendQ[b]
           /\ \A b \in DOMAIN mSendQ' \ DOMAIN mSendQ :
                /\ mSendQ'[b].id = Len(posted) + 1
                /\ OwnUnits(Len(posted) + 1, mSendQ'[b].units)
           /\ mSendQ # <<>> => Head(mSendQ') = Head(mSendQ) /\ mSendQ' # <<>>
  <1>1. PICK id : id = Len(posted) + 1
    OBVIOUS
  <1>2. PICK q : q = IoVecsOf(id, m)
    OBVIOUS
  <1>3. /\ ~closed /\ id \in Ids /\ posted' = Append(posted, m) /\ mSendQ' = mSendQ \o q
        /\ UNCHANGED <<sendFile, truncated, closed, wire>>
    BY <1>1, <1>2 DEF PostSend
  <1>4. posted \in Seq(Shapes) /\ mSendQ \in Seq(Blocks)
    BY DEF SendTyped, Blocks
  <1>5. q \in Seq(Blocks)
    BY <1>2, <1>3, IoVecsTyped
  <1>6. \A b \in 1..Len(q) : q[b].id = id /\ OwnUnits(id, q[b].units)
    BY <1>2, <1>3, IoVecsOwn
  <1>7. /\ DOMAIN posted' = DOMAIN posted \cup {id}
        /\ \A i \in DOMAIN posted : posted'[i] = posted[i]
    BY <1>1, <1>3, <1>4
  <1> HIDE DEF Blocks
  <1>8. /\ mSendQ' \in Seq(Blocks) /\ Len(mSendQ') = Len(mSendQ) + Len(q)
        /\ Len(mSendQ) \in Nat /\ Len(q) \in Nat
        /\ \A b \in 1..Len(mSendQ) : mSendQ'[b] = mSendQ[b]
        /\ \A b \in 1..Len(q) : mSendQ'[Len(mSendQ) + b] = q[b]
    BY <1>3, <1>4, <1>5, ConcatOf
  <1>9. DOMAIN mSendQ = 1..Len(mSendQ) /\ DOMAIN mSendQ' = 1..Len(mSendQ) + Len(q)
    BY <1>4, <1>8
  <1>10. ASSUME NEW b \in DOMAIN mSendQ' \ DOMAIN mSendQ
         PROVE  mSendQ'[b].id = id /\ OwnUnits(id, mSendQ'[b].units)
    <2>1. PICK j \in 1..Len(q) : b = Len(mSendQ) + j
      <3>1. b - Len(mSendQ) \in 1..Len(q) /\ b = Len(mSendQ) + (b - Len(mSendQ))
        BY <1>8, <1>9
      <3> QED
        BY <3>1
    <2> QED
      BY <1>6, <1>8, <2>1
  <1>11. ASSUME mSendQ # <<>> PROVE Head(mSendQ') = Head(mSendQ) /\ mSendQ' # <<>>
    <2>1. 1 \in 1..Len(mSendQ) /\ Head(mSendQ) = mSendQ[1]
      BY <1>4, <1>11
    <2>2. mSendQ' # <<>> /\ Head(mSendQ') = mSendQ'[1]
      BY <1>8, <2>1
    <2> QED
      BY <1>8, <2>1, <2>2
  <1>12. DOMAIN mSendQ \subseteq DOMAIN mSendQ'
    BY <1>8, <1>9
  <1> QED
    BY <1>1, <1>3, <1>7, <1>8, <1>9, <1>10, <1>11, <1>12

LEMMA SendVecOut ==
    ASSUME SendTyped, WireTyped, NEW k \in 1..WireMax, SendVec(k)
    PROVE  /\ ~closed /\ sendFile = <<>> /\ mSendQ # <<>>
           /\ UNCHANGED <<posted, sendFile, truncated, closed>>
           /\ k \in Nat \ {0} /\ k <= Len(Head(mSendQ).units)
           /\ DOMAIN mSendQ' = DOMAIN mSendQ /\ 1 \in DOMAIN mSendQ
           /\ mSendQ' # <<>> /\ Head(mSendQ') = mSendQ'[1] /\ Head(mSendQ) = mSendQ[1]
           /\ \A b \in DOMAIN mSendQ : b # 1 => mSendQ'[b] = mSendQ[b]
           /\ mSendQ'[1].id = mSendQ[1].id
           /\ mSendQ[1].units \in Seq(Units) /\ mSendQ'[1].units \in Seq(Units)
           /\ Len(mSendQ'[1].units) = Len(mSendQ[1].units) - k
           /\ \A i \in 1..Len(mSendQ[1].units) - k :
                mSendQ'[1].units[i] = mSendQ[1].units[k + i]
           /\ wire \in Seq(Units) /\ wire' \in Seq(Units)
           /\ Len(wire') = Len(wire) + k /\ Len(wire) \in Nat
           /\ \A i \in 1..Len(wire) : wire'[i] = wire[i]
           /\ \A i \in 1..k : wire'[Len(wire) + i] = mSendQ[1].units[i]
  <1>1. PICK u : u = Head(mSendQ).units
    OBVIOUS
  <1>2. /\ ~closed /\ sendFile = <<>> /\ mSendQ # <<>> /\ k <= Len(u)
        /\ wire' = wire \o SubSeq(u, 1, k)
        /\ mSendQ' = [mSendQ EXCEPT ![1].units = SubSeq(@, k + 1, Len(@))]
        /\ UNCHANGED <<posted, sendFile, truncated, closed>>
    BY <1>1 DEF SendVec
  <1>3. /\ k \in Nat \ {0} /\ u \in Seq(Units) /\ u = mSendQ[1].units
        /\ 1 \in DOMAIN mSendQ /\ mSendQ[1] \in Blocks /\ Head(mSendQ) = mSendQ[1]
        /\ DOMAIN mSendQ = 1..Len(mSendQ)
    BY <1>1, <1>2, HeadBlock, StreamAssumption
  <1> DEFINE v == SubSeq(u, 1, k)
             w == SubSeq(u, k + 1, Len(u))
  <1>4. /\ v \in Seq(Units) /\ Len(v) = k /\ \A i \in 1..k : v[i] = u[i]
        /\ w \in Seq(Units) /\ Len(w) = Len(u) - k
        /\ \A i \in 1..Len(u) - k : w[i] = u[k + i]
    <2>1. k \in Nat /\ k <= Len(u)
      BY <1>2, <1>3
    <2>2. u \in Seq(Units)
      BY <1>3
    <2> QED
      BY <2>1, <2>2, CutSeq
  <1>5. wire' = wire \o v /\ mSendQ' = [mSendQ EXCEPT ![1] = [mSendQ[1] EXCEPT !.units = w]]
    BY <1>2, <1>3
  <1> HIDE DEF v, w
  <1>6. wire \in Seq(Units)
    BY DEF WireTyped
  <1>7. /\ wire' \in Seq(Units) /\ Len(wire') = Len(wire) + k /\ Len(wire) \in Nat
        /\ \A i \in 1..Len(wire) : wire'[i] = wire[i]
        /\ \A i \in 1..k : wire'[Len(wire) + i] = v[i]
    BY <1>4, <1>5, <1>6, ConcatOf
  <1>8. /\ DOMAIN mSendQ' = DOMAIN mSendQ
        /\ \A b \in DOMAIN mSendQ : b # 1 => mSendQ'[b] = mSendQ[b]
        /\ mSendQ'[1] = [mSendQ[1] EXCEPT !.units = w]
    BY <1>3, <1>5
  <1>9. mSendQ'[1].id = mSendQ[1].id /\ mSendQ'[1].units = w
    BY <1>3, <1>8 DEF Blocks
  <1>10. mSendQ' # <<>> /\ Head(mSendQ') = mSendQ'[1]
    <2>1. DOMAIN mSendQ' # {}
      BY <1>3, <1>8
    <2> QED
      BY <2>1 DEF Head
  <1>11. /\ mSendQ[1].units = u /\ Head(mSendQ).units = u
         /\ \A i \in 1..Len(u) - k : mSendQ'[1].units[i] = u[k + i]
         /\ \A i \in 1..k : wire'[Len(wire) + i] = u[i]
    BY <1>1, <1>3, <1>4, <1>7, <1>9
  <1>12. u \in Seq(Units) /\ w \in Seq(Units) /\ Len(w) = Len(u) - k
    BY <1>3, <1>4
  <1>13. /\ ~closed /\ sendFile = <<>> /\ mSendQ # <<>>
         /\ UNCHANGED <<posted, sendFile, truncated, closed>>
         /\ k \in Nat \ {0} /\ k <= Len(Head(mSendQ).units)
         /\ 1 \in DOMAIN mSendQ /\ Head(mSendQ) = mSendQ[1]
    BY <1>1, <1>2, <1>3
  <1> HIDE DEF Units
  <1> QED
    BY <1>6, <1>7, <1>8, <1>9, <1>10, <1>11, <1>12, <1>13

LEMMA SendCallbackOut ==
    ASSUME SendTyped, BlocksPosted, NEW opened \in BOOLEAN, SendCallback(opened)
    PROVE  /\ ~closed /\ sendFile = <<>> /\ mSendQ # <<>> /\ mSendQ[1].units = <<>>
           /\ 1 \in DOMAIN mSendQ /\ Head(mSendQ) = mSendQ[1]
           /\ \A b \in DOMAIN mSendQ' :
                b + 1 \in DOMAIN mSendQ /\ mSendQ'[b] = mSendQ[b + 1]
           /\ mSendQ[1].id \in DOMAIN posted
           /\ \A i \in DOMAIN sendFile' :
                sendFile'[i].id = mSendQ[1].id /\ sendFile'[i].part = "file"
           /\ UNCHANGED <<posted, closed, wire>>
  <1>1. PICK iov : iov = Head(mSendQ)
    OBVIOUS
  <1>2. /\ ~closed /\ sendFile = <<>> /\ mSendQ # <<>> /\ iov.units = <<>>
        /\ mSendQ' = Tail(mSendQ)
        /\ \/ sendFile' = UnitsOf(iov.id, "file", posted[iov.id].file)
           \/ sendFile' = <<>>
        /\ UNCHANGED <<posted, closed, wire>>
    BY <1>1 DEF SendCallback
  <1>3. /\ iov = mSendQ[1] /\ 1 \in DOMAIN mSendQ
        /\ \A b \in DOMAIN mSendQ' :
             b + 1 \in DOMAIN mSendQ /\ mSendQ'[b] = mSendQ[b + 1]
    BY <1>1, <1>2, HeadBlock
  <1>4. iov.id \in DOMAIN posted
    BY <1>3 DEF BlocksPosted
  <1>5. \A i \in DOMAIN sendFile' : sendFile'[i].id = iov.id /\ sendFile'[i].part = "file"
    <2>1. CASE sendFile' = UnitsOf(iov.id, "file", posted[iov.id].file)
      BY <2>1 DEF UnitsOf
    <2>2. CASE sendFile' = <<>>
      BY <2>2
    <2> QED
      BY <1>2, <2>1, <2>2
  <1> QED
    BY <1>1, <1>2, <1>3, <1>4, <1>5

LEMMA SendFileOut ==
    ASSUME SendTyped, WireTyped, SendFile
    PROVE  /\ ~closed /\ sendFile # <<>> /\ 1 \in DOMAIN sendFile
           /\ wire' \in Seq(Units) /\ wire \in Seq(Units)
           /\ Len(wire') = Len(wire) + 1 /\ Len(wire) \in Nat
           /\ \A i \in 1..Len(wire) : wire'[i] = wire[i]
           /\ wire'[Len(wire) + 1] = sendFile[1]
           /\ \A i \in DOMAIN sendFile' :
                i + 1 \in DOMAIN sendFile /\ sendFile'[i] = sendFile[i + 1]
           /\ UNCHANGED <<posted, mSendQ, truncated, closed>>
  <1>1. /\ ~closed /\ sendFile # <<>>
        /\ wire' = Append(wire, Head(sendFile)) /\ sendFile' = Tail(sendFile)
        /\ UNCHANGED <<posted, mSendQ, truncated, closed>>
    BY DEF SendFile
  <1>2. sendFile \in Seq(Units) /\ wire \in Seq(Units)
    BY DEF SendTyped, WireTyped
  <1> HIDE DEF Units
  <1>3. Head(sendFile) \in Units /\ Head(sendFile) = sendFile[1] /\ 1 \in DOMAIN sendFile
    BY <1>1, <1>2
  <1>4. \A i \in DOMAIN sendFile' :
          i + 1 \in DOMAIN sendFile /\ sendFile'[i] = sendFile[i + 1]
    BY <1>1, <1>2
  <1>5. /\ wire' \in Seq(Units) /\ Len(wire') = Len(wire) + 1 /\ Len(wire) \in Nat
        /\ \A i \in 1..Len(wire) : wire'[i] = wire[i]
        /\ wire'[Len(wire) + 1] = sendFile[1]
    BY <1>1, <1>2, <1>3
  <1> QED
    BY <1>1, <1>2, <1>3, <1>4, <1>5

(* Whatever is in the stream belongs to a message that was sent.           *)
LEMMA UnitsSent ==
    ASSUME SendTyped, WireTyped, UnitsInv, SenderStep
    PROVE  UnitsInv'
  <1>0. BlocksPosted /\ PostedUnits(sendFile) /\ PostedUnits(wire)
        /\ (mCurRecvBlock # Nil => PostedUnits(mCurRecvBlock.got))
    BY DEF UnitsInv
  <1>f. mCurRecvBlock' = mCurRecvBlock
    BY SenderFrame DEF recvVars
  <1>1. ASSUME NEW m \in Shapes, PostSend(m) PROVE UnitsInv'
    <2>1. /\ UNCHANGED <<sendFile, wire>>
          /\ DOMAIN posted' = DOMAIN posted \cup {Len(posted) + 1}
          /\ DOMAIN mSendQ \subseteq DOMAIN mSendQ'
          /\ \A b \in DOMAIN mSendQ : mSendQ'[b] = mSendQ[b]
          /\ \A b \in DOMAIN mSendQ' \ DOMAIN mSendQ :
               /\ mSendQ'[b].id = Len(posted) + 1
               /\ OwnUnits(Len(posted) + 1, mSendQ'[b].units)
      BY <1>1, PostSendOut
    <2>2. ASSUME NEW b \in DOMAIN mSendQ'
          PROVE  /\ mSendQ'[b].id \in DOMAIN posted'
                 /\ \A i \in DOMAIN mSendQ'[b].units : mSendQ'[b].units[i].id \in DOMAIN posted'
      <3>1. CASE b \in DOMAIN mSendQ
        BY <1>0, <2>1, <3>1 DEF BlocksPosted, PostedUnits
      <3>2. CASE b \notin DOMAIN mSendQ
        BY <2>1, <2>2, <3>2 DEF OwnUnits
      <3> QED
        BY <3>1, <3>2
    <2> QED
      BY <1>0, <1>f, <2>1, <2>2 DEF UnitsInv, BlocksPosted, PostedUnits
  <1>2. ASSUME NEW k \in 1..WireMax, SendVec(k) PROVE UnitsInv'
    <2>1. /\ UNCHANGED <<posted, sendFile>> /\ DOMAIN mSendQ' = DOMAIN mSendQ
          /\ k \in Nat \ {0} /\ k <= Len(mSendQ[1].units) /\ 1 \in DOMAIN mSendQ
          /\ \A b \in DOMAIN mSendQ : b # 1 => mSendQ'[b] = mSendQ[b]
          /\ mSendQ'[1].id = mSendQ[1].id
          /\ mSendQ[1].units \in Seq(Units) /\ mSendQ'[1].units \in Seq(Units)
          /\ Len(mSendQ'[1].units) = Len(mSendQ[1].units) - k
          /\ \A i \in 1..Len(mSendQ[1].units) - k :
               mSendQ'[1].units[i] = mSendQ[1].units[k + i]
          /\ wire \in Seq(Units) /\ wire' \in Seq(Units)
          /\ Len(wire') = Len(wire) + k /\ Len(wire) \in Nat
          /\ \A i \in 1..Len(wire) : wire'[i] = wire[i]
          /\ \A i \in 1..k : wire'[Len(wire) + i] = mSendQ[1].units[i]
      BY <1>2, SendVecOut
    <2>2. PICK u, w : u = mSendQ[1].units /\ w = mSendQ'[1].units
      OBVIOUS
    <2>3. DOMAIN u = 1..Len(u) /\ DOMAIN w = 1..Len(u) - k /\ Len(u) \in Nat
          /\ DOMAIN wire = 1..Len(wire) /\ DOMAIN wire' = 1..Len(wire) + k
      <3> HIDE DEF Units
      <3> QED
        BY <2>1, <2>2
    <2>4. \A i \in DOMAIN u : u[i].id \in DOMAIN posted
      BY <1>0, <2>1, <2>2 DEF BlocksPosted, PostedUnits
    <2>5. \A i \in DOMAIN w : w[i].id \in DOMAIN posted
      <3>1. ASSUME NEW i \in 1..Len(u) - k PROVE w[i].id \in DOMAIN posted
        <4>1. k + i \in 1..Len(u)
          BY <2>1, <2>3
        <4>2. w[i] = u[k + i]
          BY <2>1, <2>2
        <4> QED
          BY <2>3, <2>4, <4>1, <4>2
      <3> QED
        BY <2>3, <3>1
    <2>6. BlocksPosted'
      BY <1>0, <2>1, <2>2, <2>5 DEF BlocksPosted, PostedUnits
    <2>7. PostedUnits(wire)'
      <3>1. \A i \in 1..Len(wire) + k : i \in 1..Len(wire) \/ i - Len(wire) \in 1..k
        BY <2>1
      <3>2. ASSUME NEW i \in 1..Len(wire) + k PROVE wire'[i].id \in DOMAIN posted
        <4>1. CASE i \in 1..Len(wire)
          BY <1>0, <2>1, <2>3, <4>1 DEF PostedUnits
        <4>2. CASE i - Len(wire) \in 1..k
          <5>1. PICK j \in 1..k : j = i - Len(wire)
            BY <4>2
          <5>2. i = Len(wire) + j /\ j \in DOMAIN u
            BY <2>1, <2>2, <2>3, <5>1
          <5> QED
            BY <2>1, <2>2, <2>4, <5>2
        <4> QED
          BY <3>1, <4>1, <4>2
      <3> QED
        BY <2>1, <2>3, <3>2 DEF PostedUnits
    <2> QED
      BY <1>0, <1>f, <2>1, <2>6, <2>7 DEF UnitsInv, PostedUnits
  <1>3. ASSUME NEW opened \in BOOLEAN, SendCallback(opened) PROVE UnitsInv'
    <2>1. /\ 1 \in DOMAIN mSendQ /\ mSendQ[1].id \in DOMAIN posted
          /\ \A b \in DOMAIN mSendQ' :
               b + 1 \in DOMAIN mSendQ /\ mSendQ'[b] = mSendQ[b + 1]
          /\ \A i \in DOMAIN sendFile' :
               sendFile'[i].id = mSendQ[1].id /\ sendFile'[i].part = "file"
          /\ UNCHANGED <<posted, closed, wire>>
      BY <1>0, <1>3, SendCallbackOut
    <2> QED
      BY <1>0, <1>f, <2>1 DEF UnitsInv, BlocksPosted, PostedUnits
  <1>4. ASSUME SendFile PROVE UnitsInv'
    <2>1. /\ wire' \in Seq(Units) /\ wire \in Seq(Units) /\ 1 \in DOMAIN sendFile
          /\ Len(wire') = Len(wire) + 1 /\ Len(wire) \in Nat
          /\ \A i \in 1..Len(wire) : wire'[i] = wire[i]
          /\ wire'[Len(wire) + 1] = sendFile[1]
          /\ \A i \in DOMAIN sendFile' :
               i + 1 \in DOMAIN sendFile /\ sendFile'[i] = sendFile[i + 1]
          /\ UNCHANGED <<posted, mSendQ, truncated, closed>>
      BY <1>4, SendFileOut
    <2>2. DOMAIN wire = 1..Len(wire) /\ DOMAIN wire' = 1..Len(wire) + 1
      <3> HIDE DEF Units
      <3> QED
        BY <2>1
    <2>3. PostedUnits(wire)'
      <3>1. \A i \in 1..Len(wire) + 1 : i \in 1..Len(wire) \/ i = Len(wire) + 1
        BY <2>1
      <3> QED
        BY <1>0, <2>1, <2>2, <3>1 DEF PostedUnits
    <2> QED
      BY <1>0, <1>f, <2>1, <2>3 DEF UnitsInv, BlocksPosted, PostedUnits
  <1>5. ASSUME PeerClose PROVE UnitsInv'
    BY <1>0, <1>f, <1>5 DEF PeerClose, UnitsInv, BlocksPosted, PostedUnits
  <1> QED
    BY <1>1, <1>2, <1>3, <1>4, <1>5 DEF SenderStep, SendStep

LEMMA UnitsRead ==
    ASSUME BaseInv, NEW k \in 1..WireMax, RecvVec(k)
    PROVE  UnitsInv'
  <1>0. BlocksPosted /\ PostedUnits(sendFile) /\ PostedUnits(wire)
        /\ (mCurRecvBlock # Nil => PostedUnits(mCurRecvBlock.got))
    BY DEF BaseInv, UnitsInv
  <1>1. /\ k \in Nat \ {0} /\ k <= Len(wire) /\ mCurRecvBlock # Nil
        /\ mCurRecvBlock.got \in Seq(Units) /\ wire \in Seq(Units)
        /\ mCurRecvBlock'.got = mCurRecvBlock.got \o SubSeq(wire, 1, k)
        /\ wire' = SubSeq(wire, k + 1, Len(wire))
        /\ UNCHANGED <<posted, mSendQ, sendFile>>
    BY ReadOut, StreamAssumption DEF sendVars
  <1> DEFINE v == SubSeq(wire, 1, k)
  <1>2. /\ v \in Seq(Units) /\ Len(v) = k /\ \A i \in 1..k : v[i] = wire[i]
        /\ wire' \in Seq(Units) /\ Len(wire') = Len(wire) - k
        /\ \A i \in 1..Len(wire) - k : wire'[i] = wire[k + i]
    <2>1. k \in Nat /\ k <= Len(wire)
      BY <1>1
    <2>2. wire \in Seq(Units)
      BY <1>1
    <2> QED
      BY <1>1, <2>1, <2>2, CutSeq
  <1>3. mCurRecvBlock'.got = mCurRecvBlock.got \o v
    BY <1>1
  <1> HIDE DEF v
  <1>4. DOMAIN wire = 1..Len(wire) /\ DOMAIN wire' = 1..Len(wire) - k /\ Len(wire) \in Nat
    <2> HIDE DEF Units
    <2> QED
      BY <1>1, <1>2
  <1>5. PostedUnits(wire)'
    <2>1. \A i \in 1..Len(wire) - k : k + i \in 1..Len(wire)
      BY <1>1, <1>4
    <2>2. ASSUME NEW i \in 1..Len(wire) - k PROVE wire'[i].id \in DOMAIN posted
      <3>1. wire'[i] = wire[k + i] /\ k + i \in DOMAIN wire
        BY <1>2, <1>4, <2>1
      <3> QED
        BY <1>0, <3>1 DEF PostedUnits
    <2> QED
      BY <1>1, <1>4, <2>2 DEF PostedUnits
  <1>6. \A i \in DOMAIN mCurRecvBlock'.got : mCurRecvBlock'.got[i].id \in DOMAIN posted
    <2>1. PICK g : g = mCurRecvBlock.got
      OBVIOUS
    <2>2. g \in Seq(Units)
      BY <1>1, <2>1
    <2>3. v \in Seq(Units)
      BY <1>2
    <2>4. /\ g \o v \in Seq(Units) /\ Len(g \o v) = Len(g) + Len(v) /\ Len(g) \in Nat
          /\ \A i \in 1..Len(g) : (g \o v)[i] = g[i]
          /\ \A i \in 1..Len(v) : (g \o v)[Len(g) + i] = v[i]
      BY <2>2, <2>3, ConcatOf
    <2>5. DOMAIN (g \o v) = 1..Len(g) + k /\ DOMAIN g = 1..Len(g)
      <3> HIDE DEF Units
      <3> QED
        BY <1>2, <2>2, <2>4
    <2>6. ASSUME NEW i \in 1..Len(g) + k PROVE (g \o v)[i].id \in DOMAIN posted
      <3>1. CASE i \in 1..Len(g)
        BY <1>0, <1>1, <2>1, <2>4, <2>5, <3>1 DEF PostedUnits
      <3>2. CASE i - Len(g) \in 1..k
        <4>1. PICK j \in 1..k : j = i - Len(g)
          BY <3>2
        <4>2. i = Len(g) + j /\ j \in 1..Len(wire)
          BY <1>1, <1>4, <2>4, <4>1
        <4>3. (g \o v)[Len(g) + j] = v[j] /\ v[j] = wire[j]
          BY <1>2, <2>4
        <4>4. j \in DOMAIN wire /\ (g \o v)[i] = wire[j]
          BY <1>4, <4>2, <4>3
        <4> QED
          BY <1>0, <4>4 DEF PostedUnits
      <3>3. i \in 1..Len(g) \/ i - Len(g) \in 1..k
        <4>1. k \in Nat /\ Len(g) \in Nat
          BY <1>1, <2>4
        <4> QED
          BY <4>1
      <3> QED
        BY <3>1, <3>2, <3>3
    <2> QED
      BY <1>3, <2>1, <2>5, <2>6
  <1> QED
    BY <1>0, <1>1, <1>5, <1>6 DEF UnitsInv, BlocksPosted, PostedUnits

(* A callback gives the current vector up, unless it stops the model.      *)
LEMMA OutcomeBlock ==
    ASSUME Outcome
    PROVE  mCurRecvBlock' = Nil \/ Stops
  BY DEF Outcome, Stops, ToHeader, ToDrain, ToMessage, Usable, ToAttach, ToFile, Delivers,
         Attached, MoreAttach, FileStalls, PostsUnit, PostsOne

LEMMA UnitsNext ==
    ASSUME BaseInv, EventHeld, [Next]_vars
    PROVE  UnitsInv'
  <1>0. UnitsInv /\ SendTyped /\ WireTyped /\ RecvTyped /\ Fitting
    BY TypeParts DEF BaseInv, VectorsInv
  <1>1. CASE UNCHANGED <<sendVars, wire>>
             /\ (mCurRecvBlock' = Nil \/ mCurRecvBlock' = mCurRecvBlock)
    BY <1>0, <1>1 DEF UnitsInv, BlocksPosted, PostedUnits, sendVars
  <1>2. CASE TakeVec
    <2>1. /\ mCurRecvBlock' = mRecvQ[1] /\ 1 \in DOMAIN mRecvQ
          /\ UNCHANGED <<sendVars, wire>>
      BY <1>2, TakeOut
    <2>2. mCurRecvBlock'.got = <<>>
      BY <1>0, <2>1 DEF Fitting
    <2> QED
      BY <1>0, <2>1, <2>2 DEF UnitsInv, BlocksPosted, PostedUnits, sendVars
  <1>3. CASE CallbackStep
    <2>1. UNCHANGED <<sendVars, wire>>
      BY <1>3, CallbackFrame
    <2>2. mCurRecvBlock' = Nil \/ mCurRecvBlock' = mCurRecvBlock
      BY <1>3, CallbackOut, OutcomeBlock DEF Stops
    <2> QED
      BY <1>1, <2>1, <2>2
  <1>4. CASE RecvBroken
    BY <1>1, <1>4, BrokenOut
  <1>5. CASE Cleanup
    BY <1>1, <1>5, CleanupOut
  <1>6. CASE UNCHANGED vars
    BY <1>1, <1>6 DEF vars
  <1> QED
    BY <1>0, <1>2, <1>3, <1>4, <1>5, <1>6, UnitsSent, UnitsRead, StepKinds

-----------------------------------------------------------------------------
(* Part 5.  Headers and messages.                                          *)

(* What comes next on the wire, or from the queue: the message of a header *)
(* follows it, unless the sender closes first.                             *)
SentNext(u) ==
    closed \/ /\ sendFile = <<>> /\ mSendQ # <<>>
              /\ mSendQ[1].units # <<>> /\ mSendQ[1].units[1] = u
ReadNext(u) == IF wire = <<>> THEN SentNext(u) ELSE wire[1] = u

ClosedEmpty == closed => mSendQ = <<>> /\ sendFile = <<>>
QueuePaired ==
    /\ \A b \in DOMAIN mSendQ : OwnUnits(mSendQ[b].id, mSendQ[b].units)
    /\ \A i \in DOMAIN sendFile : sendFile[i].part # "header"
WirePaired ==
    \A i \in 1..Len(wire) : wire[i].part = "header" =>
        IF i = Len(wire) THEN SentNext(MessageOf(wire[i].id))
        ELSE wire[i + 1] = MessageOf(wire[i].id)
SenderPaired == ClosedEmpty /\ QueuePaired /\ WirePaired

GotUnit == mCurRecvBlock # Nil /\ mCurRecvBlock.got # <<>>
HeaderPaired ==
    ended = "open" /\ mNextRecvPart = "HEADER" /\ GotUnit /\ First.part = "header"
        => ReadNext(MessageOf(First.id))
(* The lengths in the callback's parameter are those of the message that   *)
(* comes next, or has come.                                                *)
MessagePaired ==
    ended = "open" /\ mNextRecvPart = "MESSAGE" =>
        \E h \in DOMAIN posted :
            /\ cbp.attLen = posted[h].att /\ cbp.fileLen = posted[h].file
            /\ IF GotUnit THEN First = MessageOf(h) ELSE ReadNext(MessageOf(h))
PairsInv == SenderPaired /\ HeaderPaired /\ MessagePaired

LEMMA ShapeOfWire ==
    ASSUME WireTyped
    PROVE  /\ wire \in Seq(Units) /\ Len(wire) \in Nat
           /\ wire = <<>> <=> Len(wire) = 0
  <1> HIDE DEF Units
  <1> QED
    BY DEF WireTyped

(* What was to come next still comes next.                                 *)
LEMMA NextKept ==
    ASSUME SendTyped, WireTyped, BlocksPosted, ClosedEmpty, SenderStep, NEW x, ReadNext(x)
    PROVE  ReadNext(x)'
  <1>1. ASSUME NEW m \in Shapes, PostSend(m) PROVE ReadNext(x)'
    <2>1. /\ ~closed /\ UNCHANGED <<sendFile, closed, wire>>
          /\ DOMAIN mSendQ \subseteq DOMAIN mSendQ' /\ DOMAIN mSendQ = 1..Len(mSendQ)
          /\ \A b \in DOMAIN mSendQ : mSendQ'[b] = mSendQ[b]
          /\ mSendQ # <<>> => mSendQ' # <<>>
      BY <1>1, PostSendOut
    <2>2. ASSUME mSendQ # <<>> PROVE mSendQ'[1] = mSendQ[1]
      BY <2>1, <2>2, HeadBlock
    <2> QED
      BY <2>1, <2>2 DEF ReadNext, SentNext
  <1>2. ASSUME NEW k \in 1..WireMax, SendVec(k) PROVE ReadNext(x)'
    <2>1. /\ ~closed /\ k \in Nat \ {0}
          /\ wire \in Seq(Units) /\ wire' \in Seq(Units)
          /\ Len(wire') = Len(wire) + k /\ Len(wire) \in Nat
          /\ \A i \in 1..Len(wire) : wire'[i] = wire[i]
          /\ \A i \in 1..k : wire'[Len(wire) + i] = mSendQ[1].units[i]
      BY <1>2, SendVecOut
    <2>2. wire' # <<>> /\ (wire = <<>> <=> Len(wire) = 0)
      <3> HIDE DEF Units
      <3> QED
        BY <2>1
    <2>3. CASE wire = <<>>
      <3>1. mSendQ[1].units[1] = x
        BY <2>1, <2>3 DEF ReadNext, SentNext
      <3>2. wire'[1] = mSendQ[1].units[1]
        <4>1. Len(wire) + 1 = 1 /\ 1 \in 1..k
          BY <2>1, <2>2, <2>3
        <4> QED
          BY <2>1, <4>1
      <3> QED
        BY <2>2, <3>1, <3>2 DEF ReadNext
    <2>4. CASE wire # <<>>
      <3>1. wire'[1] = wire[1]
        <4>1. 1 \in 1..Len(wire)
          BY <2>1, <2>2, <2>4
        <4> QED
          BY <2>1, <4>1
      <3> QED
        BY <2>2, <2>4, <3>1 DEF ReadNext
    <2> QED
      BY <2>3, <2>4
  <1>3. ASSUME NEW opened \in BOOLEAN, SendCallback(opened) PROVE ReadNext(x)'
    BY <1>3, SendCallbackOut DEF ReadNext, SentNext
  <1>4. ASSUME SendFile PROVE ReadNext(x)'
    <2>1. /\ ~closed /\ sendFile # <<>>
          /\ wire' \in Seq(Units) /\ wire \in Seq(Units)
          /\ Len(wire') = Len(wire) + 1 /\ Len(wire) \in Nat
          /\ \A i \in 1..Len(wire) : wire'[i] = wire[i]
      BY <1>4, SendFileOut
    <2>2. wire # <<>> /\ wire[1] = x
      BY <2>1 DEF ReadNext, SentNext
    <2>3. 1 \in 1..Len(wire) /\ wire' # <<>>
      <3> HIDE DEF Units
      <3> QED
        BY <2>1, <2>2
    <2> QED
      BY <2>1, <2>2, <2>3 DEF ReadNext
  <1>5. ASSUME PeerClose PROVE ReadNext(x)'
    BY <1>5 DEF PeerClose, ReadNext, SentNext
  <1> QED
    BY <1>1, <1>2, <1>3, <1>4, <1>5 DEF SenderStep, SendStep

LEMMA PairsSent ==
    ASSUME SendTyped, WireTyped, BlocksPosted, SenderPaired, SenderStep
    PROVE  SenderPaired'
  <1>0. ClosedEmpty /\ QueuePaired /\ WirePaired /\ ~closed
    BY SenderFrame DEF SenderPaired
  <1>1. ASSUME NEW m \in Shapes, PostSend(m) PROVE SenderPaired'
    <2>1. /\ ~closed /\ UNCHANGED <<sendFile, truncated, closed, wire>>
          /\ DOMAIN mSendQ \subseteq DOMAIN mSendQ' /\ DOMAIN mSendQ = 1..Len(mSendQ)
          /\ \A b \in DOMAIN mSendQ : mSendQ'[b] = mSendQ[b]
          /\ \A b \in DOMAIN mSendQ' \ DOMAIN mSendQ :
               /\ mSendQ'[b].id = Len(posted) + 1
               /\ OwnUnits(Len(posted) + 1, mSendQ'[b].units)
          /\ mSendQ # <<>> => mSendQ' # <<>>
      BY <1>1, PostSendOut
    <2>2. QueuePaired'
      BY <1>0, <2>1 DEF QueuePaired
    <2>3. ASSUME mSendQ # <<>> PROVE mSendQ'[1] = mSendQ[1]
      BY <2>1, <2>3, HeadBlock
    <2>4. WirePaired'
      BY <1>0, <2>1, <2>3 DEF WirePaired, SentNext
    <2> QED
      BY <1>0, <2>1, <2>2, <2>4 DEF SenderPaired, ClosedEmpty
  <1>2. ASSUME NEW k \in 1..WireMax, SendVec(k) PROVE SenderPaired'
    <2>1. /\ ~closed /\ sendFile = <<>> /\ mSendQ' # <<>>
          /\ UNCHANGED <<sendFile, closed>> /\ DOMAIN mSendQ' = DOMAIN mSendQ
          /\ k \in Nat \ {0} /\ k <= Len(mSendQ[1].units) /\ 1 \in DOMAIN mSendQ
          /\ \A b \in DOMAIN mSendQ : b # 1 => mSendQ'[b] = mSendQ[b]
          /\ mSendQ'[1].id = mSendQ[1].id
          /\ mSendQ[1].units \in Seq(Units) /\ mSendQ'[1].units \in Seq(Units)
          /\ Len(mSendQ'[1].units) = Len(mSendQ[1].units) - k
          /\ \A i \in 1..Len(mSendQ[1].units) - k :
               mSendQ'[1].units[i] = mSendQ[1].units[k + i]
          /\ wire \in Seq(Units) /\ wire' \in Seq(Units)
          /\ Len(wire') = Len(wire) + k /\ Len(wire) \in Nat
          /\ \A i \in 1..Len(wire) : wire'[i] = wire[i]
          /\ \A i \in 1..k : wire'[Len(wire) + i] = mSendQ[1].units[i]
      BY <1>2, SendVecOut
    <2>2. PICK u, w : u = mSendQ[1].units /\ w = mSendQ'[1].units
      OBVIOUS
    <2>3. /\ DOMAIN u = 1..Len(u) /\ DOMAIN w = 1..Len(u) - k /\ Len(u) \in Nat
          /\ k <= Len(u) /\ (w = <<>> <=> Len(u) = k)
      <3> HIDE DEF Units
      <3> QED
        BY <2>1, <2>2
    <2>a. k \in Nat \ {0} /\ k <= Len(u) /\ Len(u) \in Nat /\ Len(wire) \in Nat
      BY <2>1, <2>3
    <2>4. OwnUnits(mSendQ[1].id, u)
      BY <1>0, <2>1, <2>2 DEF QueuePaired
    <2>5. \A i \in 1..Len(u) - k : w[i] = u[k + i] /\ k + i \in 1..Len(u)
      BY <2>1, <2>2, <2>3
    <2>6. OwnUnits(mSendQ[1].id, w)
      <3>1. ASSUME NEW i \in 1..Len(u) - k, w[i].part = "header"
            PROVE  i + 1 \in 1..Len(u) - k /\ w[i + 1] = MessageOf(mSendQ[1].id)
        <4>1. k + i + 1 \in DOMAIN u /\ u[k + i + 1] = MessageOf(mSendQ[1].id)
          BY <2>3, <2>4, <2>5, <3>1 DEF OwnUnits
        <4>2. k + i + 1 \in 1..Len(u)
          BY <2>3, <4>1
        <4>3. i + 1 \in 1..Len(u) - k /\ k + (i + 1) = k + i + 1
          BY <2>a, <4>2
        <4> QED
          BY <2>5, <4>1, <4>3
      <3>2. ASSUME NEW i \in 1..Len(u) - k PROVE w[i].id = mSendQ[1].id
        <4>1. w[i] = u[k + i] /\ k + i \in DOMAIN u
          BY <2>3, <2>5
        <4> QED
          BY <2>4, <4>1 DEF OwnUnits
      <3> QED
        BY <2>3, <3>1, <3>2 DEF OwnUnits
    <2>7. QueuePaired'
      BY <1>0, <2>1, <2>2, <2>6 DEF QueuePaired
    <2>8. ASSUME NEW i \in 1..Len(wire), wire[i].part = "header"
          PROVE  i # Len(wire') /\ wire'[i + 1] = MessageOf(wire[i].id)
      <3>1. CASE i = Len(wire)
        <4>1. u[1] = MessageOf(wire[i].id)
          BY <1>0, <2>1, <2>2, <2>8, <3>1 DEF WirePaired, SentNext
        <4>2. 1 \in 1..k /\ i # Len(wire) + k
          BY <2>1, <3>1
        <4> QED
          BY <2>1, <2>2, <3>1, <4>1, <4>2
      <3>2. CASE i # Len(wire)
        <4>1. wire[i + 1] = MessageOf(wire[i].id)
          BY <1>0, <2>8, <3>2 DEF WirePaired
        <4>2. i + 1 \in 1..Len(wire) /\ i # Len(wire) + k
          BY <2>1, <3>2
        <4> QED
          BY <2>1, <4>1, <4>2
      <3> QED
        BY <3>1, <3>2
    <2>9. ASSUME NEW j \in 1..k, u[j].part = "header"
          PROVE  IF j = k THEN w # <<>> /\ w[1] = MessageOf(u[j].id)
                 ELSE wire'[Len(wire) + j + 1] = MessageOf(u[j].id)
      <3>1. j \in DOMAIN u
        <4>1. j \in 1..Len(u)
          BY <2>a
        <4> QED
          BY <2>3, <4>1
      <3>2. j + 1 \in DOMAIN u /\ u[j + 1] = MessageOf(u[j].id)
        BY <2>4, <2>9, <3>1 DEF OwnUnits
      <3>3. CASE j = k
        <4>0. k + 1 \in 1..Len(u)
          BY <2>3, <3>2, <3>3
        <4>1. 1 \in 1..Len(u) - k /\ Len(u) # k
          BY <2>a, <4>0
        <4>2. w # <<>>
          BY <2>3, <4>1
        <4> QED
          BY <2>5, <3>2, <3>3, <4>1, <4>2
      <3>4. CASE j # k
        <4>1. j + 1 \in 1..k /\ Len(wire) + (j + 1) = Len(wire) + j + 1
          BY <2>1, <3>4
        <4> QED
          BY <2>1, <2>2, <3>2, <3>4, <4>1
      <3> QED
        BY <3>3, <3>4
    <2>10. WirePaired'
      <3>1. ASSUME NEW i \in 1..Len(wire) + k, wire'[i].part = "header"
            PROVE  IF i = Len(wire) + k THEN w # <<>> /\ w[1] = MessageOf(wire'[i].id)
                   ELSE wire'[i + 1] = MessageOf(wire'[i].id)
        <4>1. CASE i \in 1..Len(wire)
          BY <2>1, <2>8, <3>1, <4>1
        <4>2. CASE i \notin 1..Len(wire)
          <5>1. PICK j \in 1..k : i = Len(wire) + j
            <6>1. i - Len(wire) \in 1..k /\ i = Len(wire) + (i - Len(wire))
              BY <2>1, <4>2
            <6> QED
              BY <6>1
          <5>2. wire'[i] = u[j] /\ (i = Len(wire) + k <=> j = k)
            BY <2>1, <2>2, <5>1
          <5> QED
            BY <2>9, <3>1, <5>1, <5>2
        <4> QED
          BY <4>1, <4>2
      <3>2. /\ \A x : w # <<>> /\ w[1] = x => SentNext(x)'
            /\ Len(wire') = Len(wire) + k
        BY <2>1, <2>2 DEF SentNext
      <3> QED
        BY <3>1, <3>2 DEF WirePaired
    <2> QED
      BY <1>0, <2>1, <2>7, <2>10 DEF SenderPaired, ClosedEmpty
  <1>3. ASSUME NEW opened \in BOOLEAN, SendCallback(opened) PROVE SenderPaired'
    <2>1. /\ ~closed /\ mSendQ[1].units = <<>> /\ 1 \in DOMAIN mSendQ
          /\ \A b \in DOMAIN mSendQ' :
               b + 1 \in DOMAIN mSendQ /\ mSendQ'[b] = mSendQ[b + 1]
          /\ \A i \in DOMAIN sendFile' :
               sendFile'[i].id = mSendQ[1].id /\ sendFile'[i].part = "file"
          /\ UNCHANGED <<posted, closed, wire>>
      BY <1>3, SendCallbackOut
    <2>2. QueuePaired'
      BY <1>0, <2>1 DEF QueuePaired
    <2>3. \A x : ~SentNext(x)
      BY <2>1 DEF SentNext
    <2>4. WirePaired'
      BY <1>0, <2>1, <2>3 DEF WirePaired
    <2> QED
      BY <1>0, <2>1, <2>2, <2>4 DEF SenderPaired, ClosedEmpty
  <1>4. ASSUME SendFile PROVE SenderPaired'
    <2>1. /\ ~closed /\ sendFile # <<>> /\ 1 \in DOMAIN sendFile
          /\ Len(wire') = Len(wire) + 1 /\ Len(wire) \in Nat
          /\ \A i \in 1..Len(wire) : wire'[i] = wire[i]
          /\ wire'[Len(wire) + 1] = sendFile[1]
          /\ \A i \in DOMAIN sendFile' :
               i + 1 \in DOMAIN sendFile /\ sendFile'[i] = sendFile[i + 1]
          /\ UNCHANGED <<posted, mSendQ, truncated, closed>>
      BY <1>4, SendFileOut
    <2>2. QueuePaired'
      BY <1>0, <2>1 DEF QueuePaired
    <2>3. \A x : ~SentNext(x)
      BY <2>1 DEF SentNext
    <2>4. ASSUME NEW i \in 1..Len(wire) + 1, wire'[i].part = "header"
          PROVE  i # Len(wire) + 1 /\ wire'[i + 1] = MessageOf(wire'[i].id)
      <3>1. i # Len(wire) + 1
        BY <1>0, <2>1, <2>4 DEF QueuePaired
      <3>2. i \in 1..Len(wire)
        BY <2>1, <3>1
      <3>3. i # Len(wire) /\ wire[i + 1] = MessageOf(wire[i].id)
        BY <1>0, <2>1, <2>3, <2>4, <3>2 DEF WirePaired
      <3>4. i + 1 \in 1..Len(wire)
        BY <2>1, <3>2, <3>3
      <3> QED
        BY <2>1, <3>1, <3>2, <3>3, <3>4
    <2>5. WirePaired'
      BY <2>1, <2>4 DEF WirePaired
    <2> QED
      BY <1>0, <2>1, <2>2, <2>5 DEF SenderPaired, ClosedEmpty
  <1>5. ASSUME PeerClose PROVE SenderPaired'
    <2>1. closed' /\ mSendQ' = <<>> /\ sendFile' = <<>> /\ wire' = wire
      BY <1>5 DEF PeerClose
    <2>2. \A x : SentNext(x)'
      BY <2>1 DEF SentNext
    <2> QED
      BY <1>0, <2>1, <2>2 DEF SenderPaired, ClosedEmpty, QueuePaired, WirePaired
  <1> QED
    BY <1>1, <1>2, <1>3, <1>4, <1>5 DEF SenderStep, SendStep

LEMMA PostedKept ==
    ASSUME SendTyped, SenderStep
    PROVE  \A i \in DOMAIN posted : i \in DOMAIN posted' /\ posted'[i] = posted[i]
  <1>1. CASE UNCHANGED posted
    BY <1>1
  <1>2. CASE SendStep \/ PeerClose
    BY <1>1, <1>2 DEF SendStep, SendVec, SendCallback, SendFile, PeerClose
  <1> QED
    BY <1>2, PostSendOut DEF SenderStep

(* The next unit of a header or a message is read at once: its vector has  *)
(* room for one.                                                           *)
LEMMA ReadUnit ==
    ASSUME BaseInv, NEW k \in 1..WireMax, RecvVec(k),
           mNextRecvPart \in {"HEADER", "MESSAGE"}
    PROVE  k = 1 /\ ~GotUnit /\ GotUnit' /\ First' = wire[1]
  <1>1. /\ ended = "open" /\ mCurRecvBlock \in RecvVecs /\ mCurRecvBlock # Nil
        /\ k \in Nat \ {0} /\ k <= Len(wire) /\ wire \in Seq(Units)
        /\ mCurRecvBlock.got \in Seq(Units)
        /\ k <= mCurRecvBlock.size - Len(mCurRecvBlock.got)
        /\ mCurRecvBlock'.got = mCurRecvBlock.got \o SubSeq(wire, 1, k)
        /\ mCurRecvBlock' # Nil
    BY ReadOut, StreamAssumption
  <1>2. mCurRecvBlock.size = 1
    BY <1>1 DEF BaseInv, VectorsInv, Sized
  <1>3. PICK g : g = mCurRecvBlock.got
    OBVIOUS
  <1>4. g \in Seq(Units) /\ Len(g) \in Nat
    BY <1>1, <1>3
  <1>5. k = 1 /\ Len(g) = 0
    BY <1>1, <1>2, <1>3, <1>4
  <1>6. g = <<>>
    BY <1>4, <1>5
  <1>7. /\ SubSeq(wire, 1, 1) \in Seq(Units) /\ Len(SubSeq(wire, 1, 1)) = 1
        /\ SubSeq(wire, 1, 1)[1] = wire[1]
    <2>1. 1 \in Nat /\ 1 <= Len(wire) /\ 1 \in 1..1
      BY <1>1, <1>5
    <2>2. wire \in Seq(Units)
      BY <1>1
    <2> QED
      BY <2>1, <2>2, CutSeq
  <1> HIDE DEF Units
  <1>8. PICK v : v = SubSeq(wire, 1, 1)
    OBVIOUS
  <1>9. <<>> \o v = v /\ v # <<>>
    <2>1. v \in Seq(Units) /\ Len(v) = 1
      BY <1>7, <1>8
    <2> QED
      BY <2>1
  <1>10. mCurRecvBlock'.got = v
    BY <1>1, <1>3, <1>5, <1>6, <1>8, <1>9
  <1> QED
    BY <1>1, <1>3, <1>5, <1>6, <1>7, <1>8, <1>9, <1>10 DEF GotUnit, First

LEMMA PairsRead ==
    ASSUME BaseInv, PairsInv, NEW k \in 1..WireMax, RecvVec(k)
    PROVE  PairsInv'
  <1>0. ClosedEmpty /\ QueuePaired /\ WirePaired /\ HeaderPaired /\ MessagePaired
    BY DEF PairsInv, SenderPaired
  <1>1. /\ k \in Nat \ {0} /\ k <= Len(wire) /\ ended = "open"
        /\ wire \in Seq(Units) /\ wire' = SubSeq(wire, k + 1, Len(wire))
        /\ UNCHANGED <<posted, mSendQ, sendFile, closed, mNextRecvPart, cbp, ended>>
    BY ReadOut DEF sendVars
  <1>2. /\ wire' \in Seq(Units) /\ Len(wire') = Len(wire) - k
        /\ \A i \in 1..Len(wire) - k : wire'[i] = wire[k + i]
    <2>1. k \in Nat /\ k <= Len(wire)
      BY <1>1
    <2>2. wire \in Seq(Units)
      BY <1>1
    <2> QED
      BY <1>1, <2>1, <2>2, CutSeq
  <1>3. Len(wire) \in Nat /\ (wire' = <<>> <=> Len(wire) = k) /\ wire # <<>>
    <2> HIDE DEF Units
    <2>1. Len(wire) \in Nat /\ wire # <<>>
      BY <1>1
    <2>2. PICK w : w = wire'
      OBVIOUS
    <2>3. w \in Seq(Units) /\ Len(w) = Len(wire) - k
      BY <1>2, <2>2
    <2>4. w = <<>> <=> Len(w) = 0
      BY <2>3
    <2>5. Len(w) = 0 <=> Len(wire) = k
      BY <1>1, <2>1, <2>3
    <2> QED
      BY <2>1, <2>2, <2>4, <2>5
  <1>4. \A x : SentNext(x)' <=> SentNext(x)
    BY <1>1 DEF SentNext
  <1>5. ASSUME NEW i \in 1..Len(wire) - k, wire'[i].part = "header"
        PROVE  IF i = Len(wire) - k THEN SentNext(MessageOf(wire'[i].id))
               ELSE wire'[i + 1] = MessageOf(wire'[i].id)
    <2>1. k + i \in 1..Len(wire) /\ wire'[i] = wire[k + i]
          /\ (i = Len(wire) - k <=> k + i = Len(wire))
      BY <1>1, <1>2, <1>3
    <2>2. IF k + i = Len(wire) THEN SentNext(MessageOf(wire'[i].id))
          ELSE wire[k + i + 1] = MessageOf(wire'[i].id)
      BY <1>0, <1>5, <2>1 DEF WirePaired
    <2>3. CASE i # Len(wire) - k
      <3>1. i + 1 \in 1..Len(wire) - k /\ k + (i + 1) = k + i + 1
        BY <1>1, <1>3, <2>3
      <3> QED
        BY <1>2, <2>1, <2>2, <2>3, <3>1
    <2> QED
      BY <2>1, <2>2, <2>3
  <1>6. SenderPaired'
    BY <1>0, <1>1, <1>2, <1>4, <1>5 DEF SenderPaired, ClosedEmpty, QueuePaired, WirePaired
  <1>7. HeaderPaired'
    <2> SUFFICES ASSUME mNextRecvPart = "HEADER", First'.part = "header"
                 PROVE  ReadNext(MessageOf(First.id))'
      BY <1>1 DEF HeaderPaired
    <2>1. k = 1 /\ First' = wire[1]
      BY ReadUnit
    <2>2. 1 \in 1..Len(wire)
      BY <1>1, <1>3
    <2>3. IF 1 = Len(wire) THEN SentNext(MessageOf(First'.id))
          ELSE wire[1 + 1] = MessageOf(First'.id)
      BY <1>0, <2>1, <2>2 DEF WirePaired
    <2>4. CASE Len(wire) = 1
      BY <1>3, <1>4, <2>1, <2>3, <2>4 DEF ReadNext
    <2>5. CASE Len(wire) # 1
      <3>1. 1 \in 1..Len(wire) - k /\ wire' # <<>>
        <4>1. Len(wire) \in Nat /\ k = 1 /\ Len(wire) # 1 /\ Len(wire) >= 1
          BY <1>3, <2>1, <2>2, <2>5
        <4>2. wire' # <<>>
          BY <1>3, <4>1
        <4>3. PICK n : n = Len(wire)
          OBVIOUS
        <4>4. 1 \in 1..n - 1
          BY <4>1, <4>3
        <4> QED
          BY <4>1, <4>2, <4>3, <4>4
      <3>2. wire'[1] = wire[1 + 1]
        BY <1>2, <2>1, <3>1
      <3> QED
        BY <2>3, <2>5, <3>1, <3>2 DEF ReadNext
    <2> QED
      BY <2>4, <2>5
  <1>8. MessagePaired'
    <2> SUFFICES ASSUME mNextRecvPart = "MESSAGE"
                 PROVE  \E h \in DOMAIN posted :
                          /\ cbp.attLen = posted[h].att /\ cbp.fileLen = posted[h].file
                          /\ GotUnit' /\ First' = MessageOf(h)
      BY <1>1 DEF MessagePaired
    <2>1. GotUnit' /\ ~GotUnit /\ First' = wire[1]
      BY ReadUnit
    <2>2. PICK h \in DOMAIN posted :
            /\ cbp.attLen = posted[h].att /\ cbp.fileLen = posted[h].file
            /\ ReadNext(MessageOf(h))
      BY <1>0, <1>1, <2>1 DEF MessagePaired
    <2>3. wire[1] = MessageOf(h)
      BY <1>3, <2>2 DEF ReadNext
    <2> QED
      BY <2>1, <2>2, <2>3
  <1> QED
    BY <1>6, <1>7, <1>8 DEF PairsInv

(* A header is followed by its message in the callback, too.               *)
LEMMA PairsHeader ==
    ASSUME BaseInv, PairsInv, HeaderCallback
    PROVE  PairsInv'
  <1>1. SenderPaired /\ HeaderPaired /\ ended = "open" /\ Done /\ SendTyped
    BY CallbackFrame, TypeParts DEF PairsInv, CallbackStep, BaseInv
  <1>2. /\ ToMessage /\ mNextRecvPart = "HEADER" /\ First.part = "header"
        /\ mCurRecvBlock' = Nil /\ mNextRecvPart' = "MESSAGE"
        /\ cbp' = NewHeader(posted[First.id])
    BY HeaderOut DEF ToMessage, PostsUnit
  <1>3. UNCHANGED <<sendVars, wire>>
    BY CallbackFrame DEF CallbackStep
  <1>4. mCurRecvBlock.got = <<First>> /\ First.id \in DOMAIN posted
    BY <1>1, <1>2, FirstUnit
  <1>5. mCurRecvBlock # Nil /\ <<First>> # <<>>
    BY <1>1 DEF Done
  <1>6. PICK h : h = First.id
    OBVIOUS
  <1>7. ReadNext(MessageOf(h))
    BY <1>1, <1>2, <1>4, <1>5, <1>6 DEF HeaderPaired, GotUnit
  <1>8. ReadNext(MessageOf(h))'
    BY <1>3, <1>7 DEF ReadNext, SentNext, sendVars
  <1>9. posted[h] \in Shapes /\ h \in DOMAIN posted
    BY <1>1, <1>4, <1>6, ShapeTyped
  <1>10. cbp'.attLen = posted[h].att /\ cbp'.fileLen = posted[h].file
    BY <1>2, <1>6, <1>9, NewHeaderTyped
  <1>11. MessagePaired'
    BY <1>2, <1>3, <1>8, <1>9, <1>10 DEF MessagePaired, GotUnit, sendVars
  <1>12. HeaderPaired'
    BY <1>2 DEF HeaderPaired
  <1>13. SenderPaired'
    BY <1>1, <1>3 DEF SenderPaired, ClosedEmpty, QueuePaired, WirePaired, SentNext, sendVars
  <1> QED
    BY <1>11, <1>12, <1>13 DEF PairsInv

LEMMA PairsOut ==
    ASSUME BaseInv, PairsInv, Outcome, UNCHANGED <<sendVars, wire>>, ~ToMessage
    PROVE  PairsInv'
  <1>1. SenderPaired'
    BY DEF PairsInv, SenderPaired, ClosedEmpty, QueuePaired, WirePaired, SentNext, sendVars
  <1>2. \/ ended' # "open"
        \/ mCurRecvBlock' = Nil /\ mNextRecvPart' # "MESSAGE"
    <2>1. CASE Stops
      BY <2>1 DEF Stops
    <2>2. CASE ToHeader \/ ToDrain
      BY <2>2 DEF ToHeader, ToDrain, PostsUnit, PostsOne
    <2>3. CASE mNextRecvPart = "MESSAGE" /\ Usable(First.id)
      BY <2>3 DEF Usable, ToAttach, ToFile, Delivers, ToHeader, PostsUnit, PostsOne
    <2>4. CASE mNextRecvPart = "ATTACHMENT" /\ Attached
      BY <2>4 DEF Attached, MoreAttach, ToFile, Delivers, ToHeader, PostsUnit, PostsOne
    <2>5. CASE mNextRecvPart = "ATTACHFILE" /\ FileStalls
      BY <2>5 DEF FileStalls
    <2> QED
      BY <2>1, <2>2, <2>3, <2>4, <2>5 DEF Outcome
  <1> QED
    BY <1>1, <1>2 DEF PairsInv, HeaderPaired, MessagePaired, GotUnit

LEMMA PairsNext ==
    ASSUME BaseInv, PairsInv, EventHeld, [Next]_vars
    PROVE  PairsInv'
  <1>0. /\ SenderPaired /\ HeaderPaired /\ MessagePaired /\ ClosedEmpty
        /\ SendTyped /\ WireTyped /\ BlocksPosted
    BY TypeParts DEF BaseInv, PairsInv, UnitsInv, SenderPaired
  <1>1. CASE SenderStep
    <2>1. SenderPaired'
      BY <1>0, <1>1, PairsSent
    <2>2. /\ UNCHANGED <<mCurRecvBlock, mNextRecvPart, cbp, ended>>
          /\ First' = First /\ GotUnit' = GotUnit
      BY <1>1, SenderFrame DEF recvVars, First, GotUnit
    <2>3. HeaderPaired'
      <3>1. ASSUME ReadNext(MessageOf(First.id)) PROVE ReadNext(MessageOf(First.id))'
        <4>1. PICK x : x = MessageOf(First.id)
          OBVIOUS
        <4>2. ReadNext(x)'
          BY <1>0, <1>1, <3>1, <4>1, NextKept
        <4> QED
          BY <2>2, <4>1, <4>2
      <3> QED
        BY <1>0, <2>2, <3>1 DEF HeaderPaired
    <2>4. MessagePaired'
      <3> SUFFICES ASSUME ended = "open", mNextRecvPart = "MESSAGE"
                   PROVE  MessagePaired'
        BY <2>2 DEF MessagePaired
      <3>1. PICK h \in DOMAIN posted :
              /\ cbp.attLen = posted[h].att /\ cbp.fileLen = posted[h].file
              /\ IF GotUnit THEN First = MessageOf(h) ELSE ReadNext(MessageOf(h))
        BY <1>0 DEF MessagePaired
      <3>2. h \in DOMAIN posted' /\ posted'[h] = posted[h]
        BY <1>0, <1>1, PostedKept
      <3>3. ~GotUnit => ReadNext(MessageOf(h))'
        BY <1>0, <1>1, <3>1, NextKept
      <3> QED
        BY <2>2, <3>1, <3>2, <3>3 DEF MessagePaired
    <2> QED
      BY <2>1, <2>3, <2>4 DEF PairsInv
  <1>2. CASE UNCHANGED <<sendVars, wire>>
             /\ \/ ended' # "open"
                \/ /\ ~GotUnit /\ ~GotUnit' /\ ended = "open"
                   /\ UNCHANGED <<mNextRecvPart, cbp>>
    BY <1>0, <1>2 DEF PairsInv, SenderPaired, ClosedEmpty, QueuePaired, WirePaired,
                      HeaderPaired, MessagePaired, ReadNext, SentNext, sendVars
  <1>3. CASE TakeVec
    <2>1. /\ mCurRecvBlock = Nil /\ mCurRecvBlock' = mRecvQ[1] /\ 1 \in DOMAIN mRecvQ
          /\ UNCHANGED <<sendVars, wire, mNextRecvPart, cbp>> /\ ended = "open"
      BY <1>3, TakeOut
    <2>2. mCurRecvBlock'.got = <<>>
      BY <2>1 DEF BaseInv, VectorsInv, Fitting
    <2> QED
      BY <1>2, <2>1, <2>2 DEF GotUnit
  <1>4. CASE HeaderCallback
    BY <1>4, PairsHeader
  <1>5. CASE CallbackStep /\ ~HeaderCallback
    <2>1. Outcome /\ UNCHANGED <<sendVars, wire>>
      BY <1>5, CallbackOut, CallbackFrame
    <2>2. CASE ToMessage
      <3>1. ended = "open" /\ Done /\ mNextRecvPart = "HEADER" /\ First.part = "header"
            /\ mNextRecvPart' = "MESSAGE" /\ ended' = "open"
        BY <1>5, <2>2, CallbackFrame DEF ToMessage
      <3>2. CASE MisreadHeader \/ HeaderAssert
        BY <3>1, <3>2 DEF MisreadHeader, HeaderAssert
      <3>3. CASE AlienHeader
        BY <3>1, <3>3, AlienOut DEF ToHeader, ToDrain
      <3> QED
        BY <1>5, <3>1, <3>2, <3>3 DEF CallbackStep, MessageStep, MessageUnusable, RecvReqMsg,
           RecvRspMsg, RecvAttach, RecvFile, RecvDrain, Callback
    <2> QED
      BY <2>1, <2>2, PairsOut
  <1>6. CASE RecvBroken
    BY <1>2, <1>6, BrokenOut
  <1>7. CASE Cleanup
    BY <1>2, <1>7, CleanupOut
  <1>8. CASE UNCHANGED vars
    BY <1>0, <1>8 DEF PairsInv, SenderPaired, ClosedEmpty, QueuePaired, WirePaired,
       HeaderPaired, MessagePaired, ReadNext, SentNext, GotUnit, First, vars, sendVars
  <1> QED
    BY <1>1, <1>3, <1>4, <1>5, <1>6, <1>7, <1>8, PairsRead, StepKinds

-----------------------------------------------------------------------------
(* Part 6.  The event in the callback's parameter.                         *)

(* There is one exactly while attachments or a file are being received,    *)
(* and the lengths in the parameter are those of its message.              *)
AnnouncedInv ==
    /\ cbp.cev # Nil <=> ended = "open" /\ mNextRecvPart \in AttachParts
    /\ cbp.cev # Nil =>
         /\ cbp.cev \in DOMAIN posted
         /\ cbp.attLen = posted[cbp.cev].att /\ cbp.fileLen = posted[cbp.cev].file
         /\ mNextRecvPart = "ATTACHFILE" => cbp.fileLen > 0

LEMMA MessageLens ==
    ASSUME BaseInv, MessagePaired, ended = "open", Done, mNextRecvPart = "MESSAGE"
    PROVE  /\ First.id \in DOMAIN posted /\ First.id \in Ids
           /\ First = MessageOf(First.id)
           /\ cbp.attLen = posted[First.id].att /\ cbp.fileLen = posted[First.id].file
  <1>1. mCurRecvBlock.got = <<First>> /\ First.id \in Ids
    BY FirstUnit
  <1>2. <<First>> # <<>> /\ mCurRecvBlock # Nil
    BY DEF Done
  <1>3. PICK h \in DOMAIN posted :
          /\ cbp.attLen = posted[h].att /\ cbp.fileLen = posted[h].file
          /\ First = MessageOf(h)
    BY <1>1, <1>2 DEF MessagePaired, GotUnit
  <1>4. First.id = h
    BY <1>3 DEF MessageOf
  <1> QED
    BY <1>1, <1>3, <1>4

LEMMA NewEvent ==
    ASSUME BaseInv, MessagePaired, ended = "open", Done, mNextRecvPart = "MESSAGE",
           posted' = posted, ToAttach \/ ToFile(First.id)
    PROVE  AnnouncedInv' /\ cbp'.cev = First.id
  <1>1. /\ First.id \in DOMAIN posted /\ First.id \in Ids
        /\ cbp.attLen = posted[First.id].att /\ cbp.fileLen = posted[First.id].file
    BY MessageLens
  <1>2. cbp \in CbpType
    BY TypeParts, MoreTyped DEF BaseInv
  <1>3. PICK id, left : /\ id = First.id
                        /\ cbp' = [cbp EXCEPT !.cev = id, !.remainVecs = left]
    BY DEF ToAttach, ToFile
  <1>4. cbp'.cev = id /\ cbp'.attLen = cbp.attLen /\ cbp'.fileLen = cbp.fileLen
    BY <1>2, <1>3 DEF CbpType
  <1>5. /\ ended' = "open" /\ mNextRecvPart' \in AttachParts
        /\ mNextRecvPart' = "ATTACHFILE" => cbp.fileLen > 0
    BY DEF ToAttach, ToFile, AttachParts
  <1>6. id # Nil
    BY <1>1, <1>3, StreamAssumption DEF Ids
  <1> QED
    BY <1>1, <1>3, <1>4, <1>5, <1>6 DEF AnnouncedInv

LEMMA AnnouncedOut ==
    ASSUME BaseInv, MessagePaired, AnnouncedInv, ended = "open", Done, Outcome,
           posted' = posted
    PROVE  AnnouncedInv'
  <1>0. cbp \in CbpType
    BY TypeParts, MoreTyped DEF BaseInv
  <1>1. CASE Stops
    BY <1>1 DEF Stops, AnnouncedInv, AttachParts
  <1>2. CASE ToHeader
    BY <1>2 DEF ToHeader, AnnouncedInv, AttachParts
  <1>3. CASE ToDrain
    BY <1>3 DEF ToDrain, AnnouncedInv, AttachParts, OneVecParts
  <1>4. CASE ToMessage
    <2>1. cbp' = NewHeader(posted[First.id]) /\ mNextRecvPart' = "MESSAGE"
      BY <1>4 DEF ToMessage
    <2>2. cbp'.cev = Nil
      BY <2>1 DEF NewHeader, NewCbp
    <2> QED
      BY <2>1, <2>2 DEF AnnouncedInv, AttachParts
  <1>5. CASE mNextRecvPart = "MESSAGE" /\ Usable(First.id)
    BY <1>2, <1>5, NewEvent DEF Usable, Delivers
  <1>6. ASSUME mNextRecvPart \in AttachParts,
               ended' = "open", mNextRecvPart' \in AttachParts,
               mNextRecvPart' = "ATTACHFILE" =>
                   (mNextRecvPart = "ATTACHFILE" \/ cbp.fileLen > 0),
               NEW left, cbp' = [cbp EXCEPT !.remainVecs = left]
        PROVE  AnnouncedInv'
    <2>1. cbp'.cev = cbp.cev /\ cbp'.attLen = cbp.attLen /\ cbp'.fileLen = cbp.fileLen
      BY <1>0, <1>6 DEF CbpType
    <2> QED
      BY <1>6, <2>1 DEF AnnouncedInv
  <1>7. CASE mNextRecvPart = "ATTACHMENT" /\ Attached
    <2>1. CASE MoreAttach
      <3>1. cbp' = [cbp EXCEPT !.remainVecs = cbp.remainVecs - 1]
        BY <2>1 DEF MoreAttach
      <3> QED
        BY <1>6, <1>7, <2>1, <3>1 DEF MoreAttach, AttachParts
    <2>2. CASE ToFile(cbp.cev)
      <3>1. cbp' = [cbp EXCEPT !.cev = cbp.cev, !.remainVecs = BlockCount(cbp.fileLen)]
        BY <2>2 DEF ToFile
      <3>2. cbp' = [cbp EXCEPT !.remainVecs = BlockCount(cbp.fileLen)]
        BY <1>0, <3>1 DEF CbpType
      <3> QED
        BY <1>6, <1>7, <2>2, <3>2 DEF ToFile, AttachParts
    <2> QED
      BY <1>2, <1>7, <2>1, <2>2 DEF Attached, Delivers
  <1>8. CASE mNextRecvPart = "ATTACHFILE" /\ FileStalls
    <2>1. PICK left \in Nat : cbp' = [cbp EXCEPT !.remainVecs = left]
      BY <1>8 DEF FileStalls
    <2> QED
      BY <1>6, <1>8, <2>1 DEF FileStalls, AttachParts
  <1> QED
    BY <1>1, <1>2, <1>3, <1>4, <1>5, <1>7, <1>8 DEF Outcome

LEMMA AnnouncedNext ==
    ASSUME BaseInv, PairsInv, AnnouncedInv, [Next]_vars
    PROVE  AnnouncedInv'
  <1>0. SendTyped /\ MessagePaired
    BY TypeParts DEF BaseInv, PairsInv
  <1>1. CASE UNCHANGED <<cbp, mNextRecvPart, ended>>
             /\ \A i \in DOMAIN posted : i \in DOMAIN posted' /\ posted'[i] = posted[i]
    BY <1>1 DEF AnnouncedInv
  <1>2. CASE SenderStep
    BY <1>0, <1>1, <1>2, SenderFrame, PostedKept DEF recvVars
  <1>3. CASE TakeVec \/ (\E k \in 1..WireMax : RecvVec(k)) \/ UNCHANGED vars
    BY <1>1, <1>3 DEF TakeVec, RecvVec, vars, sendVars
  <1>4. CASE CallbackStep
    <2>1. Outcome
      BY <1>4, CallbackFrame, CallbackOut DEF AnnouncedInv, EventHeld
    <2>2. ended = "open" /\ Done /\ posted' = posted
      BY <1>4, CallbackFrame DEF sendVars
    <2> QED
      BY <1>0, <2>1, <2>2, AnnouncedOut
  <1>5. CASE RecvBroken
    BY <1>5, BrokenOut DEF AnnouncedInv
  <1>6. CASE Cleanup
    BY <1>6, CleanupOut DEF AnnouncedInv
  <1> QED
    BY <1>2, <1>3, <1>4, <1>5, <1>6, StepKinds

-----------------------------------------------------------------------------
(* Part 7.  The client's requests.                                         *)

(* A request waits in the map, or in the callback's parameter while its    *)
(* response is being received, or it is settled; or its response announced *)
(* a file, and the receive path stopped before it was complete.            *)
Waiting == mSendEventMap \cup FailedRequest
SettledInv ==
    /\ \A r \in Waiting : reply[r] = "none"
    /\ mSendEventMap \cap FailedRequest = {}
    /\ \A r \in Ids :
         /\ reply[r] # "twice"
         /\ reply[r] = "none" => r \in Waiting \/ (r \in DOMAIN posted /\ posted[r].file > 0)
    /\ ended = "cleaned" => mSendEventMap = {}

(* Settling requests that wait, and letting no other go.                   *)
LEMMA Settle ==
    ASSUME RecvTyped, SettledInv, NEW S \in SUBSET Waiting,
           NEW how \in {"answer", "failure"}, CompleteAll(S, how),
           Waiting' \subseteq Waiting \ S,
           mSendEventMap' \subseteq mSendEventMap, (mSendEventMap \cap FailedRequest)' = {},
           \A r \in Waiting \ S :
               r \in Waiting' \/ (r \in DOMAIN posted /\ posted[r].file > 0),
           posted' = posted, ended' = "cleaned" => mSendEventMap' = {}
    PROVE  SettledInv'
  <1>1. reply' = [r \in Ids |-> IF r \notin S THEN reply[r]
                                ELSE IF reply[r] = "none" THEN how ELSE "twice"]
    BY DEF CompleteAll
  <1>2. \A r \in S : reply[r] = "none"
    BY DEF SettledInv
  <1>3. \A r \in Ids : reply'[r] = IF r \notin S THEN reply[r] ELSE how
    BY <1>1, <1>2
  <1>4. ASSUME NEW r \in Waiting' PROVE reply'[r] = "none"
    <2>1. r \in Waiting \ S
      BY <1>4
    <2>2. reply[r] = "none"
      BY <2>1 DEF SettledInv
    <2>3. r \in Ids
      <3>1. CASE r \in mSendEventMap
        BY <3>1 DEF RecvTyped
      <3>2. CASE r \in FailedRequest
        <4>1. cbp.cev # Nil /\ r = cbp.cev
          BY <3>2 DEF FailedRequest
        <4> QED
          BY <4>1, MoreTyped
      <3> QED
        BY <2>1, <3>1, <3>2 DEF Waiting
    <2> QED
      BY <1>3, <2>1, <2>2, <2>3
  <1>5. ASSUME NEW r \in Ids
        PROVE  /\ reply'[r] # "twice"
               /\ reply'[r] = "none" =>
                    r \in Waiting' \/ (r \in DOMAIN posted /\ posted[r].file > 0)
    <2>1. CASE r \in S
      BY <1>3, <2>1
    <2>2. CASE r \notin S
      <3>1. reply'[r] = reply[r]
        BY <1>3, <2>2
      <3> QED
        BY <2>2, <3>1 DEF SettledInv
    <2> QED
      BY <2>1, <2>2
  <1>6. (mSendEventMap \cap FailedRequest = {})'
    OBVIOUS
  <1> QED
    BY <1>4, <1>5, <1>6 DEF SettledInv

LEMMA SettleNone ==
    ASSUME RecvTyped, SettledInv, reply' = reply, mSendEventMap' = mSendEventMap,
           FailedRequest' = FailedRequest, posted' = posted, ended' # "cleaned"
    PROVE  SettledInv'
  BY DEF SettledInv, Waiting

LEMMA NoneSettled ==
    ASSUME RecvTyped, reply' = reply
    PROVE  CompleteAll({}, "answer")
  <1>1. reply \in Replies
    BY MoreTyped
  <1> QED
    BY <1>1 DEF CompleteAll, Replies

(* No event in the parameter before and after: nothing is given up.        *)
LEMMA NoEvent ==
    /\ cbp.cev = Nil => FailedRequest = {}
    /\ cbp'.cev = Nil => FailedRequest' = {}
  BY DEF FailedRequest

LEMMA SettledReq ==
    ASSUME BaseInv, PairsInv, AnnouncedInv, SettledInv, RecvReqMsg
    PROVE  SettledInv'
  <1>1. RecvTyped /\ MessagePaired
    BY TypeParts DEF BaseInv, PairsInv
  <1>2. /\ ended = "open" /\ Done /\ mNextRecvPart = "MESSAGE" /\ posted' = posted
        /\ posted[First.id].kind = "request" /\ mSendEventMap' = mSendEventMap
        /\ ended' = ended
    BY DEF RecvReqMsg, Callback, NothingSent, sendVars
  <1>3. Usable(First.id)
    BY ReqOut
  <1>4. cbp.cev = Nil /\ FailedRequest = {}
    BY <1>2, NoEvent DEF AnnouncedInv, AttachParts
  <1>5. CASE ToAttach \/ ToFile(First.id)
    <2>1. cbp'.cev = First.id
      BY <1>1, <1>2, <1>5, NewEvent
    <2>2. FailedRequest' = {}
      BY <1>2, <2>1 DEF FailedRequest
    <2>3. reply' = reply
      BY <1>3, <1>5, <1>2 DEF Usable, Delivers, ToAttach, ToFile, ToHeader
    <2> QED
      BY <1>1, <1>2, <1>4, <2>2, <2>3, SettleNone
  <1>6. CASE Delivers(First.id, <<>>)
    <2>1. cbp'.cev = Nil
      BY <1>6 DEF Delivers, ToHeader
    <2>2. CompleteAll({}, "answer")
      BY <1>2, <1>6 DEF Delivers
    <2>3. reply' = reply
      <3>1. reply \in Replies
        BY <1>1, MoreTyped
      <3> QED
        BY <2>2, <3>1 DEF CompleteAll, Replies
    <2> QED
      BY <1>1, <1>2, <1>4, <2>1, <2>3, NoEvent, SettleNone
  <1> QED
    BY <1>3, <1>5, <1>6 DEF Usable

LEMMA SettledRsp ==
    ASSUME BaseInv, PairsInv, AnnouncedInv, SettledInv, RecvRspMsg
    PROVE  SettledInv'
  <1>1. RecvTyped /\ MessagePaired
    BY TypeParts DEF BaseInv, PairsInv
  <1>2. /\ ended = "open" /\ Done /\ mNextRecvPart = "MESSAGE" /\ posted' = posted
        /\ posted[First.id].kind = "response" /\ First.id \in mSendEventMap
        /\ mSendEventMap' = mSendEventMap \ {First.id} /\ ended' = ended
    BY DEF RecvRspMsg, Callback, NothingSent, sendVars
  <1>3. Usable(First.id)
    BY RspOut
  <1>4. cbp.cev = Nil /\ FailedRequest = {}
    BY <1>2, NoEvent DEF AnnouncedInv, AttachParts
  <1>5. PICK id : id = First.id
    OBVIOUS
  <1>6. id \in Ids /\ id # Nil
    <2>1. id \in Ids
      BY <1>1, <1>2, <1>5 DEF RecvTyped
    <2> QED
      BY <2>1, StreamAssumption DEF Ids
  <1>7. CASE ToAttach \/ ToFile(First.id)
    <2>1. cbp'.cev = id
      BY <1>1, <1>2, <1>5, <1>7, NewEvent
    <2>2. FailedRequest' = {id}
      BY <1>2, <1>5, <1>6, <2>1 DEF FailedRequest
    <2>3. reply' = reply
      BY <1>2, <1>3, <1>7 DEF Usable, Delivers, ToAttach, ToFile, ToHeader
    <2>4. CompleteAll({}, "answer")
      BY <1>1, <2>3, NoneSettled
    <2>5. Waiting' = Waiting /\ (mSendEventMap \cap FailedRequest)' = {}
          /\ mSendEventMap' \subseteq mSendEventMap
      BY <1>2, <1>4, <1>5, <2>2 DEF Waiting
    <2> QED
      BY <1>1, <1>2, <2>4, <2>5, Settle
  <1>8. CASE Delivers(First.id, <<>>)
    <2>1. cbp'.cev = Nil /\ FailedRequest' = {}
      BY <1>8, NoEvent DEF Delivers, ToHeader
    <2>2. CompleteAll({id}, "answer")
      BY <1>2, <1>5, <1>8 DEF Delivers
    <2>3. Waiting' = Waiting \ {id} /\ (mSendEventMap \cap FailedRequest)' = {}
          /\ mSendEventMap' \subseteq mSendEventMap /\ {id} \in SUBSET Waiting
      BY <1>2, <1>4, <1>5, <2>1 DEF Waiting
    <2> QED
      BY <1>1, <1>2, <2>2, <2>3, Settle
  <1> QED
    BY <1>3, <1>7, <1>8 DEF Usable

(* The event in the parameter is kept, or completed.                       *)
LEMMA SettledEvent ==
    ASSUME RecvTyped, SettledInv, posted' = posted, mSendEventMap' = mSendEventMap,
           ended' # "cleaned",
           \/ cbp'.cev = cbp.cev /\ reply' = reply
           \/ cbp'.cev = Nil /\ \E how \in {"answer", "failure"} :
                                   CompleteAll(FailedRequest, how)
    PROVE  SettledInv'
  <1>1. CASE cbp'.cev = cbp.cev /\ reply' = reply
    <2>1. FailedRequest' = FailedRequest
      BY <1>1 DEF FailedRequest
    <2> QED
      BY <1>1, <2>1, SettleNone
  <1>2. ASSUME cbp'.cev = Nil, NEW how \in {"answer", "failure"},
               CompleteAll(FailedRequest, how)
        PROVE  SettledInv'
    <2>1. FailedRequest' = {}
      BY <1>2, NoEvent
    <2>2. mSendEventMap \cap FailedRequest = {}
      BY DEF SettledInv
    <2>3. Waiting' = Waiting \ FailedRequest /\ (mSendEventMap \cap FailedRequest)' = {}
          /\ mSendEventMap' \subseteq mSendEventMap /\ FailedRequest \in SUBSET Waiting
      BY <2>1, <2>2 DEF Waiting
    <2> QED
      BY <1>2, <2>3, Settle
  <1> QED
    BY <1>1, <1>2

LEMMA SettledDelivers ==
    ASSUME BaseInv, SettledInv, posted' = posted, mSendEventMap' = mSendEventMap,
           cbp.cev # Nil, NEW content, Delivers(cbp.cev, content)
    PROVE  SettledInv'
  <1>1. FailedRequest = IF posted[cbp.cev].kind = "response" THEN {cbp.cev} ELSE {}
    BY DEF FailedRequest
  <1>2. CompleteAll(FailedRequest, "answer") /\ cbp'.cev = Nil /\ ended' = "open"
    BY <1>1 DEF Delivers, ToHeader
  <1>3. RecvTyped
    BY TypeParts DEF BaseInv
  <1> QED
    BY <1>2, <1>3, SettledEvent

LEMMA SettledAttach ==
    ASSUME BaseInv, AnnouncedInv, SettledInv,
           RecvAttach \/ \E written \in BOOLEAN : RecvFile(written)
    PROVE  SettledInv'
  <1>1. RecvTyped /\ cbp \in CbpType
    BY TypeParts, MoreTyped DEF BaseInv
  <1>2. /\ ended = "open" /\ posted' = posted /\ mSendEventMap' = mSendEventMap
        /\ mNextRecvPart \in AttachParts /\ ended' = ended
    BY DEF RecvAttach, RecvFile, Callback, NothingSent, sendVars, AttachParts
  <1>3. cbp.cev # Nil
    BY <1>2 DEF AnnouncedInv
  <1>4. \/ cbp'.cev = cbp.cev /\ reply' = reply
        \/ \E content : Delivers(cbp.cev, content)
    <2>1. CASE RecvAttach
      <3>1. Attached
        BY <1>3, <2>1, AttachOut
      <3>2. CASE MoreAttach /\ UNCHANGED <<reply, handed>>
        <4>1. cbp' = [cbp EXCEPT !.remainVecs = cbp.remainVecs - 1]
          BY <3>2 DEF MoreAttach
        <4> QED
          BY <1>1, <3>2, <4>1 DEF CbpType
      <3>3. CASE ToFile(cbp.cev) /\ UNCHANGED <<reply, handed>>
        BY <1>1, <3>3 DEF ToFile, CbpType
      <3> QED
        BY <3>1, <3>2, <3>3 DEF Attached
    <2>2. ASSUME NEW written \in BOOLEAN, RecvFile(written)
          PROVE  \/ cbp'.cev = cbp.cev /\ reply' = reply
                 \/ \E content : Delivers(cbp.cev, content)
      <3>1. Filed
        BY <1>3, <2>2, FileOut
      <3>2. CASE FileStalls /\ UNCHANGED <<reply, handed>>
        <4>1. PICK left : cbp' = [cbp EXCEPT !.remainVecs = left]
          BY <3>2 DEF FileStalls
        <4> QED
          BY <1>1, <3>2, <4>1 DEF CbpType
      <3> QED
        BY <3>1, <3>2 DEF Filed
    <2> QED
      BY <2>1, <2>2
  <1> QED
    BY <1>1, <1>2, <1>3, <1>4, SettledEvent, SettledDelivers

(* The cleanup completes every request that waits, but for one whose       *)
(* response's file lost its vector.                                        *)
LEMMA SettledCleanup ==
    ASSUME BaseInv, AnnouncedInv, SettledInv, Cleanup
    PROVE  SettledInv'
  <1>1. RecvTyped /\ posted' = posted
    BY TypeParts, CleanupOut DEF BaseInv, sendVars
  <1>2. /\ CompleteAll(GivenUp \cup mSendEventMap, "failure") /\ mSendEventMap' = {}
        /\ cbp'.cev = Nil
    BY CleanupOut
  <1>3. FailedRequest' = {}
    BY <1>2, NoEvent
  <1>4. GivenUp \cup mSendEventMap \in SUBSET Waiting
    BY DEF GivenUp, Waiting
  <1>5. Waiting' = {} /\ (mSendEventMap \cap FailedRequest)' = {}
        /\ mSendEventMap' \subseteq mSendEventMap
    BY <1>2, <1>3 DEF Waiting
  <1>6. ASSUME NEW r \in Waiting \ (GivenUp \cup mSendEventMap)
        PROVE  r \in DOMAIN posted /\ posted[r].file > 0
    <2>1. r \in FailedRequest \ GivenUp
      BY DEF Waiting
    <2>2. mRecvQ = <<>> /\ mCurRecvBlock = Nil /\ cbp.cev # Nil /\ r = cbp.cev
      BY <2>1 DEF GivenUp, FailedRequest
    <2>3. VecCount = 0
      BY <2>2 DEF VecCount
    <2>4. ended = "open" /\ mNextRecvPart \in AttachParts
      BY <2>2 DEF AnnouncedInv
    <2>5. mNextRecvPart # "ATTACHMENT"
      <3>1. mNextRecvPart = "ATTACHMENT" => cbp.remainVecs = 0 /\ cbp.remainVecs > 0
        BY <2>3, <2>4 DEF BaseInv, VectorsInv, Counted
      <3>2. cbp.remainVecs \in Nat
        BY <1>1, MoreTyped
      <3> QED
        BY <3>1, <3>2
    <2> QED
      BY <2>2, <2>4, <2>5 DEF AnnouncedInv, AttachParts
  <1> QED
    BY <1>1, <1>2, <1>4, <1>5, <1>6, Settle

LEMMA SettledNext ==
    ASSUME BaseInv, PairsInv, AnnouncedInv, SettledInv, [Next]_vars
    PROVE  SettledInv'
  <1>0. SendTyped /\ RecvTyped
    BY TypeParts DEF BaseInv
  <1>1. CASE SenderStep
    <2>1. UNCHANGED <<cbp, ended, mSendEventMap, reply>>
      BY <1>1, SenderFrame DEF recvVars, eventVars
    <2>2. \A i \in DOMAIN posted : i \in DOMAIN posted' /\ posted'[i] = posted[i]
      BY <1>0, <1>1, PostedKept
    <2>3. FailedRequest' = FailedRequest
      BY <2>1, <2>2 DEF FailedRequest, AnnouncedInv
    <2> QED
      BY <2>1, <2>2, <2>3 DEF SettledInv, Waiting
  <1>2. CASE TakeVec \/ (\E k \in 1..WireMax : RecvVec(k)) \/ UNCHANGED vars
    <2>1. UNCHANGED <<posted, cbp, ended, mSendEventMap, reply>>
      BY <1>2 DEF TakeVec, RecvVec, vars, sendVars, eventVars
    <2> QED
      BY <2>1 DEF SettledInv, Waiting, FailedRequest
  <1>3. ASSUME posted' = posted, UNCHANGED eventVars, cbp.cev = Nil, cbp'.cev = Nil,
               ended' # "cleaned"
        PROVE  SettledInv'
    BY <1>0, <1>3, SettledEvent DEF eventVars
  <1>4. CASE CallbackStep
    <2>0. ended = "open" /\ posted' = posted
      BY <1>4, CallbackFrame DEF sendVars
    <2>1. CASE MisreadHeader \/ HeaderAssert
      <3>1. Stops
        BY <2>1, StopOut
      <3>2. cbp.cev = Nil /\ UNCHANGED <<cbp, eventVars>> /\ ended' # "cleaned"
        BY <3>1 DEF Stops, AnnouncedInv, AttachParts
      <3> QED
        BY <1>3, <2>0, <3>2
    <2>2. CASE AlienHeader \/ MessageUnusable
      <3>1. mNextRecvPart \in OneVecParts
        BY <2>2 DEF AlienHeader, MessageUnusable, Callback, OneVecParts
      <3>2. cbp.cev = Nil
        BY <3>1 DEF AnnouncedInv, AttachParts, OneVecParts
      <3>3. (ToHeader \/ ToDrain) /\ UNCHANGED eventVars
        BY <2>2, AlienOut, UnusableOut
      <3>4. cbp'.cev = Nil /\ ended' = "open"
        BY <3>2, <3>3 DEF ToHeader, ToDrain
      <3> QED
        BY <1>3, <2>0, <3>2, <3>3, <3>4
    <2>3. CASE HeaderCallback
      <3>1. ToMessage /\ UNCHANGED eventVars
        BY <2>3, HeaderOut
      <3>2. cbp' = NewHeader(posted[First.id]) /\ mNextRecvPart = "HEADER" /\ ended' = "open"
        BY <3>1 DEF ToMessage
      <3>3. cbp'.cev = Nil
        BY <3>2 DEF NewHeader, NewCbp
      <3>4. cbp.cev = Nil
        BY <3>2 DEF AnnouncedInv, AttachParts
      <3> QED
        BY <1>3, <2>0, <3>1, <3>2, <3>3, <3>4
    <2>4. CASE RecvDrain
      <3>1. cbp.cev = Nil
        BY <2>4 DEF RecvDrain, Callback, AnnouncedInv, AttachParts
      <3>2. /\ mSendEventMap' = mSendEventMap /\ handed' = handed
            /\ \/ ToHeader /\ CompleteAll(FailedRequest, "failure")
               \/ ToDrain /\ reply' = reply
        BY <2>4, DrainOut
      <3>3. CASE ToHeader /\ CompleteAll(FailedRequest, "failure")
        <4>1. cbp'.cev = Nil /\ ended' # "cleaned"
          BY <3>3 DEF ToHeader
        <4> QED
          BY <1>0, <2>0, <3>2, <3>3, <4>1, SettledEvent
      <3>4. CASE ToDrain /\ reply' = reply
        <4>1. cbp'.cev = Nil /\ ended' # "cleaned"
          BY <3>1, <3>4 DEF ToDrain
        <4> QED
          BY <1>0, <2>0, <3>1, <3>2, <3>4, <4>1, SettledEvent
      <3> QED
        BY <3>2, <3>3, <3>4
    <2> QED
      BY <1>4, <2>1, <2>2, <2>3, <2>4, SettledReq, SettledRsp, SettledAttach
         DEF CallbackStep, MessageStep
  <1>5. CASE RecvBroken
    <2>1. /\ cbp'.cev = Nil /\ CompleteAll(FailedRequest, "failure")
          /\ mSendEventMap' = mSendEventMap /\ posted' = posted /\ ended' # "cleaned"
      BY <1>5, BrokenOut DEF sendVars
    <2> QED
      BY <1>0, <2>1, SettledEvent
  <1> QED
    BY <1>1, <1>2, <1>4, <1>5, SettledCleanup, StepKinds

-----------------------------------------------------------------------------
(* Part 8.  The invariant, and the first theorems.                         *)
StreamInv == BaseInv /\ PairsInv /\ AnnouncedInv /\ SettledInv

LEMMA TypesNext ==
    ASSUME BaseInv, AnnouncedInv, [Next]_vars
    PROVE  TypeOK'
  <1>0. SendTyped /\ WireTyped /\ RecvTyped /\ BlocksPosted
    BY TypeParts DEF BaseInv, UnitsInv
  <1>1. CASE SenderStep
    <2>1. RecvTyped'
      BY <1>0, <1>1, SenderFrame DEF recvVars, eventVars, RecvTyped
    <2>2. SendTyped' /\ WireTyped'
      BY <1>0, <1>1, TypeSender
    <2> QED
      BY <2>1, <2>2 DEF TypeOK, SendTyped, WireTyped, RecvTyped
  <1>2. ASSUME UNCHANGED sendVars, WireTyped', RecvTyped' PROVE TypeOK'
    BY <1>0, <1>2 DEF TypeOK, SendTyped, WireTyped, RecvTyped, sendVars
  <1>3. UNCHANGED wire => WireTyped'
    BY <1>0 DEF WireTyped
  <1>4. CASE TakeVec
    BY <1>2, <1>3, <1>4, TakeOut
  <1>5. ASSUME NEW k \in 1..WireMax, RecvVec(k) PROVE TypeOK'
    BY <1>2, <1>5, ReadOut
  <1>6. CASE CallbackStep
    <2>1. RecvTyped'
      BY <1>6, CallbackFrame, CallbackOut DEF AnnouncedInv, EventHeld
    <2> QED
      BY <1>2, <1>3, <1>6, <2>1, CallbackFrame
  <1>7. CASE RecvBroken
    BY <1>2, <1>3, <1>7, BrokenOut
  <1>8. CASE Cleanup
    BY <1>2, <1>3, <1>8, CleanupOut
  <1>9. CASE UNCHANGED vars
    <2>1. RecvTyped'
      BY <1>0, <1>9 DEF vars, eventVars, RecvTyped
    <2> QED
      BY <1>2, <1>3, <1>9, <2>1 DEF vars
  <1> QED
    BY <1>1, <1>4, <1>5, <1>6, <1>7, <1>8, <1>9, StepKinds

LEMMA StreamInit ==
    ASSUME Init
    PROVE  StreamInv
  <1> DEFINE v == HeaderVec("SYS_ALLOC")
  <1>1. /\ posted = <<>> /\ mSendQ = <<>> /\ sendFile = <<>> /\ wire = <<>>
        /\ truncated = {} /\ closed = FALSE
        /\ mRecvQ = <<v>> /\ mCurRecvBlock = Nil
        /\ mNextRecvPart = "HEADER" /\ cbp = NewCbp /\ data = <<>>
        /\ mSendEventMap = Ids /\ reply = [r \in Ids |-> "none"]
        /\ buffers \in UserBuffers /\ handed = <<>> /\ ended = "open"
    BY DEF Init
  <1>2. v \in RecvVecs /\ v.got = <<>> /\ v.size = 1
    BY VecTyped DEF HeaderVec, AllocTypes
  <1> HIDE DEF v
  <1>3. <<v>> \in Seq(RecvVecs) /\ Len(<<v>>) = 1 /\ DOMAIN <<v>> = {1} /\ <<v>>[1] = v
    <2> HIDE DEF RecvVecs
    <2> QED
      BY <1>2
  <1>4. SendTyped /\ WireTyped
    <2>1. MaxMessages \in Nat /\ WireMax \in Nat
      BY StreamAssumption
    <2>2. Len(<<>>) = 0
      OBVIOUS
    <2>3. /\ <<>> \in Seq(Shapes) /\ <<>> \in Seq(Units)
          /\ <<>> \in Seq([id : Ids, units : Seq(Units), last : BOOLEAN])
      OBVIOUS
    <2>4. 0 <= MaxMessages /\ 0 <= WireMax
      BY <2>1
    <2>5. SendTyped
      BY <1>1, <2>2, <2>3, <2>4 DEF SendTyped
    <2> QED
      BY <1>1, <2>2, <2>3, <2>4, <2>5 DEF WireTyped
  <1>5. cbp \in CbpType /\ cbp.cev = Nil
    BY <1>1 DEF NewCbp, CbpType
  <1>6. RecvTyped
    <2>1. reply \in Replies
      BY <1>1 DEF Replies
    <2>2. data \in Seq(Units) /\ handed \in Seq(Events)
      BY <1>1
    <2> QED
      BY <1>1, <1>3, <1>5, <2>1, <2>2 DEF RecvTyped, CbpType, Replies, Events, States
  <1>7. VectorsInv
    BY <1>1, <1>2, <1>3 DEF VectorsInv, Fitting, Counted, Sized, VecCount, OneVecParts
  <1>8. UnitsInv
    BY <1>1 DEF UnitsInv, BlocksPosted, PostedUnits
  <1>9. PairsInv
    <2>1. Len(wire) = 0
      BY <1>1
    <2> QED
      BY <1>1, <2>1 DEF PairsInv, SenderPaired, ClosedEmpty, QueuePaired, WirePaired,
         HeaderPaired, MessagePaired, GotUnit
  <1>10. AnnouncedInv
    BY <1>1, <1>5 DEF AnnouncedInv, AttachParts
  <1>11. SettledInv
    BY <1>1, <1>5 DEF SettledInv, Waiting, FailedRequest
  <1>12. TypeOK
    BY <1>4, <1>6, TypeParts
  <1> QED
    BY <1>7, <1>8, <1>9, <1>10, <1>11, <1>12 DEF StreamInv, BaseInv

LEMMA StreamNext ==
    ASSUME StreamInv, [Next]_vars
    PROVE  StreamInv'
  <1>1. BaseInv /\ PairsInv /\ AnnouncedInv /\ SettledInv
    BY DEF StreamInv
  <1>2. EventHeld
    BY <1>1 DEF AnnouncedInv, EventHeld
  <1> QED
    BY <1>1, <1>2, TypesNext, VectorsNext, UnitsNext, PairsNext, AnnouncedNext, SettledNext
       DEF StreamInv, BaseInv

(* The invariant of the stream and of its two ends.                        *)
THEOREM StreamInvariant == Spec => []StreamInv
  <1>1. Init => StreamInv
    BY StreamInit
  <1>2. StreamInv /\ [Next]_vars => StreamInv'
    BY StreamNext
  <1> QED
    BY <1>1, <1>2, PTL DEF Spec

(* While the connection is open the receive path never runs dry and never  *)
(* posts too much: one vector for a header, a message or a drain, and for  *)
(* attachments as many as are counted, with exactly the room that is       *)
(* missing (conncb.cpp, allocAttachIoVecs and recvPrepareRspAttach); for   *)
(* every cut of the stream, every block size and any buffers of the client.*)
THEOREM VectorsExactAlways == Spec => []VectorsExact
  <1>1. StreamInv => VectorsExact
    BY DEF StreamInv, BaseInv, VectorsInv, Counted, Sized, OneVecParts, SizesOf,
           VectorsExact
  <1> QED
    BY <1>1, StreamInvariant, PTL

(* A request of the client is completed at most once, and when the         *)
(* connection has been cleaned up it is completed, unless its response     *)
(* announced a file (Conn::cleanup, recvErrCb, eventDone).                 *)
THEOREM SettledOnceAlways == Spec => []SettledOnce
  <1>1. StreamInv => SettledOnce
    <2> SUFFICES ASSUME StreamInv PROVE SettledOnce
      OBVIOUS
    <2>1. SettledInv /\ AnnouncedInv
      BY DEF StreamInv
    <2>2. ASSUME ended = "cleaned" PROVE Waiting = {}
      <3>1. cbp.cev = Nil /\ mSendEventMap = {}
        BY <2>1, <2>2 DEF AnnouncedInv, SettledInv
      <3> QED
        BY <3>1 DEF Waiting, FailedRequest
    <2> QED
      BY <2>1, <2>2 DEF SettledInv, SettledOnce
  <1> QED
    BY <1>1, StreamInvariant, PTL

-----------------------------------------------------------------------------
(* Part 9.  The order of the units.                                        *)

(* The unit at a place of a message: the header, the message, attachments  *)
(* and file.                                                               *)
UnitAt(id, j) ==
    IF j = 1 THEN [id |-> id, part |-> "header", n |-> 1]
    ELSE IF j = 2 THEN MessageOf(id)
    ELSE IF j <= 2 + posted[id].att THEN [id |-> id, part |-> "att", n |-> j - 2]
    ELSE [id |-> id, part |-> "file", n |-> j - 2 - posted[id].att]
Size(id) == 2 + posted[id].att + posted[id].file
Place(u) ==
    IF u.part = "header" THEN 1 ELSE IF u.part = "message" THEN 2
    ELSE IF u.part = "att" THEN 2 + u.n ELSE 2 + posted[u.id].att + u.n

(* Units follow each other: the next of the same message, or the header of *)
(* the next message after the last one that is sent.  Message 0 is what    *)
(* comes before the first.                                                 *)
Messages == {0} \cup DOMAIN posted
Full(id, i) == \/ id = 0 \/ i = Size(id)
               \/ id \in truncated /\ i = 2 + posted[id].att
Follows(id, i, v) ==
    \/ id # 0 /\ i < Size(id) /\ v = UnitAt(id, i + 1)
    \/ Full(id, i) /\ v = UnitAt(id + 1, 1)

(* The blocks of the send queue: the units of each, which may be sent in   *)
(* part at the head of the queue, and the block that comes after it.       *)
LastOf(b) == IF b.last THEN 2 + posted[b.id].att ELSE 2
StartOf(b) == IF b.last /\ posted[b.id].att > 0 THEN 2 ELSE 0
BlockOk(b) ==
    /\ ~b.last => posted[b.id].att > 0
    /\ Len(b.units) <= LastOf(b) - StartOf(b)
    /\ \A k \in 1..Len(b.units) : b.units[k] = UnitAt(b.id, LastOf(b) - Len(b.units) + k)
Fresh(b) == Len(b.units) = LastOf(b) - StartOf(b)
Starts(b, id) == b.id = id /\ StartOf(b) = 0 /\ Fresh(b)
Succeeds(b, c) == IF b.last THEN Starts(c, b.id + 1)
                  ELSE c.last /\ c.id = b.id /\ Fresh(c)
QueueOk ==
    /\ \A b \in DOMAIN mSendQ : BlockOk(mSendQ[b])
    /\ \A b \in DOMAIN mSendQ :
         IF b = Len(mSendQ) THEN mSendQ[b].last /\ mSendQ[b].id = Len(posted)
         ELSE Succeeds(mSendQ[b], mSendQ[b + 1])
FileOf(s) ==
    /\ Len(sendFile) <= posted[s].file
    /\ \A k \in 1..Len(sendFile) : sendFile[k] = UnitAt(s, Size(s) - Len(sendFile) + k)
    /\ IF mSendQ = <<>> THEN s = Len(posted) ELSE Starts(mSendQ[1], s + 1)
FileOk == sendFile # <<>> => \E s \in DOMAIN posted : FileOf(s)

(* What the sender writes next follows the place.                          *)
SenderAfter(id, i) ==
    \/ closed
    \/ sendFile # <<>> /\ Follows(id, i, sendFile[1])
    \/ /\ sendFile = <<>>
       /\ IF mSendQ = <<>> THEN id = Len(posted) /\ Full(id, i)
          ELSE IF mSendQ[1].units = <<>> THEN id = mSendQ[1].id /\ i = LastOf(mSendQ[1])
          ELSE Follows(id, i, mSendQ[1].units[1])
WireOk ==
    /\ \A k \in 1..Len(wire) : k < Len(wire) => Follows(wire[k].id, Place(wire[k]), wire[k + 1])
    /\ wire # <<>> => SenderAfter(wire[Len(wire)].id, Place(wire[Len(wire)]))
SenderOrder == QueueOk /\ FileOk /\ WireOk

(* What comes next follows the place, on the wire or at the sender.        *)
NextAfter(id, i) ==
    IF wire = <<>> THEN SenderAfter(id, i) ELSE Follows(id, i, wire[1])

-----------------------------------------------------------------------------
(* Units and their places.                                                 *)
LEMMA SizeOf ==
    ASSUME SendTyped, NEW id \in DOMAIN posted
    PROVE  /\ Size(id) \in Nat /\ Size(id) >= 2 + posted[id].att
           /\ Size(id) = 2 + posted[id].att + posted[id].file
           /\ posted[id].att \in Nat /\ posted[id].file \in Nat
           /\ id \in Nat /\ id # 0
  BY ShapeTyped DEF Size, Ids

LEMMA PlaceOf ==
    ASSUME SendTyped, NEW id \in DOMAIN posted, NEW j \in 1..Size(id)
    PROVE  /\ UnitAt(id, j).id = id /\ Place(UnitAt(id, j)) = j
           /\ UnitAt(id, j).part = "header" <=> j = 1
  <1>1. posted[id].att \in Nat /\ posted[id].file \in Nat
    BY ShapeTyped
  <1>2. CASE j = 1
    BY <1>2 DEF UnitAt, Place
  <1>3. CASE j = 2
    BY <1>3 DEF UnitAt, Place, MessageOf
  <1>4. CASE j > 2 /\ j <= 2 + posted[id].att
    BY <1>1, <1>4 DEF UnitAt, Place
  <1>5. CASE j > 2 + posted[id].att
    BY <1>1, <1>5 DEF UnitAt, Place
  <1> QED
    BY <1>1, <1>2, <1>3, <1>4, <1>5

(* What follows is a unit at its place.                                    *)
LEMMA FollowsIs ==
    ASSUME SendTyped, NEW id \in Messages, NEW i \in Nat, NEW v,
           v.id \in DOMAIN posted, Follows(id, i, v)
    PROVE  /\ v.id >= id /\ id \in Nat /\ v.id \in Nat
           /\ Place(v) \in 1..Size(v.id) /\ v = UnitAt(v.id, Place(v))
           /\ \/ id # 0 /\ v.id = id /\ Place(v) = i + 1 /\ i < Size(id)
              \/ v.id = id + 1 /\ Place(v) = 1 /\ Full(id, i)
  <1>1. id \in Nat
    BY SizeOf DEF Messages
  <1>2. CASE id # 0 /\ i < Size(id) /\ v = UnitAt(id, i + 1)
    <2>1. id \in DOMAIN posted
      BY <1>2 DEF Messages
    <2>2. i + 1 \in 1..Size(id)
      BY <1>2, <2>1, SizeOf
    <2>3. v.id = id /\ Place(v) = i + 1
      BY <1>2, <2>1, <2>2, PlaceOf
    <2> QED
      BY <1>1, <1>2, <2>2, <2>3
  <1>3. CASE Full(id, i) /\ v = UnitAt(id + 1, 1)
    <2>1. v.id = id + 1
      BY <1>3 DEF UnitAt
    <2>2. 1 \in 1..Size(v.id)
      BY SizeOf
    <2>3. Place(v) = 1
      BY <1>3, <2>1, <2>2, PlaceOf
    <2> QED
      BY <1>1, <1>3, <2>1, <2>2, <2>3
  <1> QED
    BY <1>2, <1>3 DEF Follows

(* More messages and more truncated files change nothing of this.          *)
Grows ==
    /\ \A i \in DOMAIN posted : i \in DOMAIN posted' /\ posted'[i] = posted[i]
    /\ truncated \subseteq truncated'

LEMMA UnitKept ==
    ASSUME Grows, NEW id \in DOMAIN posted
    PROVE  /\ Size(id)' = Size(id) /\ id \in DOMAIN posted'
           /\ \A j : UnitAt(id, j)' = UnitAt(id, j)
  BY DEF Grows, Size, UnitAt

LEMMA FollowsKept ==
    ASSUME Grows, NEW id \in Messages, NEW i, NEW v
    PROVE  /\ Follows(id, i, v) => Follows(id, i, v)'
           /\ Full(id, i) => Full(id, i)'
           /\ id \in Messages'
  <1>1. CASE id = 0
    BY <1>1 DEF Follows, Full, UnitAt, Messages
  <1>2. CASE id # 0
    <2>1. id \in DOMAIN posted' /\ posted'[id] = posted[id] /\ truncated \subseteq truncated'
      BY <1>2 DEF Messages, Grows
    <2>2. Full(id, i) => Full(id, i)'
      BY <2>1 DEF Full, Size
    <2>3. UnitAt(id, i + 1)' = UnitAt(id, i + 1) /\ Size(id)' = Size(id)
      BY <2>1 DEF UnitAt, Size
    <2>4. UnitAt(id + 1, 1)' = UnitAt(id + 1, 1)
      BY DEF UnitAt
    <2> QED
      BY <2>1, <2>2, <2>3, <2>4 DEF Follows, Messages
  <1> QED
    BY <1>1, <1>2

LEMMA PlaceKept ==
    ASSUME Grows, NEW v, v.id \in DOMAIN posted
    PROVE  Place(v)' = Place(v)
  BY DEF Grows, Place

(* Blocks keep their places too.                                           *)
LEMMA BlockKept ==
    ASSUME Grows, NEW b, b.id \in DOMAIN posted
    PROVE  /\ LastOf(b)' = LastOf(b) /\ StartOf(b)' = StartOf(b)
           /\ BlockOk(b) => BlockOk(b)'
           /\ Fresh(b) => Fresh(b)'
           /\ \A id : Starts(b, id) => Starts(b, id)'
  <1>1. posted'[b.id] = posted[b.id]
    BY DEF Grows
  <1>2. LastOf(b)' = LastOf(b) /\ StartOf(b)' = StartOf(b)
    BY <1>1 DEF LastOf, StartOf
  <1>3. \A j : UnitAt(b.id, j)' = UnitAt(b.id, j)
    BY UnitKept
  <1> QED
    BY <1>1, <1>2, <1>3 DEF BlockOk, Fresh, Starts

LEMMA SucceedsKept ==
    ASSUME Grows, NEW b, NEW c, c.id \in DOMAIN posted, Succeeds(b, c)
    PROVE  Succeeds(b, c)'
  <1>1. CASE b.last
    BY <1>1, BlockKept DEF Succeeds
  <1>2. CASE ~b.last
    BY <1>2, BlockKept DEF Succeeds
  <1> QED
    BY <1>1, <1>2

-----------------------------------------------------------------------------
(* The sender.                                                             *)

(* The two units that open a message.                                      *)
LEMMA OpeningUnits ==
    ASSUME NEW id \in Ids
    PROVE  LET u == UnitsOf(id, "header", 1) \o UnitsOf(id, "message", 1)
           IN Len(u) = 2 /\ u[1] = UnitAt(id, 1) /\ u[2] = UnitAt(id, 2)
  <1> DEFINE h == [id |-> id, part |-> "header", n |-> 1]
             m == MessageOf(id)
  <1>1. UnitsOf(id, "header", 1) = <<h>> /\ UnitsOf(id, "message", 1) = <<m>>
    <2>1. 1..1 = {1}
      OBVIOUS
    <2> QED
      BY <2>1 DEF UnitsOf, MessageOf
  <1>2. h = UnitAt(id, 1) /\ m = UnitAt(id, 2)
    BY DEF UnitAt
  <1> HIDE DEF h, m
  <1>3. <<h>> \o <<m>> = <<h, m>>
    <2>1. PICK S : S = {h, m}
      OBVIOUS
    <2>2. h \in S /\ m \in S
      BY <2>1
    <2> QED
      BY <2>2, TwoUnits
  <1>4. Len(<<h, m>>) = 2 /\ <<h, m>>[1] = h /\ <<h, m>>[2] = m
    OBVIOUS
  <1> QED
    BY <1>1, <1>2, <1>3, <1>4

(* The blocks of a new message, with the message posted.                   *)
LEMMA NewBlocks ==
    ASSUME NEW id \in Ids, NEW m \in Shapes, id \in DOMAIN posted', posted'[id] = m
    PROVE  LET q == IoVecsOf(id, m) IN
           /\ Len(q) \in {1, 2} /\ Starts(q[1], id)'
           /\ \A b \in 1..Len(q) : q[b].id = id /\ BlockOk(q[b])'
           /\ q[Len(q)].last
           /\ Len(q) = 2 => Succeeds(q[1], q[2])'
  <1>0. PICK first, rest : /\ first = UnitsOf(id, "header", 1) \o UnitsOf(id, "message", 1)
                           /\ rest = UnitsOf(id, "att", m.att)
    OBVIOUS
  <1>1. Len(first) = 2 /\ first[1] = UnitAt(id, 1) /\ first[2] = UnitAt(id, 2)
    BY <1>0, OpeningUnits
  <1>2. m.att \in Nat
    BY StreamAssumption
  <1>3. Len(rest) = m.att /\ \A k \in 1..m.att : rest[k] = [id |-> id, part |-> "att", n |-> k]
    BY <1>0, <1>2 DEF UnitsOf
  <1>4. \A k \in 1..m.att : UnitAt(id, 2 + k)' = [id |-> id, part |-> "att", n |-> k]
    BY <1>2 DEF UnitAt
  <1>5. UnitAt(id, 1)' = UnitAt(id, 1) /\ UnitAt(id, 2)' = UnitAt(id, 2)
    BY DEF UnitAt
  <1>14. PICK one, two : /\ one = [id |-> id, units |-> first, last |-> m.att = 0]
                         /\ two = [id |-> id, units |-> rest, last |-> TRUE]
    OBVIOUS
  <1>6. /\ m.att = 0 => IoVecsOf(id, m) = <<one>>
        /\ m.att # 0 => IoVecsOf(id, m) = <<one, two>>
    <2>1. m.att = 0 => one = [id |-> id, units |-> first, last |-> TRUE]
      BY <1>14
    <2>2. m.att # 0 => one = [id |-> id, units |-> first, last |-> FALSE]
      BY <1>14
    <2> QED
      BY <1>0, <1>14, <2>1, <2>2 DEF IoVecsOf
  <1>7. one.id = id /\ two.id = id /\ one.units = first /\ two.units = rest /\ two.last
    BY <1>14
  <1>8. one.last <=> m.att = 0
    BY <1>14
  <1>9. /\ LastOf(one)' = 2 /\ StartOf(one)' = 0
        /\ m.att # 0 => LastOf(two)' = 2 + m.att /\ StartOf(two)' = 2
    BY <1>2, <1>7, <1>8 DEF LastOf, StartOf
  <1>10. BlockOk(one)' /\ Starts(one, id)'
    <2>1. 2 - 0 = 2 /\ \A k \in 1..2 : 2 - 2 + k = k /\ (k = 1 \/ k = 2)
      OBVIOUS
    <2>2. /\ one.units[1] = [id |-> id, part |-> "header", n |-> 1]
          /\ one.units[2] = MessageOf(id)
      BY <1>1, <1>7 DEF UnitAt
    <2>3. ~one.last => posted'[one.id].att > 0
      BY <1>2, <1>7, <1>8
    <2>4. /\ Len(one.units) = 2 /\ one.id = id
          /\ (IF one.last THEN 2 + posted'[one.id].att ELSE 2) = 2
          /\ (IF one.last /\ posted'[one.id].att > 0 THEN 2 ELSE 0) = 0
      BY <1>1, <1>2, <1>7, <1>8
    <2>5. ASSUME NEW k \in 1..2 PROVE (one.units[k] = UnitAt(one.id, 2 - 2 + k))'
      <3>1. CASE k = 1
        <4>1. 2 - 2 + k = 1
          BY <3>1
        <4> QED
          BY <2>2, <2>4, <3>1, <4>1 DEF UnitAt
      <3>2. CASE k = 2
        <4>1. 2 - 2 + k = 2
          BY <3>2
        <4> QED
          BY <2>2, <2>4, <3>2, <4>1 DEF UnitAt
      <3> QED
        BY <2>1, <3>1, <3>2
    <2> QED
      BY <2>1, <2>3, <2>4, <2>5 DEF BlockOk, Starts, Fresh, LastOf, StartOf, UnitAt
  <1>11. m.att # 0 => BlockOk(two)' /\ Fresh(two)'
    <2>0. HAVE m.att # 0
    <2>1. (2 + m.att) - 2 = m.att
          /\ \A k \in 1..m.att : (2 + m.att) - m.att + k = 2 + k
      BY <1>2
    <2> QED
      BY <1>2, <1>3, <1>7, <2>0, <2>1 DEF BlockOk, Fresh, LastOf, StartOf, UnitAt
  <1>12. CASE m.att = 0
    <2>1. Len(<<one>>) = 1 /\ <<one>>[1] = one
      OBVIOUS
    <2>2. \A b \in 1..1 : b = 1
      OBVIOUS
    <2>3. one.last
      BY <1>8, <1>12
    <2>4. PICK q : q = IoVecsOf(id, m)
      OBVIOUS
    <2>5. Len(q) = 1 /\ q[1] = one
      BY <1>6, <1>12, <2>1, <2>4
    <2> QED
      BY <1>7, <1>10, <2>2, <2>3, <2>4, <2>5
  <1>13. CASE m.att # 0
    <2>1. Len(<<one, two>>) = 2 /\ <<one, two>>[1] = one /\ <<one, two>>[2] = two
      OBVIOUS
    <2>2. \A b \in 1..2 : b = 1 \/ b = 2
      OBVIOUS
    <2>3. Succeeds(one, two)'
      BY <1>7, <1>8, <1>11, <1>13 DEF Succeeds
    <2> QED
      BY <1>6, <1>7, <1>10, <1>11, <1>13, <2>1, <2>2, <2>3
  <1> QED
    BY <1>12, <1>13

(* The first unit of a block that has not been begun.                      *)
LEMMA FirstOfBlock ==
    ASSUME SendTyped, NEW b \in Blocks, b.id \in DOMAIN posted, BlockOk(b), Fresh(b)
    PROVE  /\ b.units # <<>> /\ b.units[1] = UnitAt(b.id, StartOf(b) + 1)
           /\ StartOf(b) < LastOf(b)
  <1>1. posted[b.id].att \in Nat
    BY ShapeTyped
  <1>2. StartOf(b) \in Nat /\ LastOf(b) \in Nat /\ StartOf(b) < LastOf(b)
    BY <1>1 DEF StartOf, LastOf
  <1>3. b.units \in Seq(Units) /\ Len(b.units) = LastOf(b) - StartOf(b)
    BY DEF Fresh, Blocks
  <1>4. b.units # <<>> /\ 1 \in 1..Len(b.units)
    <2> HIDE DEF Units
    <2>1. Len(b.units) > 0 /\ Len(b.units) \in Nat
      BY <1>2, <1>3
    <2>2. b.units # <<>>
      BY <2>1
    <2> QED
      BY <2>1, <2>2
  <1>5. LastOf(b) - Len(b.units) + 1 = StartOf(b) + 1
    BY <1>2, <1>3
  <1>6. b.units[1] = UnitAt(b.id, LastOf(b) - Len(b.units) + 1)
    BY <1>4 DEF BlockOk
  <1> QED
    BY <1>2, <1>4, <1>5, <1>6

(* What the sender may rely on.                                            *)
SenderInv == SendTyped /\ WireTyped /\ BlocksPosted /\ PostedUnits(sendFile)
             /\ PostedUnits(wire) /\ SenderOrder
NextKeeps == \A id \in Messages : \A i \in Nat : NextAfter(id, i) => NextAfter(id, i)'

(* Unit and place of what is on the wire.                                  *)
LEMMA WirePlaces ==
    ASSUME SendTyped, WireTyped, PostedUnits(wire), NEW k \in 1..Len(wire)
    PROVE  /\ wire[k] \in Units /\ wire[k].id \in DOMAIN posted /\ wire[k].id \in Messages
           /\ Place(wire[k]) \in Nat
  <1>1. wire[k] \in Units /\ DOMAIN wire = 1..Len(wire)
    <2> HIDE DEF Units
    <2> QED
      BY DEF WireTyped
  <1>2. wire[k].id \in DOMAIN posted /\ wire[k].n \in Nat
    BY <1>1 DEF PostedUnits, Units
  <1>3. posted[wire[k].id].att \in Nat
    BY <1>2, ShapeTyped
  <1> QED
    BY <1>1, <1>2, <1>3 DEF Place, Messages

LEMMA WireLast ==
    ASSUME WireTyped, wire # <<>>
    PROVE  Len(wire) \in 1..Len(wire) /\ 1 \in 1..Len(wire) /\ Len(wire) \in Nat
  <1>1. wire \in Seq(Units)
    BY DEF WireTyped
  <1> HIDE DEF Units
  <1> QED
    BY <1>1

(* The wire and what follows it, when a step of the sender leaves the wire *)
(* alone.                                                                  *)
LEMMA WireAlone ==
    ASSUME SenderInv, Grows, wire' = wire,
           \A id \in Messages : \A i \in Nat : SenderAfter(id, i) => SenderAfter(id, i)'
    PROVE  WireOk' /\ NextKeeps
  <1>1. \A k \in 1..Len(wire) : /\ wire[k].id \in DOMAIN posted /\ wire[k].id \in Messages
                                /\ Place(wire[k]) \in Nat
    BY WirePlaces DEF SenderInv
  <1>2. \A k \in 1..Len(wire) : Place(wire[k])' = Place(wire[k])
    BY <1>1, PlaceKept
  <1>3. ASSUME NEW k \in 1..Len(wire), k < Len(wire)
        PROVE  Follows(wire[k].id, Place(wire[k]), wire[k + 1])'
    <2>1. Follows(wire[k].id, Place(wire[k]), wire[k + 1])
      BY <1>3 DEF SenderInv, SenderOrder, WireOk
    <2>2. PICK a, b, v : a = wire[k].id /\ b = Place(wire[k]) /\ v = wire[k + 1]
      OBVIOUS
    <2>3. Follows(a, b, v)'
      BY <1>1, <2>1, <2>2, FollowsKept
    <2> QED
      BY <1>2, <2>2, <2>3
  <1>4. ASSUME wire # <<>>
        PROVE  SenderAfter(wire[Len(wire)].id, Place(wire[Len(wire)]))'
    <2>1. Len(wire) \in 1..Len(wire)
      BY <1>4, WireLast DEF SenderInv
    <2>2. SenderAfter(wire[Len(wire)].id, Place(wire[Len(wire)]))
      BY <1>4 DEF SenderInv, SenderOrder, WireOk
    <2>3. PICK a, b : a = wire[Len(wire)].id /\ b = Place(wire[Len(wire)])
      OBVIOUS
    <2>4. SenderAfter(a, b)'
      BY <1>1, <2>1, <2>2, <2>3
    <2> QED
      BY <1>2, <2>1, <2>3, <2>4
  <1>5. WireOk'
    BY <1>3, <1>4 DEF WireOk
  <1>6. NextKeeps
    <2> SUFFICES ASSUME NEW id \in Messages, NEW i \in Nat, NextAfter(id, i)
                 PROVE  NextAfter(id, i)'
      BY DEF NextKeeps
    <2>1. CASE wire = <<>>
      BY <2>1 DEF NextAfter
    <2>2. CASE wire # <<>>
      <3>1. PICK v : v = wire[1]
        OBVIOUS
      <3>2. Follows(id, i, v)'
        BY <2>2, <3>1, FollowsKept DEF NextAfter
      <3> QED
        BY <2>2, <3>1, <3>2 DEF NextAfter
    <2> QED
      BY <2>1, <2>2
  <1> QED
    BY <1>5, <1>6

(* A message is queued.                                                    *)
LEMMA PostSendGrows ==
    ASSUME SendTyped, NEW m \in Shapes, PostSend(m), NEW id, id = Len(posted) + 1,
           NEW q, q = IoVecsOf(id, m)
    PROVE  /\ id \in Ids /\ Grows /\ Len(posted') = id /\ id \in DOMAIN posted'
           /\ posted'[id] = m /\ ~closed
           /\ UNCHANGED <<sendFile, truncated, closed, wire>>
           /\ Len(mSendQ) \in Nat /\ DOMAIN mSendQ = 1..Len(mSendQ)
           /\ DOMAIN mSendQ' = 1..Len(mSendQ') /\ Len(mSendQ') = Len(mSendQ) + Len(q)
           /\ \A b \in 1..Len(mSendQ) : mSendQ'[b] = mSendQ[b]
           /\ \A b \in 1..Len(q) : mSendQ'[Len(mSendQ) + b] = q[b]
           /\ mSendQ = <<>> <=> Len(mSendQ) = 0
  <1>1. /\ ~closed /\ id \in Ids /\ posted' = Append(posted, m) /\ mSendQ' = mSendQ \o q
        /\ UNCHANGED <<sendFile, truncated, closed, wire>>
    BY DEF PostSend
  <1>2. posted \in Seq(Shapes) /\ mSendQ \in Seq(Blocks)
    BY DEF SendTyped, Blocks
  <1>3. q \in Seq(Blocks)
    BY <1>1, IoVecsTyped
  <1>4. /\ Len(posted') = id /\ id \in DOMAIN posted' /\ posted'[id] = m
        /\ \A i \in DOMAIN posted : i \in DOMAIN posted' /\ posted'[i] = posted[i]
    BY <1>1, <1>2
  <1> HIDE DEF Blocks
  <1>5. /\ mSendQ' \in Seq(Blocks) /\ Len(mSendQ') = Len(mSendQ) + Len(q)
        /\ Len(mSendQ) \in Nat /\ Len(q) \in Nat
        /\ \A b \in 1..Len(mSendQ) : mSendQ'[b] = mSendQ[b]
        /\ \A b \in 1..Len(q) : mSendQ'[Len(mSendQ) + b] = q[b]
    BY <1>1, <1>2, <1>3, ConcatOf
  <1>6. DOMAIN mSendQ = 1..Len(mSendQ) /\ DOMAIN mSendQ' = 1..Len(mSendQ')
    BY <1>2, <1>5
  <1>7. mSendQ = <<>> <=> Len(mSendQ) = 0
    BY <1>2
  <1> QED
    BY <1>1, <1>4, <1>5, <1>6, <1>7 DEF Grows

LEMMA OrderPost ==
    ASSUME SenderInv, NEW m \in Shapes, PostSend(m)
    PROVE  SenderOrder' /\ NextKeeps /\ Grows
  <1>1. PICK id, q : id = Len(posted) + 1 /\ q = IoVecsOf(id, m)
    OBVIOUS
  <1> DEFINE L == Len(mSendQ)
  <1>2. /\ id \in Ids /\ Grows /\ Len(posted') = id /\ id \in DOMAIN posted'
        /\ posted'[id] = m /\ ~closed
        /\ UNCHANGED <<sendFile, truncated, closed, wire>>
        /\ L \in Nat /\ DOMAIN mSendQ = 1..L
        /\ DOMAIN mSendQ' = 1..Len(mSendQ') /\ Len(mSendQ') = L + Len(q)
        /\ \A b \in 1..L : mSendQ'[b] = mSendQ[b]
        /\ \A b \in 1..Len(q) : mSendQ'[L + b] = q[b]
        /\ mSendQ = <<>> <=> L = 0
    BY <1>1, PostSendGrows DEF SenderInv
  <1>3. /\ Len(q) \in {1, 2} /\ Starts(q[1], id)'
        /\ \A b \in 1..Len(q) : q[b].id = id /\ BlockOk(q[b])'
        /\ q[Len(q)].last
        /\ Len(q) = 2 => Succeeds(q[1], q[2])'
    BY <1>1, <1>2, NewBlocks
  <1>4. /\ \A b \in 1..L : mSendQ[b].id \in DOMAIN posted /\ BlockOk(mSendQ[b])
        /\ \A b \in 1..L :
             IF b = L THEN mSendQ[b].last /\ mSendQ[b].id = Len(posted)
             ELSE Succeeds(mSendQ[b], mSendQ[b + 1])
    BY <1>2 DEF SenderInv, SenderOrder, QueueOk, BlocksPosted
  <1> HIDE DEF L
  <1>5. ASSUME NEW b \in 1..Len(mSendQ') PROVE BlockOk(mSendQ[b])'
    <2>1. CASE b <= L
      <3>1. PICK c : c = mSendQ[b]
        OBVIOUS
      <3>2. b \in 1..L
        BY <1>2, <2>1
      <3>3. c.id \in DOMAIN posted /\ BlockOk(c)
        BY <1>4, <3>1, <3>2
      <3>4. BlockOk(c)'
        BY <1>2, <3>3, BlockKept
      <3> QED
        BY <1>2, <3>1, <3>2, <3>4
    <2>2. CASE ~(b <= L)
      <3>1. PICK j : j = b - L
        OBVIOUS
      <3>2. j \in 1..Len(q) /\ L + j = b
        BY <1>2, <1>3, <2>2, <3>1
      <3> QED
        BY <1>2, <1>3, <3>2
    <2> QED
      BY <2>1, <2>2
  <1>6. ASSUME NEW b \in 1..Len(mSendQ')
        PROVE  IF b = Len(mSendQ') THEN mSendQ'[b].last /\ mSendQ'[b].id = Len(posted')
               ELSE Succeeds(mSendQ[b], mSendQ[b + 1])'
    <2>1. CASE b < L
      <3>1. b \in 1..L /\ b + 1 \in 1..L /\ b # L /\ b # Len(mSendQ')
        BY <1>2, <1>3, <2>1
      <3>2. PICK c, d : c = mSendQ[b] /\ d = mSendQ[b + 1]
        OBVIOUS
      <3>3. Succeeds(c, d) /\ d.id \in DOMAIN posted
        BY <1>4, <3>1, <3>2
      <3>4. Succeeds(c, d)'
        BY <1>2, <3>3, SucceedsKept
      <3> QED
        BY <1>2, <3>1, <3>2, <3>4
    <2>2. CASE b = L
      <3>1. b \in 1..L /\ 1 \in 1..Len(q) /\ b # Len(mSendQ')
        BY <1>2, <1>3, <2>2
      <3>2. mSendQ'[b].last /\ mSendQ'[b].id = Len(posted) /\ mSendQ'[b + 1] = q[1]
        BY <1>2, <1>4, <2>2, <3>1
      <3>3. Starts(q[1], mSendQ[b].id + 1)'
        BY <1>1, <1>3, <3>2
      <3> QED
        BY <3>1, <3>2, <3>3 DEF Succeeds
    <2>3. CASE b = L + 1 /\ Len(q) = 2
      <3>1. b # Len(mSendQ') /\ 1 \in 1..Len(q) /\ 2 \in 1..Len(q) /\ b + 1 = L + 2
        BY <1>2, <2>3
      <3>2. mSendQ'[b] = q[1] /\ mSendQ'[b + 1] = q[2]
        BY <1>2, <2>3, <3>1
      <3> QED
        BY <1>3, <2>3, <3>1, <3>2
    <2>4. CASE b = L + Len(q)
      <3>1. b = Len(mSendQ') /\ Len(q) \in 1..Len(q)
        BY <1>2, <1>3, <2>4
      <3> QED
        BY <1>2, <1>3, <2>4, <3>1
    <2>5. b < L \/ b = L \/ b = L + Len(q) \/ (b = L + 1 /\ Len(q) = 2)
      BY <1>2, <1>3
    <2> QED
      BY <2>1, <2>2, <2>3, <2>4, <2>5
  <1>7. QueueOk'
    BY <1>2, <1>5, <1>6 DEF QueueOk
  <1>8. mSendQ # <<>> => mSendQ' # <<>> /\ mSendQ'[1] = mSendQ[1]
    <2> HAVE mSendQ # <<>>
    <2>1. 1 \in 1..L /\ Len(mSendQ') # 0
      BY <1>2, <1>3
    <2>2. mSendQ' # <<>>
      <3>1. Len(<<>>) = 0
        OBVIOUS
      <3> QED
        BY <2>1, <3>1
    <2> QED
      BY <1>2, <2>1, <2>2
  <1>9. mSendQ = <<>> => mSendQ' # <<>> /\ mSendQ'[1] = q[1]
    <2> HAVE mSendQ = <<>>
    <2>1. L = 0 /\ 1 \in 1..Len(q) /\ L + 1 = 1 /\ 1 \in DOMAIN mSendQ'
      BY <1>2, <1>3
    <2>2. mSendQ' # <<>>
      <3>1. DOMAIN <<>> = {}
        OBVIOUS
      <3> QED
        BY <2>1, <3>1
    <2> QED
      BY <1>2, <2>1, <2>2
  <1>10. FileOk'
    <2> SUFFICES ASSUME sendFile' # <<>>
                 PROVE  \E s \in DOMAIN posted' : FileOf(s)'
      BY DEF FileOk
    <2>1. PICK s \in DOMAIN posted : FileOf(s)
      BY <1>2 DEF SenderInv, SenderOrder, FileOk
    <2>2. s \in DOMAIN posted' /\ posted'[s] = posted[s] /\ Size(s)' = Size(s)
          /\ \A j : UnitAt(s, j)' = UnitAt(s, j)
      BY <1>2, UnitKept DEF Grows
    <2>3. /\ Len(sendFile) <= posted[s].file
          /\ \A k \in 1..Len(sendFile) :
               sendFile[k] = UnitAt(s, Size(s) - Len(sendFile) + k)
      BY <2>1 DEF FileOf
    <2>4. mSendQ' # <<>> /\ Starts(mSendQ[1], s + 1)'
      <3>1. CASE mSendQ = <<>>
        <4>1. s + 1 = id
          BY <1>1, <2>1, <3>1 DEF FileOf
        <4> QED
          BY <1>3, <1>9, <3>1, <4>1
      <3>2. CASE mSendQ # <<>>
        <4>1. PICK c : c = mSendQ[1]
          OBVIOUS
        <4>2. 1 \in 1..L
          BY <1>2, <3>2
        <4>3. Starts(c, s + 1) /\ c.id \in DOMAIN posted
          BY <1>4, <2>1, <3>2, <4>1, <4>2 DEF FileOf
        <4>4. Starts(c, s + 1)'
          BY <1>2, <4>3, BlockKept
        <4> QED
          BY <1>8, <3>2, <4>1, <4>4
      <3> QED
        BY <3>1, <3>2
    <2>5. FileOf(s)'
      BY <1>2, <2>2, <2>3, <2>4 DEF FileOf
    <2> QED
      BY <2>2, <2>5
  <1>11. q[1].units # <<>> /\ q[1].units[1] = UnitAt(id, 1)
    <2>1. PICK u : u = UnitsOf(id, "header", 1) \o UnitsOf(id, "message", 1)
      OBVIOUS
    <2>2. Len(u) = 2 /\ u[1] = UnitAt(id, 1)
      BY <1>2, <2>1, OpeningUnits
    <2>3. u # <<>>
      <3>1. Len(<<>>) = 0
        OBVIOUS
      <3> QED
        BY <2>2, <3>1
    <2>4. q[1].units = u
      BY <1>1, <2>1 DEF IoVecsOf
    <2> QED
      BY <2>2, <2>3, <2>4
  <1>12. ASSUME NEW n \in Messages, NEW i \in Nat, SenderAfter(n, i)
         PROVE  SenderAfter(n, i)'
    <2>1. CASE sendFile # <<>>
      <3>1. PICK v : v = sendFile[1]
        OBVIOUS
      <3>2. Follows(n, i, v)
        BY <1>2, <1>12, <2>1, <3>1 DEF SenderAfter
      <3>3. Follows(n, i, v)'
        BY <1>2, <3>2, FollowsKept
      <3> QED
        BY <1>2, <2>1, <3>1, <3>3 DEF SenderAfter
    <2>2. CASE sendFile = <<>> /\ mSendQ = <<>>
      <3>1. n = Len(posted) /\ Full(n, i)
        BY <1>2, <1>12, <2>2 DEF SenderAfter
      <3>2. Full(n, i)'
        BY <1>2, <3>1, FollowsKept
      <3>3. UnitAt(n + 1, 1)' = UnitAt(id, 1)
        BY <1>1, <3>1 DEF UnitAt
      <3>4. PICK v : v = UnitAt(id, 1)
        OBVIOUS
      <3>5. Follows(n, i, v)'
        BY <3>2, <3>3, <3>4 DEF Follows
      <3> QED
        BY <1>2, <1>9, <1>11, <2>2, <3>4, <3>5 DEF SenderAfter
    <2>3. CASE sendFile = <<>> /\ mSendQ # <<>>
      <3>1. PICK c : c = mSendQ[1]
        OBVIOUS
      <3>2. c.id \in DOMAIN posted /\ mSendQ' # <<>> /\ mSendQ'[1] = c
        <4>1. 1 \in 1..L
          BY <1>2, <2>3
        <4> QED
          BY <1>4, <1>8, <2>3, <3>1, <4>1
      <3>3. CASE c.units = <<>>
        <4>1. n = c.id /\ i = LastOf(c)
          BY <1>2, <1>12, <2>3, <3>1, <3>3 DEF SenderAfter
        <4>2. LastOf(c)' = LastOf(c)
          BY <1>2, <3>2, BlockKept
        <4> QED
          BY <1>2, <2>3, <3>2, <3>3, <4>1, <4>2 DEF SenderAfter
      <3>4. CASE c.units # <<>>
        <4>1. PICK v : v = c.units[1]
          OBVIOUS
        <4>2. Follows(n, i, v)
          BY <1>2, <1>12, <2>3, <3>1, <3>4, <4>1 DEF SenderAfter
        <4>3. Follows(n, i, v)'
          BY <1>2, <4>2, FollowsKept
        <4> QED
          BY <1>2, <2>3, <3>2, <3>4, <4>1, <4>3 DEF SenderAfter
      <3> QED
        BY <3>3, <3>4
    <2> QED
      BY <2>1, <2>2, <2>3
  <1>13. WireOk' /\ NextKeeps
    BY <1>2, <1>12, WireAlone
  <1> QED
    BY <1>2, <1>7, <1>10, <1>13 DEF SenderOrder

(* The units of a block are at its last places.                            *)
LEMMA BlockUnits ==
    ASSUME SendTyped, NEW b \in Blocks, b.id \in DOMAIN posted, BlockOk(b),
           NEW t \in 1..Len(b.units), NEW p, p = LastOf(b) - Len(b.units) + t
    PROVE  /\ p \in 1..LastOf(b) /\ LastOf(b) \in Nat /\ LastOf(b) <= Size(b.id)
           /\ b.units[t] = UnitAt(b.id, p)
           /\ b.units[t].id = b.id /\ Place(b.units[t]) = p
           /\ Len(b.units) \in Nat /\ b.id \in Messages
  <1>1. /\ Size(b.id) \in Nat /\ Size(b.id) >= 2 + posted[b.id].att
        /\ posted[b.id].att \in Nat
    BY SizeOf
  <1>2. /\ StartOf(b) \in Nat /\ LastOf(b) \in Nat /\ LastOf(b) <= Size(b.id)
    BY <1>1 DEF StartOf, LastOf
  <1>3. Len(b.units) \in Nat /\ Len(b.units) <= LastOf(b) - StartOf(b)
    BY DEF BlockOk, Blocks
  <1>4. p \in 1..LastOf(b) /\ p \in 1..Size(b.id)
    BY <1>1, <1>2, <1>3
  <1>5. b.units[t] = UnitAt(b.id, p)
    BY DEF BlockOk
  <1> QED
    BY <1>2, <1>3, <1>4, <1>5, PlaceOf DEF Messages

(* Units are added to the wire: the first follows what the sender has      *)
(* written before, and the sender goes on after the last.                  *)
LEMMA WireExtended ==
    ASSUME SenderInv, UNCHANGED <<posted, truncated>>, NEW k \in Nat \ {0}, NEW v,
           wire' \in Seq(Units), Len(wire') = Len(wire) + k,
           \A i \in 1..Len(wire) : wire'[i] = wire[i],
           \A i \in 1..k : wire'[Len(wire) + i] = v[i],
           \A t \in 1..k : t < k => Follows(v[t].id, Place(v[t]), v[t + 1]),
           \A id \in Messages : \A i \in Nat : SenderAfter(id, i) => Follows(id, i, v[1]),
           SenderAfter(v[k].id, Place(v[k]))'
    PROVE  WireOk' /\ NextKeeps
  <1> DEFINE n == Len(wire)
  <1>1. n \in Nat /\ Grows
    <2>1. wire \in Seq(Units)
      BY DEF SenderInv, WireTyped
    <2> HIDE DEF Units
    <2> QED
      BY <2>1 DEF Grows
  <1>2. \A a, b : \A c : Follows(a, b, c)' <=> Follows(a, b, c)
    BY DEF Follows, Full, Size, UnitAt
  <1>3. \A c : Place(c)' = Place(c)
    BY DEF Place
  <1>4. wire # <<>> => n \in 1..n /\ 1 \in 1..n
    BY WireLast DEF SenderInv
  <1>5. wire = <<>> => n = 0
    OBVIOUS
  <1>6. Len(wire') = n + k /\ \A i \in 1..n : wire'[i] = wire[i]
    OBVIOUS
  <1>7. \A i \in 1..k : wire'[n + i] = v[i]
    OBVIOUS
  <1>8. /\ \A j \in 1..n : j < n => Follows(wire[j].id, Place(wire[j]), wire[j + 1])
        /\ wire # <<>> => SenderAfter(wire[n].id, Place(wire[n]))
    BY DEF SenderInv, SenderOrder, WireOk
  <1>9. \A j \in 1..n : wire[j].id \in Messages /\ Place(wire[j]) \in Nat
    BY WirePlaces DEF SenderInv
  <1> HIDE DEF n
  <1>10. ASSUME NEW j \in 1..n + k, j < n + k, NEW a, a = wire'[j], NEW b, b = wire'[j + 1]
         PROVE  Follows(a.id, Place(a), b)
    <2>1. CASE j < n
      <3>1. j \in 1..n /\ j + 1 \in 1..n
        BY <1>1, <2>1
      <3>2. a = wire[j] /\ b = wire[j + 1]
        BY <1>6, <1>10, <3>1
      <3> QED
        BY <1>8, <2>1, <3>1, <3>2
    <2>2. CASE j = n
      <3>1. n \in 1..n /\ 1 \in 1..k /\ wire # <<>>
        BY <1>1, <1>5, <2>2
      <3>2. a = wire[n] /\ b = v[1]
        BY <1>6, <1>7, <1>10, <2>2, <3>1
      <3>3. SenderAfter(a.id, Place(a)) /\ a.id \in Messages /\ Place(a) \in Nat
        BY <1>8, <1>9, <3>1, <3>2
      <3> QED
        BY <3>2, <3>3
    <2>3. CASE j > n
      <3>1. PICK t : t = j - n
        OBVIOUS
      <3>2. t \in 1..k /\ t + 1 \in 1..k /\ t < k /\ j = n + t /\ j + 1 = n + (t + 1)
        BY <1>1, <1>10, <2>3, <3>1
      <3>3. a = v[t] /\ b = v[t + 1]
        BY <1>7, <1>10, <3>2
      <3> QED
        BY <3>2, <3>3
    <2> QED
      BY <1>1, <2>1, <2>2, <2>3
  <1>11. WireOk'
    <2>1. ASSUME NEW j \in 1..Len(wire'), j < Len(wire')
          PROVE  Follows(wire[j].id, Place(wire[j]), wire[j + 1])'
      <3>1. PICK a, b : a = wire'[j] /\ b = wire'[j + 1]
        OBVIOUS
      <3>2. Follows(a.id, Place(a), b)
        BY <1>6, <1>10, <2>1, <3>1
      <3> QED
        BY <1>2, <1>3, <3>1, <3>2
    <2>2. SenderAfter(wire[Len(wire)].id, Place(wire[Len(wire)]))'
      <3>1. wire'[Len(wire')] = v[k]
        BY <1>6, <1>7
      <3> QED
        BY <3>1
    <2> QED
      BY <2>1, <2>2 DEF WireOk
  <1>12. wire' # <<>> /\ wire'[1] = IF wire = <<>> THEN v[1] ELSE wire[1]
    <2>1. wire' # <<>>
      <3>1. Len(<<>>) = 0 /\ Len(wire') # 0
        BY <1>1, <1>6
      <3> QED
        BY <3>1
    <2>2. 1 \in 1..k /\ 0 + 1 = 1
      OBVIOUS
    <2> QED
      BY <1>4, <1>5, <1>6, <1>7, <2>1, <2>2
  <1>13. NextKeeps
    <2> SUFFICES ASSUME NEW id \in Messages, NEW i \in Nat, NextAfter(id, i)
                 PROVE  NextAfter(id, i)'
      BY DEF NextKeeps
    <2>1. PICK c : c = wire'[1]
      OBVIOUS
    <2>2. Follows(id, i, c)
      BY <1>12, <2>1 DEF NextAfter
    <2>3. Follows(id, i, c)'
      BY <1>2, <2>2
    <2> QED
      BY <1>12, <2>1, <2>3 DEF NextAfter
  <1> QED
    BY <1>11, <1>13

(* A part of the block at the head of the queue is written.                *)
LEMMA OrderVec ==
    ASSUME SenderInv, NEW k \in 1..WireMax, SendVec(k)
    PROVE  SenderOrder' /\ NextKeeps /\ Grows
  <1>1. PICK c, d : c = mSendQ[1] /\ d = mSendQ'[1]
    OBVIOUS
  <1>2. PICK u, w : u = c.units /\ w = d.units
    OBVIOUS
  <1>3. /\ sendFile = <<>> /\ mSendQ # <<>> /\ mSendQ' # <<>>
        /\ UNCHANGED <<posted, sendFile, truncated, closed>>
        /\ k \in Nat \ {0} /\ k <= Len(u)
        /\ DOMAIN mSendQ' = DOMAIN mSendQ /\ 1 \in DOMAIN mSendQ
        /\ \A b \in DOMAIN mSendQ : b # 1 => mSendQ'[b] = mSendQ[b]
        /\ d.id = c.id
        /\ u \in Seq(Units) /\ w \in Seq(Units) /\ Len(w) = Len(u) - k
        /\ \A i \in 1..Len(u) - k : w[i] = u[k + i]
        /\ wire' \in Seq(Units) /\ Len(wire') = Len(wire) + k
        /\ \A i \in 1..Len(wire) : wire'[i] = wire[i]
        /\ \A i \in 1..k : wire'[Len(wire) + i] = u[i]
    BY <1>1, <1>2, SendVecOut DEF SenderInv
  <1>4. /\ c \in Blocks /\ c.id \in DOMAIN posted /\ BlockOk(c)
        /\ DOMAIN mSendQ = 1..Len(mSendQ)
    BY <1>1, <1>3, HeadBlock DEF SenderInv, SenderOrder, QueueOk, BlocksPosted
  <1>5. d.last = c.last /\ Len(mSendQ') = Len(mSendQ)
    <2>1. PICK x : x = SubSeq(c.units, k + 1, Len(c.units))
      OBVIOUS
    <2>2. mSendQ' = [mSendQ EXCEPT ![1] = [mSendQ[1] EXCEPT !.units = x]]
      <3>1. Head(mSendQ) = mSendQ[1]
        BY <1>3, HeadBlock DEF SenderInv
      <3> QED
        BY <1>1, <2>1, <3>1 DEF SendVec
    <2>3. d = [c EXCEPT !.units = x]
      BY <1>1, <1>3, <2>2
    <2>4. mSendQ \in Seq(Blocks)
      BY DEF SenderInv, SendTyped, Blocks
    <2>5. Len(mSendQ') = Len(mSendQ)
      <3> HIDE DEF Blocks
      <3> QED
        BY <2>2, <2>4
    <2> QED
      BY <1>4, <2>3, <2>5 DEF Blocks
  <1>6. SendTyped /\ Len(u) \in Nat
    BY <1>4, <1>2 DEF SenderInv, Blocks
  <1>7. ASSUME NEW t \in 1..Len(u), NEW p, p = LastOf(c) - Len(u) + t
        PROVE  /\ p \in 1..LastOf(c) /\ LastOf(c) \in Nat /\ LastOf(c) <= Size(c.id)
               /\ u[t] = UnitAt(c.id, p) /\ u[t].id = c.id /\ Place(u[t]) = p
               /\ c.id \in Messages
    BY <1>2, <1>4, <1>6, <1>7, BlockUnits
  <1>8. Grows
    BY <1>3 DEF Grows
  <1>9. LastOf(d) = LastOf(c) /\ StartOf(d) = StartOf(c)
    BY <1>3, <1>5 DEF LastOf, StartOf
  <1>10. LastOf(c) \in Nat /\ StartOf(c) \in Nat
    <2>1. posted[c.id].att \in Nat
      BY <1>4, <1>6, ShapeTyped
    <2> QED
      BY <2>1 DEF LastOf, StartOf
  <1>11. BlockOk(d)
    <2>1. ASSUME NEW t \in 1..Len(w) PROVE w[t] = UnitAt(d.id, LastOf(d) - Len(w) + t)
      <3>1. k + t \in 1..Len(u) /\ w[t] = u[k + t]
        BY <1>3, <1>6
      <3>2. LastOf(d) - Len(w) + t = LastOf(c) - Len(u) + (k + t)
        BY <1>3, <1>6, <1>9, <1>10
      <3> QED
        BY <1>3, <1>7, <3>1, <3>2
    <2>2. Len(w) <= LastOf(d) - StartOf(d)
      BY <1>2, <1>3, <1>4, <1>6, <1>9, <1>10 DEF BlockOk
    <2>3. ~d.last => posted[d.id].att > 0
      BY <1>3, <1>4, <1>5 DEF BlockOk
    <2> QED
      BY <1>2, <2>1, <2>2, <2>3 DEF BlockOk
  <1>12. QueueOk'
    <2>1. /\ \A b \in DOMAIN mSendQ : mSendQ[b].id \in DOMAIN posted /\ BlockOk(mSendQ[b])
          /\ \A b \in DOMAIN mSendQ :
               IF b = Len(mSendQ) THEN mSendQ[b].last /\ mSendQ[b].id = Len(posted)
               ELSE Succeeds(mSendQ[b], mSendQ[b + 1])
      BY DEF SenderInv, SenderOrder, QueueOk, BlocksPosted
    <2>2. ASSUME NEW b \in DOMAIN mSendQ', NEW x, x = mSendQ'[b] PROVE BlockOk(x)'
      <3>1. CASE b = 1
        BY <1>1, <1>3, <1>4, <1>8, <1>11, <2>2, <3>1, BlockKept
      <3>2. CASE b # 1
        <4>1. x = mSendQ[b] /\ b \in DOMAIN mSendQ
          BY <1>3, <2>2, <3>2
        <4> QED
          BY <1>8, <2>1, <4>1, BlockKept
      <3> QED
        BY <3>1, <3>2
    <2>3. ASSUME NEW b \in DOMAIN mSendQ'
          PROVE  IF b = Len(mSendQ') THEN mSendQ'[b].last /\ mSendQ'[b].id = Len(posted')
                 ELSE Succeeds(mSendQ[b], mSendQ[b + 1])'
      <3>1. mSendQ'[b].last = mSendQ[b].last /\ mSendQ'[b].id = mSendQ[b].id
        BY <1>1, <1>3, <1>5
      <3>2. CASE b = Len(mSendQ)
        BY <1>3, <1>5, <2>1, <3>1, <3>2
      <3>3. CASE b # Len(mSendQ)
        <4>1. b + 1 \in DOMAIN mSendQ /\ b + 1 # 1
          BY <1>3, <1>4, <3>3
        <4>2. PICK x, y, z : x = mSendQ[b] /\ y = mSendQ[b + 1] /\ z = mSendQ'[b]
          OBVIOUS
        <4>3. y = mSendQ'[b + 1] /\ z.last = x.last /\ z.id = x.id /\ y.id \in DOMAIN posted
          BY <1>3, <2>1, <3>1, <4>1, <4>2
        <4>4. Succeeds(x, y)
          BY <1>3, <2>1, <3>3, <4>2
        <4>5. Succeeds(z, y)
          BY <4>3, <4>4 DEF Succeeds
        <4>6. Succeeds(z, y)'
          BY <1>8, <4>3, <4>5, SucceedsKept
        <4> QED
          BY <1>5, <3>3, <4>2, <4>3, <4>6
      <3> QED
        BY <3>2, <3>3
    <2> QED
      BY <2>2, <2>3 DEF QueueOk
  <1>13. FileOk'
    BY <1>3 DEF FileOk
  <1>14. ASSUME NEW t \in 1..k, t < k PROVE Follows(u[t].id, Place(u[t]), u[t + 1])
    <2>1. t \in 1..Len(u) /\ t + 1 \in 1..Len(u)
      BY <1>3, <1>6, <1>14
    <2>2. PICK p : p = LastOf(c) - Len(u) + t
      OBVIOUS
    <2>3. p + 1 = LastOf(c) - Len(u) + (t + 1)
      BY <1>6, <1>10, <2>2
    <2>4. u[t].id = c.id /\ Place(u[t]) = p
      BY <1>7, <2>1, <2>2
    <2>5. p + 1 \in 1..LastOf(c) /\ LastOf(c) <= Size(c.id) /\ u[t + 1] = UnitAt(c.id, p + 1)
      BY <1>7, <2>1, <2>3
    <2>6. c.id # 0 /\ Size(c.id) \in Nat
      BY <1>4, <1>6, SizeOf
    <2>7. p < Size(c.id)
      BY <1>6, <1>10, <2>2, <2>5, <2>6
    <2> QED
      BY <2>4, <2>5, <2>6, <2>7 DEF Follows
  <1>15. u # <<>>
    BY <1>3
  <1>16. ASSUME NEW id \in Messages, NEW i \in Nat, SenderAfter(id, i)
         PROVE  Follows(id, i, u[1])
    BY <1>1, <1>2, <1>3, <1>15, <1>16, SenderFrame DEF SenderAfter, SendVec
  <1>17. SenderAfter(u[k].id, Place(u[k]))'
    <2>1. k \in 1..Len(u)
      BY <1>3, <1>6
    <2>2. PICK p : p = LastOf(c) - Len(u) + k
      OBVIOUS
    <2>3. u[k].id = c.id /\ Place(u[k]) = p /\ p \in 1..LastOf(c)
      BY <1>7, <2>1, <2>2
    <2>4. u[k].id = c.id /\ Place(u[k])' = p
      BY <1>4, <1>8, <2>3, PlaceKept
    <2>5. c.id # 0 /\ Size(c.id) \in Nat
      BY <1>4, <1>6, SizeOf
    <2>6. CASE k = Len(u)
      <3>1. w = <<>> /\ p = LastOf(c)
        <4>1. Len(w) = 0
          BY <1>3, <1>6, <2>6
        <4>2. w = <<>>
          <5> HIDE DEF Units
          <5> QED
            BY <1>3, <4>1
        <4> QED
          BY <1>6, <1>10, <2>2, <2>6, <4>2
      <3>2. LastOf(d)' = p
        BY <1>3, <1>4, <1>8, <1>9, <3>1, BlockKept
      <3> QED
        BY <1>1, <1>2, <1>3, <2>4, <3>1, <3>2 DEF SenderAfter
    <2>7. CASE k # Len(u)
      <3>1. k + 1 \in 1..Len(u) /\ 1 \in 1..Len(u) - k
        BY <1>3, <1>6, <2>7
      <3>2. w[1] = u[k + 1] /\ w # <<>>
        <4>1. Len(w) # 0 /\ Len(<<>>) = 0
          BY <1>3, <3>1
        <4> QED
          BY <1>3, <3>1, <4>1
      <3>3. p + 1 = LastOf(c) - Len(u) + (k + 1)
        BY <1>6, <1>10, <2>2
      <3>4. p + 1 \in 1..LastOf(c) /\ LastOf(c) <= Size(c.id) /\ u[k + 1] = UnitAt(c.id, p + 1)
        BY <1>7, <3>1, <3>3
      <3>5. p < Size(c.id)
        BY <1>10, <2>3, <2>5, <3>4
      <3>6. PICK v : v = w[1]
        OBVIOUS
      <3>7. Follows(c.id, p, v)
        BY <2>5, <3>2, <3>4, <3>5, <3>6 DEF Follows
      <3>8. Follows(c.id, p, v)'
        <4>1. c.id \in Messages
          BY <1>4 DEF Messages
        <4> QED
          BY <1>8, <3>7, <4>1, FollowsKept
      <3> QED
        BY <1>1, <1>2, <1>3, <2>4, <3>2, <3>6, <3>8 DEF SenderAfter
    <2> QED
      BY <2>6, <2>7
  <1>18. WireOk' /\ NextKeeps
    BY <1>3, <1>14, <1>16, <1>17, WireExtended
  <1> QED
    BY <1>8, <1>12, <1>13, <1>18 DEF SenderOrder

(* The first block leaves the queue.                                       *)
LEMMA TailQueue ==
    ASSUME SenderInv, Grows, posted' = posted, mSendQ # <<>>, mSendQ' = Tail(mSendQ)
    PROVE  /\ QueueOk' /\ 1 \in DOMAIN mSendQ
           /\ mSendQ[1] \in Blocks /\ mSendQ[1].id \in DOMAIN posted /\ BlockOk(mSendQ[1])
           /\ mSendQ' = <<>> => mSendQ[1].last /\ mSendQ[1].id = Len(posted)
           /\ mSendQ' # <<>> =>
                /\ Succeeds(mSendQ[1], mSendQ'[1]) /\ BlockOk(mSendQ'[1])
                /\ mSendQ'[1] \in Blocks /\ mSendQ'[1].id \in DOMAIN posted
  <1>1. PICK L, q : L = Len(mSendQ) /\ q = Tail(mSendQ)
    OBVIOUS
  <1>2. /\ 1 \in DOMAIN mSendQ /\ DOMAIN mSendQ = 1..L /\ mSendQ[1] \in Blocks
        /\ q \in Seq(Blocks) /\ Len(q) = L - 1
        /\ \A b \in DOMAIN q : b + 1 \in DOMAIN mSendQ /\ q[b] = mSendQ[b + 1]
    BY <1>1, HeadBlock DEF SenderInv
  <1>3. /\ \A b \in DOMAIN mSendQ : mSendQ[b].id \in DOMAIN posted /\ BlockOk(mSendQ[b])
        /\ \A b \in DOMAIN mSendQ :
             IF b = L THEN mSendQ[b].last /\ mSendQ[b].id = Len(posted)
             ELSE Succeeds(mSendQ[b], mSendQ[b + 1])
    BY <1>1 DEF SenderInv, SenderOrder, QueueOk, BlocksPosted
  <1>4. /\ L \in Nat /\ DOMAIN q = 1..Len(q)
        /\ q # <<>> => 1 \in DOMAIN q /\ q[1] \in Blocks
        /\ q = <<>> => Len(q) = 0
    <2>1. mSendQ \in Seq(Blocks)
      BY DEF SenderInv, SendTyped, Blocks
    <2> HIDE DEF Blocks
    <2> QED
      BY <1>1, <1>2, <2>1
  <1>5. ASSUME NEW b \in DOMAIN q, NEW x, x = q[b] PROVE BlockOk(x)' /\ BlockOk(x)
    <2>1. x.id \in DOMAIN posted /\ BlockOk(x)
      BY <1>2, <1>3, <1>5
    <2> QED
      BY <2>1, BlockKept
  <1>6. ASSUME NEW b \in DOMAIN q
        PROVE  IF b = Len(q) THEN q[b].last /\ q[b].id = Len(posted)
               ELSE Succeeds(q[b], q[b + 1])'
    <2>1. CASE b = Len(q)
      <3>1. b + 1 = L
        BY <1>2, <1>4, <2>1
      <3> QED
        BY <1>2, <1>3, <2>1, <3>1
    <2>2. CASE b # Len(q)
      <3>1. b + 1 # L /\ b + 1 \in DOMAIN q /\ (b + 1) + 1 \in DOMAIN mSendQ
        BY <1>2, <1>4, <2>2
      <3>2. PICK x, y : x = q[b] /\ y = q[b + 1]
        OBVIOUS
      <3>3. Succeeds(x, y) /\ y.id \in DOMAIN posted
        BY <1>2, <1>3, <3>1, <3>2
      <3>4. Succeeds(x, y)'
        BY <3>3, SucceedsKept
      <3> QED
        BY <2>2, <3>2, <3>4
    <2> QED
      BY <2>1, <2>2
  <1>7. mSendQ' = q
    BY <1>1
  <1>8. QueueOk'
    <2>1. ASSUME NEW b \in DOMAIN mSendQ' PROVE BlockOk(mSendQ[b])'
      BY <1>5, <1>7
    <2> QED
      BY <1>6, <1>7, <2>1 DEF QueueOk
  <1>9. ASSUME q = <<>> PROVE mSendQ[1].last /\ mSendQ[1].id = Len(posted)
    <2>1. L = 1
      BY <1>2, <1>4, <1>9
    <2> QED
      BY <1>2, <1>3, <2>1
  <1>10. ASSUME q # <<>>
         PROVE  /\ Succeeds(mSendQ[1], q[1]) /\ BlockOk(q[1])
                /\ q[1] \in Blocks /\ q[1].id \in DOMAIN posted
    <2>1. 1 \in DOMAIN q /\ 1 # L /\ 1 + 1 \in DOMAIN mSendQ /\ q[1] = mSendQ[1 + 1]
      BY <1>2, <1>4, <1>10
    <2> QED
      BY <1>2, <1>3, <1>4, <1>10, <2>1
  <1> QED
    BY <1>2, <1>3, <1>7, <1>8, <1>9, <1>10

(* The units of a file are the last ones of the message.                   *)
LEMMA FileUnits ==
    ASSUME SendTyped, NEW id \in DOMAIN posted, NEW f,
           f = UnitsOf(id, "file", posted[id].file)
    PROVE  /\ Len(f) = posted[id].file
           /\ \A k \in 1..Len(f) : f[k] = UnitAt(id, Size(id) - Len(f) + k)
           /\ f # <<>> => f[1] = UnitAt(id, 2 + posted[id].att + 1) /\ posted[id].file > 0
  <1>1. /\ posted[id].att \in Nat /\ posted[id].file \in Nat /\ id \in Ids
        /\ Size(id) = 2 + posted[id].att + posted[id].file
    BY SizeOf, ShapeTyped
  <1>2. /\ f \in Seq(Units) /\ Len(f) = posted[id].file
        /\ \A k \in 1..posted[id].file : f[k] = [id |-> id, part |-> "file", n |-> k]
    <2>1. "file" \in Parts /\ posted[id].file \in Nat
      BY <1>1 DEF Parts
    <2> QED
      BY <1>1, <2>1, UnitsTyped
  <1>3. ASSUME NEW k \in 1..Len(f)
        PROVE  /\ f[k] = UnitAt(id, 2 + posted[id].att + k)
               /\ Size(id) - Len(f) + k = 2 + posted[id].att + k
    <2>1. (2 + posted[id].att + k) - 2 - posted[id].att = k
      BY <1>1, <1>2
    <2>2. ~(2 + posted[id].att + k <= 2 + posted[id].att) /\ 2 + posted[id].att + k > 2
      BY <1>1, <1>2
    <2>3. UnitAt(id, 2 + posted[id].att + k) = [id |-> id, part |-> "file", n |-> k]
      BY <1>1, <2>1, <2>2 DEF UnitAt
    <2> QED
      BY <1>1, <1>2, <2>3
  <1>4. f # <<>> => 1 \in 1..Len(f) /\ Len(f) > 0
    <2> HIDE DEF Units
    <2> QED
      BY <1>2
  <1> QED
    BY <1>2, <1>3, <1>4

(* A block is finished.                                                    *)
LEMMA OrderCallback ==
    ASSUME SenderInv, NEW opened \in BOOLEAN, SendCallback(opened)
    PROVE  SenderOrder' /\ NextKeeps /\ Grows
  <1>0. SendTyped /\ BlocksPosted
    BY DEF SenderInv
  <1>1. PICK c, s, m : c = mSendQ[1] /\ s = c.id /\ m = posted[s]
    OBVIOUS
  <1>2. /\ ~closed /\ sendFile = <<>> /\ mSendQ # <<>> /\ c.units = <<>>
        /\ mSendQ' = Tail(mSendQ) /\ Head(mSendQ) = c
        /\ UNCHANGED <<posted, closed, wire>>
    BY <1>0, <1>1, SendCallbackOut DEF SendCallback
  <1>3. /\ \/ /\ c.last /\ m.file > 0 /\ sendFile' = UnitsOf(s, "file", m.file)
              /\ truncated' = truncated
           \/ c.last /\ m.file > 0 /\ sendFile' = <<>> /\ truncated' = truncated \cup {s}
           \/ /\ ~(c.last /\ m.file > 0) /\ sendFile' = <<>> /\ truncated' = truncated
    BY <1>1, <1>2 DEF SendCallback
  <1>4. Grows
    BY <1>2, <1>3 DEF Grows
  <1>5. /\ QueueOk' /\ c \in Blocks /\ s \in DOMAIN posted /\ BlockOk(c)
        /\ mSendQ' = <<>> => c.last /\ s = Len(posted)
        /\ mSendQ' # <<>> =>
             /\ Succeeds(c, mSendQ'[1]) /\ BlockOk(mSendQ'[1])
             /\ mSendQ'[1] \in Blocks /\ mSendQ'[1].id \in DOMAIN posted
    BY <1>1, <1>2, <1>4, TailQueue
  <1>6. /\ m.att \in Nat /\ m.file \in Nat /\ Size(s) = 2 + m.att + m.file /\ s # 0
        /\ s \in Messages
    BY <1>0, <1>1, <1>5, SizeOf DEF Messages
  <1>7. FileOk'
    <2> SUFFICES ASSUME sendFile' # <<>> PROVE \E n \in DOMAIN posted' : FileOf(n)'
      BY DEF FileOk
    <2>1. c.last /\ sendFile' = UnitsOf(s, "file", m.file)
      BY <1>3
    <2>2. PICK f : f = UnitsOf(s, "file", m.file)
      OBVIOUS
    <2>3. Len(f) = m.file /\ \A k \in 1..Len(f) : f[k] = UnitAt(s, Size(s) - Len(f) + k)
      BY <1>0, <1>1, <1>5, <2>2, FileUnits
    <2>4. \A j : UnitAt(s, j)' = UnitAt(s, j) /\ Size(s)' = Size(s)
      BY <1>4, <1>5, UnitKept
    <2>5. IF mSendQ' = <<>> THEN s = Len(posted) ELSE Starts(mSendQ[1], s + 1)'
      <3>1. CASE mSendQ' = <<>>
        BY <1>5, <3>1
      <3>2. CASE mSendQ' # <<>>
        <4>1. PICK d : d = mSendQ'[1]
          OBVIOUS
        <4>2. Starts(d, s + 1) /\ d.id \in DOMAIN posted
          BY <1>1, <1>5, <2>1, <3>2, <4>1 DEF Succeeds
        <4>3. Starts(d, s + 1)'
          BY <1>4, <4>2, BlockKept
        <4> QED
          BY <3>2, <4>1, <4>3
      <3> QED
        BY <3>1, <3>2
    <2>6. Len(f) <= m.file
      BY <1>6, <2>3
    <2>7. FileOf(s)'
      BY <1>1, <1>2, <2>1, <2>2, <2>3, <2>4, <2>5, <2>6 DEF FileOf
    <2> QED
      BY <1>2, <1>5, <2>7
  <1>8. ASSUME NEW id \in Messages, NEW i \in Nat, SenderAfter(id, i)
        PROVE  SenderAfter(id, i)'
    <2>1. id = s /\ i = LastOf(c)
      BY <1>1, <1>2, <1>8 DEF SenderAfter
    <2>2. CASE ~c.last
      <3>1. PICK d : d = mSendQ'[1]
        OBVIOUS
      <3>2. mSendQ' # <<>> /\ sendFile' = <<>>
        BY <1>3, <1>5, <2>2
      <3>3. /\ d \in Blocks /\ d.id \in DOMAIN posted /\ BlockOk(d) /\ Fresh(d)
            /\ d.last /\ d.id = s
        BY <1>1, <1>5, <2>2, <3>1, <3>2 DEF Succeeds
      <3>4. m.att > 0
        BY <1>1, <1>5, <2>2 DEF BlockOk
      <3>5. i = 2 /\ StartOf(d) = 2
        BY <1>1, <2>1, <2>2, <3>3, <3>4 DEF LastOf, StartOf
      <3>6. d.units # <<>> /\ d.units[1] = UnitAt(s, 2 + 1)
        BY <1>0, <3>3, <3>5, FirstOfBlock
      <3>7. PICK v : v = d.units[1]
        OBVIOUS
      <3>8. Follows(id, i, v)
        BY <1>6, <2>1, <3>4, <3>5, <3>6, <3>7 DEF Follows
      <3>9. Follows(id, i, v)'
        BY <1>4, <3>8, FollowsKept
      <3> QED
        BY <3>1, <3>2, <3>6, <3>7, <3>9 DEF SenderAfter
    <2>3. CASE c.last /\ sendFile' # <<>>
      <3>1. PICK f, v : f = UnitsOf(s, "file", m.file) /\ v = f[1]
        OBVIOUS
      <3>2. sendFile' = f /\ v = UnitAt(s, 2 + m.att + 1) /\ m.file > 0
        BY <1>0, <1>1, <1>3, <1>5, <2>3, <3>1, FileUnits
      <3>3. i = 2 + m.att
        BY <1>1, <2>1, <2>3 DEF LastOf
      <3>4. Follows(id, i, v)
        BY <1>6, <2>1, <3>2, <3>3 DEF Follows
      <3>5. Follows(id, i, v)'
        BY <1>4, <3>4, FollowsKept
      <3> QED
        BY <2>3, <3>1, <3>2, <3>5 DEF SenderAfter
    <2>4. CASE c.last /\ sendFile' = <<>>
      <3>1. i = 2 + m.att
        BY <1>1, <2>1, <2>4 DEF LastOf
      <3>2. m.file > 0 => s \in truncated'
        <4>1. CASE m.file > 0 /\ sendFile' = UnitsOf(s, "file", m.file)
          <5>1. PICK f : f = UnitsOf(s, "file", m.file)
            OBVIOUS
          <5>2. Len(f) = m.file
            BY <1>0, <1>1, <1>5, <5>1, FileUnits
          <5>3. Len(<<>>) = 0
            OBVIOUS
          <5> QED
            BY <2>4, <4>1, <5>1, <5>2, <5>3
        <4> QED
          BY <1>3, <2>4, <4>1
      <3>3. Full(s, i)'
        <4>1. m.file = 0 => i = Size(s)
          BY <1>6, <3>1
        <4>2. Size(s)' = Size(s) /\ posted'[s] = m
          BY <1>1, <1>2, <1>4, <1>5, UnitKept
        <4> QED
          BY <1>6, <3>1, <3>2, <4>1, <4>2 DEF Full
      <3>4. CASE mSendQ' = <<>>
        BY <1>2, <1>5, <2>1, <2>4, <3>3, <3>4 DEF SenderAfter
      <3>5. CASE mSendQ' # <<>>
        <4>1. PICK d : d = mSendQ'[1]
          OBVIOUS
        <4>2. /\ d \in Blocks /\ d.id \in DOMAIN posted /\ BlockOk(d) /\ Fresh(d)
              /\ StartOf(d) = 0 /\ d.id = s + 1
          BY <1>1, <1>5, <2>4, <3>5, <4>1 DEF Succeeds, Starts
        <4>3. d.units # <<>> /\ d.units[1] = UnitAt(s + 1, 0 + 1)
          BY <1>0, <4>2, FirstOfBlock
        <4>4. PICK v : v = d.units[1]
          OBVIOUS
        <4>5. v = UnitAt(s + 1, 1) /\ UnitAt(s + 1, 1)' = UnitAt(s + 1, 1)
          BY <4>3, <4>4 DEF UnitAt
        <4>6. Follows(s, i, v)'
          BY <3>3, <4>5 DEF Follows
        <4> QED
          BY <2>1, <2>4, <3>5, <4>1, <4>3, <4>4, <4>6 DEF SenderAfter
      <3> QED
        BY <3>4, <3>5
    <2> QED
      BY <2>2, <2>3, <2>4
  <1>9. WireOk' /\ NextKeeps
    BY <1>2, <1>4, <1>8, WireAlone
  <1> QED
    BY <1>4, <1>5, <1>7, <1>9 DEF SenderOrder

(* A unit of a file is written.                                            *)
LEMMA OrderFile ==
    ASSUME SenderInv, SendFile
    PROVE  SenderOrder' /\ NextKeeps /\ Grows
  <1>0. SendTyped /\ BlocksPosted /\ WireTyped
    BY DEF SenderInv
  <1>1. /\ ~closed /\ sendFile # <<>> /\ 1 \in DOMAIN sendFile
        /\ wire' \in Seq(Units) /\ Len(wire') = Len(wire) + 1 /\ Len(wire) \in Nat
        /\ \A i \in 1..Len(wire) : wire'[i] = wire[i]
        /\ wire'[Len(wire) + 1] = sendFile[1]
        /\ \A i \in DOMAIN sendFile' :
             i + 1 \in DOMAIN sendFile /\ sendFile'[i] = sendFile[i + 1]
        /\ UNCHANGED <<posted, mSendQ, truncated, closed>>
    BY <1>0, SendFileOut
  <1>2. Grows
    BY <1>1 DEF Grows
  <1>3. PICK f, g, L, v : f = sendFile /\ g = sendFile' /\ L = Len(f) /\ v = f[1]
    OBVIOUS
  <1>4. /\ L \in Nat \ {0} /\ DOMAIN f = 1..L /\ Len(g) = L - 1 /\ DOMAIN g = 1..L - 1
        /\ L = 1 => g = <<>>
        /\ L # 1 => g # <<>>
    <2>1. f \in Seq(Units) /\ g = Tail(f) /\ f # <<>>
      BY <1>0, <1>1, <1>3 DEF SendTyped, SendFile
    <2> HIDE DEF Units
    <2>2. /\ L \in Nat \ {0} /\ DOMAIN f = 1..L /\ g \in Seq(Units) /\ Len(g) = L - 1
          /\ DOMAIN g = 1..L - 1
      BY <1>3, <2>1
    <2>3. L = 1 => g = <<>>
      BY <2>2
    <2>4. L # 1 => g # <<>>
      <3>1. Len(<<>>) = 0
        OBVIOUS
      <3> QED
        BY <2>2, <3>1
    <2> QED
      BY <2>2, <2>3, <2>4
  <1>5. PICK s \in DOMAIN posted : FileOf(s)
    BY <1>1 DEF SenderInv, SenderOrder, FileOk
  <1>6. /\ L <= posted[s].file
        /\ \A k \in 1..L : f[k] = UnitAt(s, Size(s) - L + k)
        /\ IF mSendQ = <<>> THEN s = Len(posted) ELSE Starts(mSendQ[1], s + 1)
    BY <1>3, <1>5 DEF FileOf
  <1>7. /\ posted[s].att \in Nat /\ posted[s].file \in Nat /\ Size(s) \in Nat
        /\ Size(s) = 2 + posted[s].att + posted[s].file /\ s # 0 /\ s \in Messages
    BY <1>0, <1>5, SizeOf DEF Messages
  <1>8. PICK p : p = Size(s) - L + 1
    OBVIOUS
  <1>9. p \in 1..Size(s) /\ v = UnitAt(s, p) /\ v.id = s /\ Place(v) = p
    <2>1. p \in 1..Size(s)
      <3>1. L \in Nat /\ L # 0 /\ L <= posted[s].file
        BY <1>4, <1>6
      <3>2. L <= Size(s)
        BY <1>7, <3>1
      <3> QED
        BY <1>7, <1>8, <3>1, <3>2
    <2>2. v = UnitAt(s, p)
      BY <1>3, <1>4, <1>6, <1>8
    <2> QED
      BY <1>0, <2>1, <2>2, PlaceOf
  <1>10. ASSUME mSendQ # <<>>, NEW b, b = mSendQ[1]
         PROVE  /\ b \in Blocks /\ b.id \in DOMAIN posted /\ BlockOk(b)
                /\ Starts(b, s + 1) /\ b.units # <<>> /\ b.units[1] = UnitAt(s + 1, 1)
    <2>1. b \in Blocks /\ 1 \in DOMAIN mSendQ
      BY <1>0, <1>10, HeadBlock
    <2>2. b.id \in DOMAIN posted /\ BlockOk(b)
      BY <1>10, <2>1 DEF SenderInv, SenderOrder, QueueOk, BlocksPosted
    <2>3. Starts(b, s + 1) /\ Fresh(b) /\ b.id = s + 1 /\ StartOf(b) = 0
      BY <1>6, <1>10 DEF Starts
    <2>4. b.units # <<>> /\ b.units[1] = UnitAt(s + 1, 0 + 1)
      BY <1>0, <2>1, <2>2, <2>3, FirstOfBlock
    <2> QED
      BY <2>1, <2>2, <2>3, <2>4
  <1>11. QueueOk'
    <2>1. /\ \A b \in DOMAIN mSendQ : mSendQ[b].id \in DOMAIN posted /\ BlockOk(mSendQ[b])
          /\ \A b \in DOMAIN mSendQ :
               IF b = Len(mSendQ) THEN mSendQ[b].last /\ mSendQ[b].id = Len(posted)
               ELSE Succeeds(mSendQ[b], mSendQ[b + 1])
      BY DEF SenderInv, SenderOrder, QueueOk, BlocksPosted
    <2>2. ASSUME NEW b \in DOMAIN mSendQ, NEW x, x = mSendQ[b] PROVE BlockOk(x)'
      BY <1>2, <2>1, <2>2, BlockKept
    <2>3. ASSUME NEW b \in DOMAIN mSendQ, b # Len(mSendQ), NEW x, x = mSendQ[b],
                 NEW y, y = mSendQ[b + 1]
          PROVE  Succeeds(x, y)'
      <3>1. b + 1 \in DOMAIN mSendQ
        <4>1. mSendQ \in Seq(Blocks)
          BY <1>0 DEF SendTyped, Blocks
        <4> HIDE DEF Blocks
        <4> QED
          BY <2>3, <4>1
      <3> QED
        BY <1>2, <2>1, <2>3, <3>1, SucceedsKept
    <2> QED
      BY <1>1, <2>1, <2>2, <2>3 DEF QueueOk
  <1>12. FileOk'
    <2>1. ASSUME NEW k \in 1..Len(g) PROVE g[k] = UnitAt(s, Size(s) - Len(g) + k)
      <3>1. k + 1 \in 1..L /\ g[k] = f[k + 1]
        BY <1>1, <1>3, <1>4
      <3>2. Size(s) - L + (k + 1) = Size(s) - Len(g) + k
        BY <1>4, <1>7
      <3> QED
        BY <1>6, <3>1, <3>2
    <2>2. Len(g) <= posted[s].file
      BY <1>4, <1>6, <1>7
    <2>3. \A j : UnitAt(s, j)' = UnitAt(s, j) /\ Size(s)' = Size(s)
      BY <1>2, UnitKept
    <2>4. IF mSendQ' = <<>> THEN s = Len(posted') ELSE Starts(mSendQ[1], s + 1)'
      <3>1. CASE mSendQ = <<>>
        BY <1>1, <1>6, <3>1
      <3>2. CASE mSendQ # <<>>
        <4>1. PICK b : b = mSendQ[1]
          OBVIOUS
        <4>2. Starts(b, s + 1)'
          BY <1>2, <1>10, <3>2, <4>1, BlockKept
        <4> QED
          BY <1>1, <3>2, <4>1, <4>2
      <3> QED
        BY <3>1, <3>2
    <2>5. FileOf(s)'
      BY <1>1, <1>3, <2>1, <2>2, <2>3, <2>4 DEF FileOf
    <2> QED
      BY <1>1, <2>5 DEF FileOk
  <1>13. ASSUME NEW id \in Messages, NEW i \in Nat, SenderAfter(id, i)
         PROVE  Follows(id, i, f[1])
    BY <1>1, <1>3, <1>13 DEF SenderAfter
  <1>14. SenderAfter(f[1].id, Place(f[1]))'
    <2>1. Place(v)' = p
      BY <1>2, <1>9, PlaceKept
    <2>2. ASSUME L # 1 PROVE SenderAfter(s, p)'
      <3>1. 1 + 1 \in 1..L /\ 1 \in DOMAIN g
        BY <1>4, <2>2
      <3>2. g[1] = UnitAt(s, p + 1) /\ p < Size(s)
        <4>1. Size(s) - L + (1 + 1) = p + 1 /\ p < Size(s)
          BY <1>4, <1>7, <1>8, <3>1
        <4> QED
          BY <1>1, <1>3, <1>6, <3>1, <4>1
      <3>3. PICK w : w = g[1]
        OBVIOUS
      <3>4. Follows(s, p, w)
        BY <1>7, <3>2, <3>3 DEF Follows
      <3>5. Follows(s, p, w)'
        BY <1>2, <1>7, <3>4, FollowsKept
      <3> QED
        BY <1>3, <1>4, <2>2, <3>3, <3>5 DEF SenderAfter
    <2>3. ASSUME L = 1 PROVE SenderAfter(s, p)'
      <3>1. p = Size(s) /\ sendFile' = <<>>
        BY <1>3, <1>4, <1>7, <1>8, <2>3
      <3>2. Full(s, p)
        BY <3>1 DEF Full
      <3>3. CASE mSendQ = <<>>
        <4>1. Full(s, p)'
          BY <1>2, <1>7, <3>2, FollowsKept
        <4> QED
          BY <1>1, <1>6, <3>1, <3>3, <4>1 DEF SenderAfter
      <3>4. CASE mSendQ # <<>>
        <4>1. PICK b, w : b = mSendQ[1] /\ w = b.units[1]
          OBVIOUS
        <4>2. b.units # <<>> /\ w = UnitAt(s + 1, 1)
          BY <1>10, <3>4, <4>1
        <4>3. Follows(s, p, w)
          BY <3>2, <4>2 DEF Follows
        <4>4. Follows(s, p, w)'
          BY <1>2, <1>7, <4>3, FollowsKept
        <4> QED
          BY <1>1, <3>1, <3>4, <4>1, <4>2, <4>4 DEF SenderAfter
      <3> QED
        BY <3>3, <3>4
    <2>4. SenderAfter(s, p)'
      BY <2>2, <2>3
    <2> QED
      BY <1>3, <1>9, <2>1, <2>4
  <1>15. WireOk' /\ NextKeeps
    <2>1. 1 \in Nat \ {0} /\ \A t \in 1..1 : t = 1 /\ ~(t < 1)
      OBVIOUS
    <2>2. \A i \in 1..1 : wire'[Len(wire) + i] = f[i]
      BY <1>1, <1>3, <2>1
    <2>3. \A t \in 1..1 : t < 1 => Follows(f[t].id, Place(f[t]), f[t + 1])
      BY <2>1
    <2> QED
      BY <1>1, <1>13, <1>14, <2>1, <2>2, <2>3, WireExtended
  <1> QED
    BY <1>2, <1>11, <1>12, <1>15 DEF SenderOrder

(* The sender closes.                                                      *)
LEMMA OrderClose ==
    ASSUME SenderInv, PeerClose
    PROVE  SenderOrder' /\ NextKeeps /\ Grows
  <1>1. /\ closed' /\ mSendQ' = <<>> /\ sendFile' = <<>>
        /\ UNCHANGED <<posted, truncated, wire>>
    BY DEF PeerClose
  <1>2. Grows
    BY <1>1 DEF Grows
  <1>3. QueueOk' /\ FileOk'
    <2>1. DOMAIN mSendQ' = {}
      BY <1>1
    <2> QED
      BY <1>1, <2>1 DEF QueueOk, FileOk
  <1>4. \A id, i : SenderAfter(id, i)'
    BY <1>1 DEF SenderAfter
  <1>5. WireOk' /\ NextKeeps
    BY <1>1, <1>2, <1>4, WireAlone
  <1> QED
    BY <1>2, <1>3, <1>5 DEF SenderOrder

(* Whatever the sender does, what is on the wire and what follows it are in *)
(* the order of the units.                                                 *)
LEMMA OrderSent ==
    ASSUME SenderInv, SenderStep
    PROVE  SenderOrder' /\ NextKeeps /\ Grows
  BY OrderPost, OrderVec, OrderCallback, OrderFile, OrderClose DEF SenderStep, SendStep

-----------------------------------------------------------------------------
(* The receiver: its place in the stream is the last unit it has read.     *)
Got == IF mCurRecvBlock = Nil THEN <<>> ELSE mCurRecvBlock.got
Held == data \o Got
Usables == {"request", "response"}
HandedUpTo(id) ==
    /\ \A m \in 1..id : posted[m].kind \in Usables => \E j \in DOMAIN handed : handed[j].id = m
    /\ \A j \in DOMAIN handed : handed[j].id <= id
MapFrom(id) == \A r \in Ids : r > id => r \in mSendEventMap
UpTo(id) == HandedUpTo(id) /\ MapFrom(id)
VecsAre(size) == /\ mCurRecvBlock # Nil => mCurRecvBlock.size = size
                 /\ \A k \in DOMAIN mRecvQ : mRecvQ[k].size = size
Lost(id) == \E t \in truncated : t <= id

(* What each phase has read of the message, and what has been handed on.   *)
AtHeader(id, i) ==
    IF GotUnit
    THEN IF First.part = "header" THEN First = UnitAt(id, 1) /\ i = 1 /\ UpTo(id - 1)
         ELSE EndsEarly(id)
    ELSE UpTo(id) /\ \/ id = 0 \/ i = Size(id)
                     \/ (EndsEarly(id) /\ 1 <= i /\ i < Size(id))
AtMessage(id, i) ==
    id # 0 /\ i = 1 + Len(Got) /\ UpTo(id - 1) /\ posted[id].kind # "alien"
AtContent(id, i) ==
    /\ id = cbp.cev /\ i = 2 + Len(Held) /\ posted[id].kind \in Usables
    /\ \A n \in 1..Len(Held) : Held[n] = UnitAt(id, 2 + n)
    /\ HandedUpTo(id - 1) /\ MapFrom(id)
    /\ mNextRecvPart = "ATTACHFILE" =>
         /\ Len(data) = posted[id].att /\ VecsAre(LeastOf(gMaxBlockSize, cbp.fileLen))
         /\ cbp.remainVecs = BlockCount(cbp.fileLen)
(* What the vectors before the current one have drained, and its size.     *)
Drained(len, left) == (BlockCount(len) - left) * gMaxBlockSize
DrainVec(len, left) ==
    IF BlockCount(len) = 1 THEN len ELSE IF left > 1 THEN gMaxBlockSize ELSE len % gMaxBlockSize
AtDrain(id, i) ==
    /\ id # 0 /\ posted[id].kind \notin Usables /\ UpTo(id)
    /\ cbp.drainLen = DrainLen(posted[id]) /\ cbp.drainLen > 0
    /\ cbp.remainVecs <= BlockCount(cbp.drainLen)
    /\ i = Size(id) - cbp.drainLen + Drained(cbp.drainLen, cbp.remainVecs) + Len(Got)
    /\ VecsAre(DrainVec(cbp.drainLen, cbp.remainVecs))
Aligned(id, i) ==
    /\ mNextRecvPart = "HEADER" => AtHeader(id, i)
    /\ mNextRecvPart = "MESSAGE" => AtMessage(id, i)
    /\ mNextRecvPart \in AttachParts => AtContent(id, i)
    /\ mNextRecvPart = "DRAIN" => AtDrain(id, i)

(* While the receiver can go on it is at a place that is followed by what  *)
(* comes next, and as far in the message as its phase says; unless a file  *)
(* that was announced was left out before.                                 *)
Broken(id) == Lost(id) /\ (cbp.cev # Nil => Lost(cbp.cev))
Reads(id) == (mNextRecvPart \in {"HEADER", "MESSAGE"} /\ GotUnit) => id = First.id
At(id, i) == NextAfter(id, i) /\ Reads(id) /\ (Broken(id) \/ Aligned(id, i))
RecvOk == ended = "open" /\ VecCount > 0 =>
    \E id \in Messages : \E i \in Nat : At(id, i)

(* What has been handed on was posted, and a misread header stays.         *)
HandedOk == \A j \in DOMAIN handed : handed[j].id \in DOMAIN posted
MisreadOk == ended = "misread" => GotUnit
Results == HandedOk /\ Intact /\ MisreadOk /\ BoundariesKept
OrderInv == StreamInv /\ SenderOrder /\ RecvOk /\ Results

LEMMA SenderOf ==
    ASSUME OrderInv
    PROVE  SenderInv /\ BaseInv /\ SendTyped /\ WireTyped /\ RecvTyped /\ WireOk
  BY TypeParts DEF OrderInv, StreamInv, BaseInv, UnitsInv, SenderInv, SenderOrder

LEMMA GotPosted ==
    ASSUME BaseInv, GotUnit
    PROVE  /\ mCurRecvBlock \in RecvVecs /\ mCurRecvBlock.got \in Seq(Units)
           /\ First \in Units /\ First.id \in DOMAIN posted /\ First.id \in Ids
  <1>1. RecvTyped /\ mCurRecvBlock # Nil /\ mCurRecvBlock.got # <<>>
    BY TypeParts DEF BaseInv, GotUnit
  <1>2. mCurRecvBlock \in RecvVecs
    BY <1>1 DEF RecvTyped
  <1>3. mCurRecvBlock.got \in Seq(Units)
    BY <1>2 DEF RecvVecs
  <1>4. PostedUnits(mCurRecvBlock.got)
    BY <1>1 DEF BaseInv, UnitsInv
  <1>5. 1 \in DOMAIN mCurRecvBlock.got /\ First \in Units
    <2> HIDE DEF Units
    <2> QED
      BY <1>1, <1>3 DEF First
  <1>6. First.id \in DOMAIN posted
    BY <1>4, <1>5 DEF PostedUnits, First
  <1> QED
    BY <1>2, <1>3, <1>5, <1>6 DEF Units

(* More messages and lost files change none of this.                       *)
LEMMA UpToKept ==
    ASSUME SendTyped, Grows, NEW n \in Int, n <= Len(posted),
           UNCHANGED <<handed, mSendEventMap>>
    PROVE  /\ HandedUpTo(n) => HandedUpTo(n)'
           /\ MapFrom(n) => MapFrom(n)'
  <1>1. Len(posted) \in Nat /\ DOMAIN posted = 1..Len(posted)
    BY ShapeTyped
  <1>2. \A m \in 1..n : posted'[m] = posted[m]
    BY <1>1 DEF Grows
  <1> QED
    BY <1>2 DEF HandedUpTo, MapFrom

LEMMA AlignedSent ==
    ASSUME OrderInv, Grows, UNCHANGED recvVars, NEW id \in Messages, NEW i \in Nat,
           Reads(id), Aligned(id, i)
    PROVE  Aligned(id, i)'
  <1>1. /\ SendTyped /\ Len(posted) \in Nat /\ DOMAIN posted = 1..Len(posted)
    BY SenderOf, ShapeTyped
  <1>2. /\ UNCHANGED <<mRecvQ, mCurRecvBlock, mNextRecvPart, cbp, data, handed,
                       mSendEventMap, ended>>
        /\ GotUnit' = GotUnit /\ First' = First /\ Got' = Got /\ Held' = Held
        /\ \A size : VecsAre(size)' <=> VecsAre(size)
    BY DEF recvVars, eventVars, GotUnit, First, Got, Held, VecsAre
  <1>3. id \in Nat /\ id <= Len(posted) /\ id - 1 \in Int /\ id - 1 <= Len(posted)
    BY <1>1 DEF Messages
  <1>4. /\ HandedUpTo(id) => HandedUpTo(id)'
        /\ MapFrom(id) => MapFrom(id)'
        /\ HandedUpTo(id - 1) => HandedUpTo(id - 1)'
        /\ MapFrom(id - 1) => MapFrom(id - 1)'
    BY <1>1, <1>2, <1>3, UpToKept
  <1>5. CASE id = 0
    <2>1. mNextRecvPart \notin {"MESSAGE", "DRAIN"}
      BY <1>5 DEF Aligned, AtMessage, AtDrain
    <2>2. mNextRecvPart \notin AttachParts
      <3>1. mNextRecvPart \in AttachParts => cbp.cev = 0
        BY <1>5 DEF Aligned, AtContent
      <3>2. 0 \notin DOMAIN posted /\ 0 # Nil
        BY <1>1, StreamAssumption
      <3> QED
        BY <3>1, <3>2 DEF OrderInv, StreamInv, AnnouncedInv
    <2>3. mNextRecvPart = "HEADER" => AtHeader(id, i)'
      <3>0. HAVE mNextRecvPart = "HEADER"
      <3>1. AtHeader(id, i)
        BY <3>0 DEF Aligned
      <3>2. ~GotUnit
        <4>1. GotUnit => First.id \in DOMAIN posted
          BY SenderOf, GotPosted
        <4>2. GotUnit => First.id = 0
          BY <1>5, <3>0 DEF Reads
        <4>3. 0 \notin DOMAIN posted
          BY <1>1
        <4> QED
          BY <4>1, <4>2, <4>3
      <3> QED
        BY <1>2, <1>4, <1>5, <3>1, <3>2 DEF AtHeader, UpTo
    <2> QED
      BY <1>2, <2>1, <2>2, <2>3 DEF Aligned
  <1>6. CASE id # 0
    <2>1. id \in DOMAIN posted /\ posted'[id] = posted[id] /\ Size(id)' = Size(id)
          /\ \A j : UnitAt(id, j)' = UnitAt(id, j)
      BY <1>6, UnitKept DEF Messages, Grows
    <2>2. EndsEarly(id)' <=> EndsEarly(id)
      BY <2>1 DEF EndsEarly
    <2>3. mNextRecvPart = "HEADER" => AtHeader(id, i)'
      BY <1>2, <1>4, <2>1, <2>2 DEF Aligned, AtHeader, UpTo
    <2>4. mNextRecvPart = "MESSAGE" => AtMessage(id, i)'
      BY <1>2, <1>4, <2>1 DEF Aligned, AtMessage, UpTo
    <2>5. mNextRecvPart \in AttachParts => AtContent(id, i)'
      BY <1>2, <1>4, <2>1 DEF Aligned, AtContent
    <2>6. mNextRecvPart = "DRAIN" => AtDrain(id, i)'
      BY <1>2, <1>4, <2>1 DEF Aligned, AtDrain, UpTo
    <2> QED
      BY <1>2, <2>3, <2>4, <2>5, <2>6 DEF Aligned
  <1> QED
    BY <1>5, <1>6

(* What has been handed on, and where a header was misread, is kept by a   *)
(* step that hands nothing on and misreads nothing.                        *)
LEMMA IntactKept ==
    ASSUME OrderInv, Grows, handed' = handed
    PROVE  HandedOk' /\ Intact'
  <1>1. SendTyped /\ Len(posted) \in Nat /\ DOMAIN posted = 1..Len(posted)
    BY SenderOf, ShapeTyped
  <1>2. HandedOk'
    BY DEF OrderInv, Results, HandedOk, Grows
  <1>3. ASSUME NEW n \in DOMAIN handed, NEW h, h = handed[n],
               \A t \in truncated' : t > h.id
        PROVE  /\ h.data = Content(h.id, posted'[h.id])
               /\ \A j \in 1..n - 1 : handed[j].id < h.id
               /\ \A id \in 1..h.id : posted'[id].kind \in {"request", "response"}
                                        => \E j \in 1..n : handed[j].id = id
    <2>1. h.id \in DOMAIN posted
      BY <1>3 DEF OrderInv, Results, HandedOk
    <2>2. \A id \in 1..h.id : posted'[id] = posted[id]
      BY <1>1, <2>1 DEF Grows
    <2>3. posted'[h.id] = posted[h.id]
      BY <2>1 DEF Grows
    <2>4. \A t \in truncated : t > h.id
      BY <1>3 DEF Grows
    <2>5. /\ h.data = Content(h.id, posted[h.id])
          /\ \A j \in 1..n - 1 : handed[j].id < h.id
          /\ \A id \in 1..h.id : posted[id].kind \in {"request", "response"}
                                   => \E j \in 1..n : handed[j].id = id
      BY <1>3, <2>4 DEF OrderInv, Results, Intact
    <2> QED
      BY <2>2, <2>3, <2>5
  <1>4. Intact'
    BY <1>3 DEF Intact
  <1> QED
    BY <1>2, <1>4

LEMMA MisreadKept ==
    ASSUME OrderInv, Grows, UNCHANGED <<mCurRecvBlock, ended>>
    PROVE  MisreadOk' /\ BoundariesKept'
  <1>1. GotUnit' = GotUnit /\ First' = First
    BY DEF GotUnit, First
  <1>2. MisreadOk'
    BY <1>1 DEF OrderInv, Results, MisreadOk
  <1>3. BoundariesKept'
    <2> SUFFICES ASSUME ended = "misread"
                 PROVE  \E id \in 1..First.id : (id \in truncated \/ EndsEarly(id))'
      BY <1>1 DEF BoundariesKept
    <2>1. First.id \in DOMAIN posted
      BY SenderOf, GotPosted DEF OrderInv, Results, MisreadOk
    <2>2. PICK id \in 1..First.id : id \in truncated \/ EndsEarly(id)
      BY DEF OrderInv, Results, BoundariesKept
    <2>3. posted'[id] = posted[id] /\ truncated \subseteq truncated'
      <3>1. DOMAIN posted = 1..Len(posted) /\ Len(posted) \in Nat
        BY SenderOf, ShapeTyped
      <3> QED
        BY <2>1, <3>1 DEF Grows
    <2> QED
      BY <2>2, <2>3 DEF EndsEarly
  <1> QED
    BY <1>2, <1>3

LEMMA OrderSender ==
    ASSUME OrderInv, SenderStep
    PROVE  SenderOrder' /\ RecvOk' /\ Results'
  <1>1. SenderOrder' /\ NextKeeps /\ Grows
    BY SenderOf, OrderSent
  <1>2. UNCHANGED recvVars
    BY SenderFrame
  <1>3. Results'
    BY <1>1, <1>2, IntactKept, MisreadKept DEF Results, recvVars, eventVars
  <1>4. RecvOk'
    <2>1. /\ VecCount' = VecCount /\ GotUnit' = GotUnit /\ First' = First
          /\ UNCHANGED <<ended, cbp, mNextRecvPart>>
      BY <1>2 DEF recvVars, VecCount, GotUnit, First
    <2> SUFFICES ASSUME ended = "open", VecCount > 0
                 PROVE  \E id \in Messages' : \E i \in Nat : At(id, i)'
      BY <2>1 DEF RecvOk
    <2>2. PICK id \in Messages, i \in Nat : At(id, i)
      BY DEF OrderInv, RecvOk
    <2>3. NextAfter(id, i)'
      BY <1>1, <2>2 DEF NextKeeps, At
    <2>4. Reads(id) /\ Reads(id)'
      BY <2>1, <2>2 DEF At, Reads
    <2>5. Broken(id) => Broken(id)'
      BY <1>1, <2>1 DEF Grows, Broken, Lost
    <2>6. Aligned(id, i) => Aligned(id, i)'
      BY <1>1, <1>2, <2>4, AlignedSent
    <2>7. id \in Messages'
      BY <1>1 DEF Grows, Messages
    <2> QED
      BY <2>2, <2>3, <2>4, <2>5, <2>6, <2>7 DEF At
  <1> QED
    BY <1>1, <1>3, <1>4

-----------------------------------------------------------------------------
(* What is read: the units that follow the place.                          *)
Linked == \A k \in 1..Len(wire) :
              k < Len(wire) => Follows(wire[k].id, Place(wire[k]), wire[k + 1])

LEMMA RunOf ==
    ASSUME SendTyped, Linked, NEW id \in DOMAIN posted, NEW i \in Nat, id \notin truncated,
           NEW k \in Nat, k <= Len(wire), Len(wire) \in Nat, i + k <= Size(id),
           Follows(id, i, wire[1])
    PROVE  \A n \in 1..k : wire[n] = UnitAt(id, i + n)
  <1>1. /\ Size(id) \in Nat /\ id # 0
    BY SizeOf
  <1>2. ASSUME NEW j \in Nat, j < Size(id), NEW v, Follows(id, j, v)
        PROVE  v = UnitAt(id, j + 1)
    BY <1>1, <1>2 DEF Follows, Full
  <1> DEFINE P == {n \in Nat : n + 1 <= k => wire[n + 1] = UnitAt(id, i + (n + 1))}
  <1>3. 0 \in P
    <2>1. ASSUME 0 + 1 <= k PROVE wire[0 + 1] = UnitAt(id, i + (0 + 1))
      <3>1. i < Size(id) /\ 0 + 1 = 1 /\ i + (0 + 1) = i + 1
        BY <1>1, <2>1
      <3>2. wire[1] = UnitAt(id, i + 1)
        BY <1>2, <3>1
      <3> QED
        BY <3>1, <3>2
    <2> QED
      BY <2>1
  <1>4. ASSUME NEW n \in Nat, n \in P PROVE n + 1 \in P
    <2> SUFFICES ASSUME (n + 1) + 1 <= k
                 PROVE  wire[(n + 1) + 1] = UnitAt(id, i + ((n + 1) + 1))
      OBVIOUS
    <2>1. PICK a, p : a = n + 1 /\ p = i + a
      OBVIOUS
    <2>2. a \in 1..Len(wire) /\ a < Len(wire) /\ p \in 1..Size(id) /\ p < Size(id) /\ p \in Nat
      BY <1>1, <2>1
    <2>3. wire[a] = UnitAt(id, p)
      BY <1>4, <2>1
    <2>4. wire[a].id = id /\ Place(wire[a]) = p
      BY <2>2, <2>3, PlaceOf
    <2>5. Follows(id, p, wire[a + 1])
      BY <2>2, <2>4 DEF Linked
    <2>6. wire[a + 1] = UnitAt(id, p + 1)
      BY <1>2, <2>2, <2>5
    <2>7. p + 1 = i + ((n + 1) + 1)
      BY <2>1
    <2> QED
      BY <2>1, <2>6, <2>7
  <1>5. Nat \subseteq P
    <2> HIDE DEF P
    <2> QED
      BY <1>3, <1>4, InductiveSet
  <1>6. ASSUME NEW n \in 1..k PROVE wire[n] = UnitAt(id, i + n)
    <2>1. n - 1 \in Nat /\ (n - 1) + 1 = n /\ n <= k
      BY <1>6
    <2>2. n - 1 \in P
      BY <1>5, <2>1
    <2>3. wire[(n - 1) + 1] = UnitAt(id, i + ((n - 1) + 1))
      BY <2>1, <2>2
    <2> QED
      BY <2>1, <2>3
  <1> QED
    BY <1>6

(* The messages on the wire are in order.                                  *)
LEMMA IdsGrow ==
    ASSUME SendTyped, WireTyped, PostedUnits(wire), Linked, NEW id \in Messages, NEW i \in Nat,
           wire # <<>>, Follows(id, i, wire[1])
    PROVE  \A n \in 1..Len(wire) : wire[n].id >= id
  <1>1. \A n \in 1..Len(wire) : /\ wire[n].id \in DOMAIN posted /\ wire[n].id \in Messages
                                /\ Place(wire[n]) \in Nat
    BY WirePlaces
  <1>2. Len(wire) \in Nat /\ 1 \in 1..Len(wire)
    BY WireLast
  <1>3. DOMAIN posted \subseteq Nat /\ id \in Nat
    BY ShapeTyped DEF Ids, Messages
  <1> DEFINE P == {n \in Nat : n + 1 <= Len(wire) => wire[n + 1].id >= id}
  <1>4. 0 \in P
    <2>1. wire[1].id >= id
      BY <1>1, <1>2, FollowsIs
    <2> QED
      BY <2>1
  <1>5. ASSUME NEW n \in Nat, n \in P PROVE n + 1 \in P
    <2> SUFFICES ASSUME (n + 1) + 1 <= Len(wire) PROVE wire[(n + 1) + 1].id >= id
      OBVIOUS
    <2>1. PICK a, u, v : a = n + 1 /\ u = wire[a] /\ v = wire[a + 1]
      OBVIOUS
    <2>2. a \in 1..Len(wire) /\ a < Len(wire) /\ a + 1 \in 1..Len(wire)
      BY <1>2, <2>1
    <2>3. Follows(u.id, Place(u), v)
      BY <2>1, <2>2 DEF Linked
    <2>4. u.id \in Messages /\ Place(u) \in Nat /\ v.id \in DOMAIN posted
      BY <1>1, <2>1, <2>2
    <2>5. v.id >= u.id
      BY <2>3, <2>4, FollowsIs
    <2>6. u.id >= id
      BY <1>5, <2>1, <2>2
    <2>7. v.id \in Nat /\ u.id \in Nat
      BY <1>1, <1>3, <2>1, <2>2
    <2> QED
      BY <1>3, <2>1, <2>5, <2>6, <2>7
  <1>6. Nat \subseteq P
    <2> HIDE DEF P
    <2> QED
      BY <1>4, <1>5, InductiveSet
  <1>7. ASSUME NEW n \in 1..Len(wire) PROVE wire[n].id >= id
    <2>1. n - 1 \in P /\ (n - 1) + 1 = n
      BY <1>2, <1>6, <1>7
    <2> QED
      BY <1>2, <2>1
  <1> QED
    BY <1>7

LEMMA HeldTyped ==
    ASSUME RecvTyped
    PROVE  /\ Got \in Seq(Units) /\ data \in Seq(Units) /\ Held \in Seq(Units)
           /\ Len(Held) = Len(data) + Len(Got) /\ Len(Got) \in Nat /\ Len(data) \in Nat
  <1>1. Got \in Seq(Units)
    <2>1. mCurRecvBlock # Nil => mCurRecvBlock.got \in Seq(Units)
      BY DEF RecvTyped, RecvVecs
    <2>2. <<>> \in Seq(Units)
      OBVIOUS
    <2> QED
      BY <2>1, <2>2 DEF Got
  <1>2. data \in Seq(Units)
    BY DEF RecvTyped
  <1> HIDE DEF Units
  <1> QED
    BY <1>1, <1>2 DEF Held

(* Reading adds the first units of the wire to what is held.               *)
LEMMA ReadHeld ==
    ASSUME BaseInv, NEW k \in 1..WireMax, RecvVec(k)
    PROVE  /\ k \in 1..Len(wire) /\ Len(wire) \in Nat /\ ended = "open"
           /\ mCurRecvBlock # Nil /\ mCurRecvBlock' # Nil /\ GotUnit'
           /\ wire' = SubSeq(wire, k + 1, Len(wire))
           /\ Len(Got) \in Nat /\ Len(data) \in Nat
           /\ Got = mCurRecvBlock.got /\ Len(Got) + k <= mCurRecvBlock.size
           /\ mCurRecvBlock.size \in Nat /\ mCurRecvBlock'.size = mCurRecvBlock.size
           /\ Len(Got') = Len(Got) + k
           /\ Len(Got) = 0 => ~GotUnit /\ First' = wire[1]
           /\ Len(Held) = Len(data) + Len(Got) /\ Len(Held') = Len(Held) + k
           /\ \A n \in 1..Len(Held) : Held'[n] = Held[n]
           /\ \A n \in 1..k : Held'[Len(Held) + n] = wire[n]
           /\ UNCHANGED <<sendVars, mRecvQ, mNextRecvPart, cbp, data, buffers,
                          eventVars, ended>>
  <1>1. /\ WireTyped /\ RecvTyped
    BY TypeParts DEF BaseInv
  <1>2. PICK q, g : q = SubSeq(wire, 1, k) /\ g = mCurRecvBlock.got
    OBVIOUS
  <1>3. /\ ended = "open" /\ mCurRecvBlock \in RecvVecs
        /\ k \in Nat \ {0} /\ k <= Len(wire)
        /\ g \in Seq(Units)
        /\ k <= mCurRecvBlock.size - Len(g)
        /\ mCurRecvBlock' # Nil /\ mCurRecvBlock'.got = g \o q
        /\ mCurRecvBlock'.size = mCurRecvBlock.size
        /\ wire \in Seq(Units) /\ wire' = SubSeq(wire, k + 1, Len(wire))
        /\ UNCHANGED <<sendVars, mRecvQ, mNextRecvPart, cbp, data, buffers,
                       eventVars, ended>>
    BY <1>2, ReadOut
  <1>4. mCurRecvBlock # Nil
    BY DEF RecvVec
  <1>5. mCurRecvBlock.size \in Nat
    BY <1>3 DEF RecvVecs
  <1>6. Got = g /\ Got' = g \o q
    BY <1>2, <1>3, <1>4 DEF Got
  <1>7. /\ Got \in Seq(Units) /\ data \in Seq(Units) /\ Held \in Seq(Units)
        /\ Len(Held) = Len(data) + Len(Got) /\ Len(Got) \in Nat /\ Len(data) \in Nat
    BY <1>1, HeldTyped
  <1>8. q \in Seq(Units) /\ Len(q) = k /\ \A i \in 1..k : q[i] = wire[i]
    <2>1. wire \in Seq(Units)
      BY <1>3
    <2>2. k \in Nat
      BY <1>3
    <2> QED
      BY <1>2, <1>3, <2>1, <2>2, CutSeq
  <1> HIDE DEF Units
  <1>9. PICK h : h = g \o q
    OBVIOUS
  <1>10. /\ h \in Seq(Units) /\ Len(h) = Len(g) + k
         /\ \A i \in 1..Len(g) : h[i] = g[i]
         /\ \A i \in 1..k : h[Len(g) + i] = q[i]
    <2>1. g \in Seq(Units)
      BY <1>3
    <2>2. q \in Seq(Units)
      BY <1>8
    <2>3. /\ h \in Seq(Units) /\ Len(h) = Len(g) + Len(q)
          /\ \A i \in 1..Len(g) : h[i] = g[i]
          /\ \A i \in 1..Len(q) : h[Len(g) + i] = q[i]
      BY <1>9, <2>1, <2>2, ConcatOf
    <2> QED
      BY <1>8, <2>3
  <1>11. /\ data \o h \in Seq(Units) /\ Len(data \o h) = Len(data) + Len(h)
         /\ \A i \in 1..Len(data) : (data \o h)[i] = data[i]
         /\ \A i \in 1..Len(h) : (data \o h)[Len(data) + i] = h[i]
    <2>1. data \in Seq(Units)
      BY <1>7
    <2>2. h \in Seq(Units)
      BY <1>10
    <2> QED
      BY <2>1, <2>2, ConcatOf
  <1>12. /\ Len(data \o g) = Len(data) + Len(g)
         /\ \A i \in 1..Len(data) : (data \o g)[i] = data[i]
         /\ \A i \in 1..Len(g) : (data \o g)[Len(data) + i] = g[i]
    <2>1. data \in Seq(Units)
      BY <1>7
    <2>2. g \in Seq(Units)
      BY <1>3
    <2> QED
      BY <2>1, <2>2, ConcatOf
  <1>13. Held = data \o g /\ Held' = data \o h
    BY <1>3, <1>6, <1>9 DEF Held
  <1>14. Len(g) \in Nat /\ Len(wire) \in Nat
    BY <1>3
  <1>15. ASSUME NEW n \in 1..Len(Held) PROVE Held'[n] = Held[n]
    <2>1. CASE n <= Len(data)
      BY <1>7, <1>11, <1>12, <1>13, <1>15, <2>1
    <2>2. CASE ~(n <= Len(data))
      <3>1. PICK j : j = n - Len(data)
        OBVIOUS
      <3>2. j \in 1..Len(g) /\ j \in 1..Len(h) /\ n = Len(data) + j
        BY <1>3, <1>6, <1>7, <1>10, <1>14, <2>2, <3>1
      <3> QED
        BY <1>10, <1>11, <1>12, <1>13, <3>2
    <2> QED
      BY <2>1, <2>2
  <1>16. ASSUME NEW n \in 1..k PROVE Held'[Len(Held) + n] = wire[n]
    <2>1. PICK j : j = Len(g) + n
      OBVIOUS
    <2>2. j \in 1..Len(h) /\ Len(Held) + n = Len(data) + j
      BY <1>3, <1>6, <1>7, <1>10, <1>14, <2>1
    <2> QED
      BY <1>8, <1>10, <1>11, <1>13, <2>1, <2>2
  <1>17. GotUnit'
    <2>1. Len(h) # 0 /\ Len(<<>>) = 0
      BY <1>3, <1>10, <1>14
    <2>2. h # <<>>
      BY <2>1
    <2> QED
      BY <1>3, <1>9, <2>2 DEF GotUnit
  <1>18. Len(Got) = 0 => ~GotUnit /\ First' = wire[1]
    <2> HAVE Len(Got) = 0
    <2>1. g = <<>> /\ 1 \in 1..k /\ Len(g) + 1 = 1
      BY <1>3, <1>6
    <2>2. h[1] = wire[1]
      BY <1>8, <1>10, <2>1
    <2>3. ~GotUnit
      BY <1>2, <2>1 DEF GotUnit
    <2> QED
      BY <1>3, <1>9, <2>2, <2>3 DEF First
  <1>19. Len(Held') = Len(Held) + k /\ Len(Got') = Len(Got) + k
    BY <1>3, <1>6, <1>7, <1>9, <1>10, <1>11, <1>13, <1>14
  <1>20. k \in 1..Len(wire) /\ Len(Got) + k <= mCurRecvBlock.size
    BY <1>3, <1>5, <1>6, <1>14
  <1> QED
    BY <1>2, <1>3, <1>4, <1>5, <1>6, <1>7, <1>14, <1>15, <1>16, <1>17, <1>18, <1>19, <1>20

(* What is left on the wire is still linked, and follows the unit that was *)
(* read last.                                                              *)
LEMMA WireCut ==
    ASSUME SendTyped, WireTyped, WireOk, NEW k \in 1..Len(wire),
           wire' = SubSeq(wire, k + 1, Len(wire)), UNCHANGED sendVars
    PROVE  /\ WireOk'
           /\ \A a, p : a = wire[k].id /\ p = Place(wire[k]) => NextAfter(a, p)'
  <1>1. PICK L, w : L = Len(wire) /\ w = SubSeq(wire, k + 1, Len(wire))
    OBVIOUS
  <1>2. L \in Nat /\ k \in Nat /\ k <= L /\ k # 0
    BY <1>1, ShapeOfWire
  <1>3. wire \in Seq(Units)
    BY DEF WireTyped
  <1>4. w \in Seq(Units) /\ Len(w) = L - k /\ \A i \in 1..L - k : w[i] = wire[k + i]
    BY <1>1, <1>2, <1>3, CutSeq
  <1>5. (w = <<>> <=> L = k) /\ wire # <<>>
    <2> HIDE DEF Units
    <2>1. Len(w) = L - k /\ w \in Seq(Units)
      BY <1>4
    <2>2. Len(<<>>) = 0
      OBVIOUS
    <2>3. L = k => w = <<>>
      <3>1. L = k => Len(w) = 0
        BY <1>2, <2>1
      <3> QED
        BY <2>1, <3>1
    <2>4. w = <<>> => L = k
      BY <1>2, <2>1, <2>2
    <2>5. wire # <<>>
      BY <1>1, <1>2, <2>2
    <2> QED
      BY <2>3, <2>4, <2>5
  <1>6. \A a, b : \A c : Follows(a, b, c)' <=> Follows(a, b, c)
    BY DEF Follows, Full, Size, UnitAt, sendVars
  <1>7. \A c : Place(c)' = Place(c)
    BY DEF Place, sendVars
  <1>8. \A a, b : SenderAfter(a, b)' <=> SenderAfter(a, b)
    BY DEF SenderAfter, Follows, Full, Size, UnitAt, LastOf, sendVars
  <1>9. /\ \A j \in 1..L : j < L => Follows(wire[j].id, Place(wire[j]), wire[j + 1])
        /\ SenderAfter(wire[L].id, Place(wire[L]))
    BY <1>1, <1>5 DEF WireOk
  <1>10. ASSUME NEW j \in 1..Len(w), j < Len(w), NEW u, u = w[j], NEW v, v = w[j + 1]
         PROVE  Follows(u.id, Place(u), v)
    <2>1. k + j \in 1..L /\ k + j < L /\ j \in 1..L - k /\ j + 1 \in 1..L - k
          /\ k + (j + 1) = (k + j) + 1
      <3>1. j \in Nat /\ 1 <= j /\ j < L - k
        <4>1. Len(w) = L - k
          BY <1>4
        <4> QED
          BY <1>2, <1>10, <4>1
      <3> QED
        BY <1>2, <3>1
    <2>2. u = wire[k + j] /\ v = wire[(k + j) + 1]
      BY <1>4, <1>10, <2>1
    <2> QED
      BY <1>9, <2>1, <2>2
  <1>11. ASSUME w # <<>>, NEW u, u = w[Len(w)] PROVE SenderAfter(u.id, Place(u))
    <2>1. L - k \in 1..L - k /\ k + (L - k) = L
      BY <1>2, <1>5, <1>11
    <2> QED
      BY <1>4, <1>9, <1>11, <2>1
  <1>12. WireOk'
    <2>1. ASSUME NEW j \in 1..Len(wire'), j < Len(wire')
          PROVE  Follows(wire[j].id, Place(wire[j]), wire[j + 1])'
      <3>1. PICK u, v : u = wire'[j] /\ v = wire'[j + 1]
        OBVIOUS
      <3>2. Follows(u.id, Place(u), v)
        BY <1>1, <1>10, <2>1, <3>1
      <3> QED
        BY <1>6, <1>7, <3>1, <3>2
    <2>2. ASSUME wire' # <<>>
          PROVE  SenderAfter(wire[Len(wire)].id, Place(wire[Len(wire)]))'
      <3>1. PICK u : u = wire'[Len(wire')]
        OBVIOUS
      <3>2. SenderAfter(u.id, Place(u))
        BY <1>1, <1>11, <2>2, <3>1
      <3> QED
        BY <1>7, <1>8, <3>1, <3>2
    <2> QED
      BY <2>1, <2>2 DEF WireOk
  <1>13. ASSUME NEW a, NEW p, a = wire[k].id, p = Place(wire[k]) PROVE NextAfter(a, p)'
    <2>1. CASE w = <<>>
      <3>1. SenderAfter(a, p)
        BY <1>5, <1>9, <1>13, <2>1
      <3> QED
        BY <1>1, <1>8, <2>1, <3>1 DEF NextAfter
    <2>2. CASE w # <<>>
      <3>1. 1 \in 1..L - k /\ k < L /\ k \in 1..L
        BY <1>2, <1>5, <2>2
      <3>2. PICK v : v = w[1]
        OBVIOUS
      <3>3. Follows(a, p, v)
        BY <1>4, <1>9, <1>13, <3>1, <3>2
      <3> QED
        BY <1>1, <1>6, <2>2, <3>2, <3>3 DEF NextAfter
    <2> QED
      BY <2>1, <2>2
  <1> QED
    BY <1>12, <1>13

(* What a step that leaves the sender's and the events' variables alone    *)
(* does not change.                                                        *)
LEMMA SameStream ==
    ASSUME UNCHANGED <<posted, truncated, mSendEventMap, handed>>
    PROVE  /\ \A id, j : UnitAt(id, j)' = UnitAt(id, j)
           /\ \A id : Size(id)' = Size(id) /\ (EndsEarly(id)' <=> EndsEarly(id))
           /\ \A id : (HandedUpTo(id)' <=> HandedUpTo(id)) /\ (MapFrom(id)' <=> MapFrom(id))
           /\ \A id : (UpTo(id)' <=> UpTo(id)) /\ (Lost(id)' <=> Lost(id))
  BY DEF UnitAt, Size, EndsEarly, DrainLen, HandedUpTo, MapFrom, UpTo, Lost

(* Reading keeps the receiver at its place: a header,                      *)
LEMMA ReadHeader ==
    ASSUME OrderInv, NEW k \in 1..WireMax, RecvVec(k), mNextRecvPart = "HEADER",
           NEW id \in Messages, NEW i \in Nat, AtHeader(id, i), Follows(id, i, wire[1]),
           NEW a, NEW p, a = wire[k].id, p = Place(wire[k])
    PROVE  AtHeader(a, p)'
  <1>1. /\ k \in 1..Len(wire) /\ ended = "open" /\ mCurRecvBlock # Nil /\ GotUnit'
        /\ Len(Got) \in Nat /\ Len(Got) + k <= mCurRecvBlock.size
        /\ Len(Got) = 0 => ~GotUnit /\ First' = wire[1]
        /\ UNCHANGED <<sendVars, eventVars>>
    BY SenderOf, ReadHeld
  <1>2. mCurRecvBlock.size = 1
    BY <1>1, SenderOf DEF BaseInv, VectorsInv, Sized
  <1>3. k = 1 /\ Len(Got) = 0
    BY <1>1, <1>2
  <1>4. PICK u : u = wire[1]
    OBVIOUS
  <1>5. ~GotUnit /\ First' = u /\ a = u.id /\ p = Place(u)
    BY <1>1, <1>3, <1>4
  <1>6. u.id \in DOMAIN posted /\ u.id \in Nat /\ SendTyped
    BY <1>1, <1>3, <1>4, SenderOf, WirePlaces, ShapeTyped DEF SenderInv, Ids
  <1>7. /\ u.id >= id /\ id \in Nat
        /\ p \in 1..Size(a) /\ u = UnitAt(a, p)
        /\ \/ id # 0 /\ a = id /\ p = i + 1 /\ i < Size(id)
           \/ a = id + 1 /\ p = 1 /\ Full(id, i)
    BY <1>4, <1>5, <1>6, FollowsIs
  <1>8. /\ \A j : UnitAt(a, j)' = UnitAt(a, j)
        /\ (EndsEarly(a)' <=> EndsEarly(a))
        /\ UpTo(a - 1)' <=> UpTo(a - 1)
    BY <1>1, SameStream DEF sendVars, eventVars
  <1>9. /\ UpTo(id)
        /\ id = 0 \/ i = Size(id) \/ (EndsEarly(id) /\ 1 <= i /\ i < Size(id))
    BY <1>5 DEF AtHeader
  <1>10. u.part = "header" <=> p = 1
    BY <1>5, <1>6, <1>7, PlaceOf
  <1>11. CASE id # 0 /\ a = id /\ p = i + 1 /\ i < Size(id)
    <2>1. EndsEarly(a) /\ p # 1
      BY <1>9, <1>11
    <2> QED
      BY <1>1, <1>5, <1>8, <1>10, <2>1 DEF AtHeader
  <1>12. CASE a = id + 1 /\ p = 1 /\ Full(id, i)
    <2>1. u.part = "header" /\ u = UnitAt(a, 1) /\ a - 1 = id
      BY <1>7, <1>10, <1>12
    <2>2. UpTo(a - 1)'
      BY <1>8, <1>9, <2>1
    <2> QED
      BY <1>1, <1>5, <1>8, <1>12, <2>1, <2>2 DEF AtHeader
  <1> QED
    BY <1>7, <1>11, <1>12

(* a message,                                                              *)
LEMMA ReadMessage ==
    ASSUME OrderInv, NEW k \in 1..WireMax, RecvVec(k), mNextRecvPart = "MESSAGE",
           NEW id \in Messages, NEW i \in Nat, AtMessage(id, i), Follows(id, i, wire[1]),
           NEW a, NEW p, a = wire[k].id, p = Place(wire[k])
    PROVE  AtMessage(a, p)'
  <1>1. /\ k \in 1..Len(wire) /\ ended = "open" /\ mCurRecvBlock # Nil
        /\ Len(Got) \in Nat /\ Len(Got) + k <= mCurRecvBlock.size
        /\ Len(Got') = Len(Got) + k
        /\ UNCHANGED <<sendVars, eventVars>>
    BY SenderOf, ReadHeld
  <1>2. mCurRecvBlock.size = 1
    BY <1>1, SenderOf DEF BaseInv, VectorsInv, Sized
  <1>3. k = 1 /\ Len(Got) = 0 /\ Len(Got') = 1
    BY <1>1, <1>2
  <1>4. id # 0 /\ i = 1 /\ UpTo(id - 1) /\ posted[id].kind # "alien"
    BY <1>3 DEF AtMessage
  <1>5. SendTyped /\ id \in DOMAIN posted
    BY <1>4, SenderOf DEF Messages
  <1>6. Size(id) \in Nat /\ Size(id) >= 2 + posted[id].att /\ posted[id].att \in Nat
    BY <1>5, SizeOf
  <1>7. wire[1] = UnitAt(id, 1 + 1) /\ 2 \in 1..Size(id)
    BY <1>4, <1>6 DEF Follows, Full
  <1>8. a = id /\ p = 2
    <2>1. wire[1] = UnitAt(id, 2)
      BY <1>7
    <2> QED
      BY <1>3, <1>5, <1>7, <2>1, PlaceOf
  <1>9. UpTo(id - 1)'
    BY <1>1, <1>4, SameStream DEF sendVars, eventVars
  <1>10. posted' = posted
    BY <1>1 DEF sendVars
  <1> QED
    BY <1>3, <1>4, <1>8, <1>9, <1>10 DEF AtMessage

(* The units that are read of a message that is not the last to be lost.   *)
LEMMA ReadUnits ==
    ASSUME OrderInv, NEW k \in 1..WireMax, RecvVec(k),
           NEW id \in DOMAIN posted, NEW i \in Nat, id \notin truncated, i + k <= Size(id),
           Follows(id, i, wire[1])
    PROVE  /\ \A n \in 1..k : wire[n] = UnitAt(id, i + n)
           /\ wire[k].id = id /\ Place(wire[k]) = i + k
  <1>1. k \in 1..Len(wire) /\ Len(wire) \in Nat /\ k \in Nat /\ k # 0
    <2>1. k \in 1..Len(wire) /\ Len(wire) \in Nat
      BY SenderOf, ReadHeld
    <2> QED
      BY <2>1
  <1>2. SendTyped /\ Linked
    BY SenderOf DEF WireOk, Linked
  <1>3. \A n \in 1..k : wire[n] = UnitAt(id, i + n)
    BY <1>1, <1>2, RunOf
  <1>4. wire[k] = UnitAt(id, i + k)
    BY <1>1, <1>3
  <1>5. i + k \in 1..Size(id)
    BY <1>1, <1>2, SizeOf
  <1> QED
    BY <1>2, <1>3, <1>4, <1>5, PlaceOf

(* attachments and a file,                                                 *)
LEMMA ReadContent ==
    ASSUME OrderInv, NEW k \in 1..WireMax, RecvVec(k), mNextRecvPart \in AttachParts,
           NEW id \in Messages, NEW i \in Nat, AtContent(id, i), Follows(id, i, wire[1]),
           ~Broken(id), NEW a, NEW p, a = wire[k].id, p = Place(wire[k])
    PROVE  AtContent(a, p)'
  <1>1. /\ k \in 1..Len(wire) /\ Len(wire) \in Nat /\ ended = "open" /\ mCurRecvBlock # Nil
        /\ mCurRecvBlock' # Nil
        /\ Got = mCurRecvBlock.got /\ Len(data) \in Nat
        /\ Len(Got) \in Nat /\ Len(Got) + k <= mCurRecvBlock.size
        /\ mCurRecvBlock.size \in Nat /\ mCurRecvBlock'.size = mCurRecvBlock.size
        /\ Len(Held) = Len(data) + Len(Got) /\ Len(Held') = Len(Held) + k
        /\ \A n \in 1..Len(Held) : Held'[n] = Held[n]
        /\ \A n \in 1..k : Held'[Len(Held) + n] = wire[n]
        /\ UNCHANGED <<sendVars, mRecvQ, mNextRecvPart, cbp, data, eventVars>>
    BY SenderOf, ReadHeld
  <1>2. /\ id = cbp.cev /\ i = 2 + Len(Held) /\ posted[id].kind \in Usables
        /\ \A n \in 1..Len(Held) : Held[n] = UnitAt(id, 2 + n)
        /\ HandedUpTo(id - 1) /\ MapFrom(id)
        /\ mNextRecvPart = "ATTACHFILE" =>
             /\ Len(data) = posted[id].att /\ VecsAre(LeastOf(gMaxBlockSize, cbp.fileLen))
             /\ cbp.remainVecs = BlockCount(cbp.fileLen)
    BY DEF AtContent
  <1>3. /\ id \in DOMAIN posted /\ cbp.attLen = posted[id].att
        /\ cbp.fileLen = posted[id].file /\ id # Nil
    BY <1>1, <1>2 DEF OrderInv, StreamInv, AnnouncedInv
  <1>4. SendTyped /\ BaseInv /\ RecvTyped
    BY SenderOf
  <1>5. /\ Size(id) = 2 + posted[id].att + posted[id].file
        /\ posted[id].att \in Nat /\ posted[id].file \in Nat /\ id \in Nat
    BY <1>3, <1>4, SizeOf
  <1>6. id \notin truncated
    BY <1>2, <1>3, <1>5 DEF Broken, Lost
  <1>7. PICK d, g, c : d = Len(data) /\ g = Len(Got) /\ c = mCurRecvBlock.size
    OBVIOUS
  <1>8. /\ d \in Nat /\ g \in Nat /\ c \in Nat /\ k \in Nat /\ Len(Held) = d + g
         /\ g + k <= c /\ i = 2 + d + g /\ Len(Held') = d + g + k
    <2>1. d \in Nat /\ g \in Nat /\ c \in Nat /\ g + k <= c
      BY <1>1, <1>7
    <2>2. k \in Nat
      BY <1>1
    <2>3. Len(Held) = d + g /\ Len(Held') = Len(Held) + k
      BY <1>1, <1>7
    <2>4. i = 2 + Len(Held)
      BY <1>2
    <2> QED
      BY <2>1, <2>2, <2>3, <2>4
  <1>9. i + k <= Size(id)
    <2>1. CASE mNextRecvPart = "ATTACHMENT"
      <3>1. Len(data) + Room(SizesOf(Posted)) = cbp.attLen
        BY <1>1, <1>4, <2>1 DEF BaseInv, VectorsInv, Sized
      <3>2. mCurRecvBlock.size <= Room(SizesOf(Posted)) /\ Room(SizesOf(Posted)) \in Nat
        <4>1. /\ Room(SizesOf(Posted)) = mCurRecvBlock.size + Room(SizesOf(mRecvQ))
              /\ Room(SizesOf(mRecvQ)) \in Nat
          BY <1>1, <1>4, RoomPosted
        <4> QED
          BY <1>1, <4>1
      <3> QED
        <4>1. PICK r : r = Room(SizesOf(Posted))
          OBVIOUS
        <4>2. d + r = posted[id].att /\ c <= r /\ r \in Nat
          BY <1>3, <1>7, <3>1, <3>2, <4>1
        <4>3. PICK b, f, z : b = posted[id].att /\ f = posted[id].file /\ z = Size(id)
          OBVIOUS
        <4>4. b \in Nat /\ f \in Nat /\ z = 2 + b + f /\ d + r = b
          BY <1>5, <4>2, <4>3
        <4>5. d \in Nat /\ g \in Nat /\ k \in Nat /\ g + k <= r /\ i = 2 + d + g /\ r \in Nat
          BY <1>8, <4>2
        <4>6. d + (g + k) <= b
          BY <4>4, <4>5
        <4>7. i + k = 2 + (d + (g + k))
          BY <4>5
        <4>8. i + k <= z
          BY <4>4, <4>5, <4>6, <4>7
        <4> QED
          BY <4>3, <4>8
    <2>2. CASE mNextRecvPart = "ATTACHFILE"
      <3>1. mCurRecvBlock.size = LeastOf(gMaxBlockSize, cbp.fileLen)
        BY <1>1, <1>2, <2>2 DEF VecsAre
      <3>2. mCurRecvBlock.size <= posted[id].file
        BY <1>3, <1>5, <3>1, StreamAssumption, LeastNat
      <3>3. d = posted[id].att /\ c <= posted[id].file
        BY <1>2, <1>7, <2>2, <3>2
      <3>4. PICK e, f, z : e = posted[id].att /\ f = posted[id].file /\ z = Size(id)
        OBVIOUS
      <3>5. z = 2 + e + f /\ e \in Nat /\ f \in Nat /\ d = e /\ c <= f
        BY <1>5, <3>3, <3>4
      <3>6. i + k <= z
        BY <1>8, <3>5
      <3> QED
        BY <3>4, <3>6
    <2> QED
      BY <2>1, <2>2 DEF AttachParts
  <1>10. /\ \A n \in 1..k : wire[n] = UnitAt(id, i + n)
        /\ a = id /\ p = i + k
    BY <1>3, <1>6, <1>9, ReadUnits
  <1>11. ASSUME NEW n \in 1..Len(Held') PROVE Held'[n] = UnitAt(id, 2 + n)
    <2>1. CASE n <= Len(Held)
      <3>1. n \in 1..Len(Held)
        BY <1>1, <1>11, <2>1
      <3> QED
        BY <1>1, <1>2, <3>1
    <2>2. CASE ~(n <= Len(Held))
      <3>1. PICK j : j = n - Len(Held)
        OBVIOUS
      <3>2. j \in 1..k /\ n = Len(Held) + j /\ i + j = 2 + n
        BY <1>11, <1>8, <2>2, <3>1
      <3> QED
        BY <1>1, <1>10, <3>2
    <2> QED
      BY <2>1, <2>2
  <1>12. /\ \A j : UnitAt(id, j)' = UnitAt(id, j)
         /\ (HandedUpTo(id - 1)' <=> HandedUpTo(id - 1)) /\ (MapFrom(id)' <=> MapFrom(id))
    BY <1>1, SameStream DEF sendVars, eventVars
  <1>13. VecsAre(LeastOf(gMaxBlockSize, cbp.fileLen))
           => VecsAre(LeastOf(gMaxBlockSize, cbp.fileLen))'
    BY <1>1 DEF VecsAre
  <1>14. p = 2 + Len(Held')
    BY <1>1, <1>2, <1>10
  <1>15. posted' = posted
    BY <1>1 DEF sendVars
  <1> QED
    BY <1>1, <1>2, <1>10, <1>11, <1>12, <1>13, <1>14, <1>15 DEF AtContent

(* The vectors of a drain: together they have its length, except that the  *)
(* last one is missing when the length is a multiple of the block.         *)
LEMMA Times ==
    ASSUME NEW a \in Int, NEW g \in Nat, g > 0
    PROVE  /\ a * g \in Int /\ a >= 0 => a * g >= 0
           /\ (a + 1) * g = a * g + g
           /\ a > 0 => a * g >= g
           /\ a > 1 => a * g > g
           /\ a < 0 => a * g <= 0 - g
  <1>1. /\ a * g \in Int
        /\ (a + 1) * g = a * g + g
        /\ (a - 1) * g = a * g - g
        /\ (a - 2) * g = a * g - (2 * g)
    OBVIOUS
  <1>2. ASSUME NEW x \in Nat PROVE x * g >= 0 /\ x * g \in Int
    OBVIOUS
  <1>3. a >= 0 => a * g >= 0
    BY <1>2
  <1>4. a > 0 => (a - 1) * g >= 0
    BY <1>2
  <1>5. a > 1 => (a - 2) * g >= 0
    BY <1>2
  <1>6. a < 0 => ((0 - a) - 1) * g >= 0 /\ ((0 - a) - 1) * g = (0 - (a * g)) - g
    <2>1. ((0 - a) - 1) * g = (0 - (a * g)) - g
      OBVIOUS
    <2>2. a < 0 => (0 - a) - 1 \in Nat
      OBVIOUS
    <2> QED
      BY <1>2, <2>1, <2>2
  <1> QED
    BY <1>1, <1>3, <1>4, <1>5, <1>6

LEMMA DrainedOf ==
    ASSUME NEW len \in Nat, len > 0, NEW left \in Nat, left > 0, left <= BlockCount(len)
    PROVE  /\ Drained(len, left) \in Nat /\ DrainVec(len, left) \in Nat
           /\ Drained(len, left) + DrainVec(len, left) <= len
           /\ left > 1 => /\ DrainVec(len, left) = gMaxBlockSize
                          /\ Drained(len, left - 1) = Drained(len, left) + gMaxBlockSize
           /\ left = 1 => \/ Drained(len, left) + DrainVec(len, left) = len
                          \/ /\ len > gMaxBlockSize /\ (len % gMaxBlockSize) = 0
                             /\ Drained(len, left) + DrainVec(len, left) < len
           /\ left = BlockCount(len) =>
                /\ Drained(len, left) = 0
                /\ DrainVec(len, left) = LeastOf(gMaxBlockSize, len)
  <1>1. PICK g, b, p, m : /\ g = gMaxBlockSize /\ b = BlockCount(len)
                          /\ p = (b - 1) * g /\ m = len % g
    OBVIOUS
  <1>2. g \in Nat /\ g > 0
    BY <1>1, StreamAssumption
  <1>3. b \in Nat /\ b > 0 /\ p < len /\ len <= p + g
    BY <1>1, BlockCountOf
  <1>4. p \in Nat /\ (b > 1 => p >= g) /\ (b = 1 => p = 0)
    <2>1. b - 1 \in Int
      BY <1>3
    <2>2. p >= 0 /\ p \in Int /\ (b - 1 > 0 => p >= g)
      BY <1>1, <1>2, <1>3, <2>1, Times
    <2>3. b = 1 => p = 0
      BY <1>1, <1>2
    <2> QED
      BY <1>3, <2>2, <2>3
  <1>5. m \in Nat /\ m < g /\ (m = len - p \/ (m = 0 /\ len = p + g))
    <2>1. PICK q : q = len \div g
      OBVIOUS
    <2>2. q \in Nat /\ m \in Nat /\ m < g /\ len = (g * q) + m
      BY <1>1, <1>2, <2>1
    <2>3. PICK d : d = q - (b - 1)
      OBVIOUS
    <2>4. d \in Int /\ g * q = d * g + p
      <3>1. d \in Int /\ q = d + (b - 1)
        BY <1>3, <2>2, <2>3
      <3>2. \A u, v, w \in Int : w * (u + v) = u * w + v * w
        OBVIOUS
      <3>3. b - 1 \in Int /\ g \in Int
        BY <1>2, <1>3
      <3>4. g * (d + (b - 1)) = d * g + (b - 1) * g
        BY <3>1, <3>2, <3>3
      <3> QED
        BY <1>1, <3>1, <3>4
    <2>5. PICK e : e = d * g
      OBVIOUS
    <2>6. /\ e \in Int /\ (d > 1 => e > g) /\ (d < 0 => e <= 0 - g)
          /\ (d = 0 => e = 0) /\ (d = 1 => e = g)
      BY <1>2, <2>4, <2>5, Times
    <2>7. e = (len - p) - m
      BY <1>2, <1>3, <1>4, <2>2, <2>4, <2>5, <2>6
    <2>8. d = 0 \/ d = 1
      BY <1>2, <1>3, <1>4, <2>2, <2>4, <2>6, <2>7
    <2> QED
      BY <1>2, <1>3, <1>4, <2>2, <2>6, <2>7, <2>8
  <1>6. PICK x, y : x = Drained(len, left) /\ y = DrainVec(len, left)
    OBVIOUS
  <1>7. x = (b - left) * g /\ b - left \in Int /\ b - left >= 0
    BY <1>1, <1>3, <1>6 DEF Drained
  <1>8. x \in Nat
    BY <1>2, <1>7, Times
  <1>9. y = IF b = 1 THEN len ELSE IF left > 1 THEN g ELSE m
    BY <1>1, <1>6 DEF DrainVec
  <1>10. y \in Nat
    BY <1>2, <1>5, <1>9
  <1>11. left = 1 => x = p
    BY <1>1, <1>7
  <1>12. left > 1 => x + g <= p
    <2> HAVE left > 1
    <2>1. PICK z : z = (left - 2) * g
      OBVIOUS
    <2>2. z >= 0 /\ z \in Int
      <3>1. left - 2 \in Int /\ left - 2 >= 0
        OBVIOUS
      <3> QED
        BY <1>2, <2>1, <3>1, Times
    <2>3. p = x + g + z
      <3>1. (b - 1) * g = ((b - left) * g + g) + ((left - 2) * g)
        BY <1>2, <1>3
      <3> QED
        BY <1>1, <1>7, <2>1, <3>1
    <2> QED
      BY <1>2, <1>4, <1>8, <2>2, <2>3
  <1>13. CASE left > 1
    <2>1. b # 1 /\ y = g /\ x + g <= p
      BY <1>1, <1>3, <1>9, <1>12, <1>13
    <2>2. x + y <= len
      BY <1>2, <1>3, <1>4, <1>8, <2>1
    <2>3. Drained(len, left - 1) = x + g
      <3>1. (b - (left - 1)) * g = (b - left) * g + g
        BY <1>2, <1>3
      <3> QED
        BY <1>1, <1>7, <3>1 DEF Drained
    <2>4. left = b => x = 0 /\ y = LeastOf(g, len)
      <3> HAVE left = b
      <3>1. x = 0
        BY <1>2, <1>7
      <3>2. g <= len
        BY <1>2, <1>3, <1>4, <1>13
      <3> QED
        BY <2>1, <3>1, <3>2 DEF LeastOf
    <2> QED
      BY <1>1, <1>6, <1>8, <1>10, <1>13, <2>1, <2>2, <2>3, <2>4
  <1>14. CASE left = 1
    <2>1. CASE b = 1
      <3>0. p = 0 /\ x = p /\ y = len
        BY <1>4, <1>9, <1>11, <1>14, <2>1
      <3>1. x = 0 /\ y = len /\ len <= g
        BY <1>2, <1>3, <3>0
      <3>2. y = LeastOf(g, len)
        BY <1>2, <3>1 DEF LeastOf
      <3>3. x + y = len
        BY <3>1
      <3>4. x + y <= len /\ ~(left > 1) /\ left = b
        BY <1>14, <2>1, <3>3
      <3> QED
        BY <1>1, <1>6, <1>8, <1>10, <1>14, <3>1, <3>2, <3>3, <3>4
    <2>2. CASE b # 1
      <3>1. x = p /\ y = m /\ b > 1 /\ p >= g
        BY <1>3, <1>4, <1>9, <1>11, <1>14, <2>2
      <3>2. x + y <= len /\ (x + y = len \/ (len > g /\ m = 0 /\ x + y < len))
        BY <1>2, <1>3, <1>4, <1>5, <3>1
      <3>3. ~(left > 1) /\ left # b
        BY <1>14, <2>2
      <3> QED
        BY <1>1, <1>6, <1>8, <1>10, <1>14, <2>2, <3>1, <3>2, <3>3
    <2> QED
      BY <2>1, <2>2
  <1> QED
    BY <1>13, <1>14

(* a drain.                                                                *)
LEMMA ReadDrain ==
    ASSUME OrderInv, NEW k \in 1..WireMax, RecvVec(k), mNextRecvPart = "DRAIN",
           NEW id \in Messages, NEW i \in Nat, AtDrain(id, i), Follows(id, i, wire[1]),
           ~Broken(id), NEW a, NEW p, a = wire[k].id, p = Place(wire[k])
    PROVE  AtDrain(a, p)'
  <1>1. /\ k \in 1..Len(wire) /\ Len(wire) \in Nat /\ ended = "open" /\ mCurRecvBlock # Nil
        /\ mCurRecvBlock' # Nil
        /\ Len(Got) \in Nat /\ Len(Got) + k <= mCurRecvBlock.size
        /\ mCurRecvBlock.size \in Nat /\ mCurRecvBlock'.size = mCurRecvBlock.size
        /\ Len(Got') = Len(Got) + k
        /\ UNCHANGED <<sendVars, mRecvQ, mNextRecvPart, cbp, data, eventVars>>
    BY SenderOf, ReadHeld
  <1>2. PICK len, left : len = cbp.drainLen /\ left = cbp.remainVecs
    OBVIOUS
  <1>3. /\ id # 0 /\ posted[id].kind \notin Usables /\ UpTo(id)
        /\ len = DrainLen(posted[id]) /\ len > 0 /\ left <= BlockCount(len)
        /\ i = Size(id) - len + Drained(len, left) + Len(Got)
        /\ VecsAre(DrainVec(len, left))
    BY <1>2 DEF AtDrain
  <1>4. SendTyped /\ BaseInv /\ RecvTyped /\ id \in DOMAIN posted
    BY <1>3, SenderOf DEF Messages
  <1>5. len \in Nat /\ left \in Nat /\ left > 0
    <2>1. len \in Nat /\ left \in Nat
      BY <1>2, <1>4, MoreTyped
    <2>2. left > 0
      BY <1>1, <1>2, <1>4 DEF BaseInv, VectorsInv, Counted
    <2> QED
      BY <2>1, <2>2
  <1>6. /\ Drained(len, left) \in Nat /\ DrainVec(len, left) \in Nat
        /\ Drained(len, left) + DrainVec(len, left) <= len
    BY <1>3, <1>5, DrainedOf
  <1>7. mCurRecvBlock.size = DrainVec(len, left)
    BY <1>1, <1>3 DEF VecsAre
  <1>8. Size(id) \in Nat
    BY <1>4, SizeOf
  <1>9. i + k <= Size(id)
    <2>1. PICK d, c, g, z : /\ d = Drained(len, left) /\ c = DrainVec(len, left)
                            /\ g = Len(Got) /\ z = Size(id)
      OBVIOUS
    <2>2. d \in Nat /\ c \in Nat /\ g \in Nat /\ z \in Nat /\ k \in Nat
      BY <1>1, <1>6, <1>8, <2>1
    <2>3. g + k <= c /\ d + c <= len /\ i = z - len + d + g
      BY <1>1, <1>3, <1>6, <1>7, <2>1
    <2>4. i + k <= z
      BY <1>5, <2>2, <2>3
    <2> QED
      BY <2>1, <2>4
  <1>10. id \notin truncated
    <2>1. cbp.cev = Nil
      BY <1>1 DEF OrderInv, StreamInv, AnnouncedInv, AttachParts
    <2>2. id \in Nat
      BY <1>4, SizeOf
    <2> QED
      BY <2>1, <2>2 DEF Broken, Lost
  <1>11. a = id /\ p = i + k
    BY <1>4, <1>9, <1>10, ReadUnits
  <1>12. p = Size(id) - len + Drained(len, left) + Len(Got')
    <2>1. PICK d, g, z : d = Drained(len, left) /\ g = Len(Got) /\ z = Size(id)
      OBVIOUS
    <2>2. d \in Nat /\ g \in Nat /\ z \in Nat /\ k \in Nat
      BY <1>1, <1>6, <1>8, <2>1
    <2>3. i = z - len + d + g /\ Len(Got') = g + k
      BY <1>1, <1>3, <2>1
    <2>4. p = z - len + d + (g + k)
      BY <1>5, <1>11, <2>2, <2>3
    <2> QED
      BY <2>1, <2>3, <2>4
  <1>13. VecsAre(DrainVec(len, left))'
    BY <1>1, <1>3 DEF VecsAre
  <1>14. UpTo(id)' /\ Size(id)' = Size(id)
    BY <1>1, <1>3, SameStream DEF sendVars, eventVars
  <1>15. posted' = posted /\ cbp' = cbp
    BY <1>1 DEF sendVars
  <1> QED
    BY <1>2, <1>3, <1>11, <1>12, <1>13, <1>14, <1>15 DEF AtDrain

LEMMA OrderRead ==
    ASSUME OrderInv, NEW k \in 1..WireMax, RecvVec(k)
    PROVE  SenderOrder' /\ RecvOk' /\ Results'
  <1>1. /\ k \in 1..Len(wire) /\ Len(wire) \in Nat /\ ended = "open" /\ mCurRecvBlock # Nil
        /\ mCurRecvBlock' # Nil /\ GotUnit'
        /\ wire' = SubSeq(wire, k + 1, Len(wire))
        /\ Len(Got) \in Nat /\ Len(Got) + k <= mCurRecvBlock.size
        /\ Len(Got) = 0 => ~GotUnit /\ First' = wire[1]
        /\ UNCHANGED <<sendVars, mRecvQ, mNextRecvPart, cbp, data, eventVars, ended>>
    BY SenderOf, ReadHeld
  <1>2. SendTyped /\ WireTyped /\ WireOk /\ BaseInv /\ SenderInv
    BY SenderOf
  <1>3. PICK a, p : a = wire[k].id /\ p = Place(wire[k])
    OBVIOUS
  <1>4. WireOk' /\ NextAfter(a, p)'
    BY <1>1, <1>2, <1>3, WireCut
  <1>5. SenderOrder'
    <2>0. UNCHANGED <<posted, mSendQ, sendFile, truncated, closed>>
      BY <1>1 DEF sendVars
    <2>1. QueueOk'
      <3>1. QueueOk
        BY DEF OrderInv, SenderOrder
      <3>2. \A b : BlockOk(b)' <=> BlockOk(b)
        BY <2>0 DEF BlockOk, LastOf, StartOf, UnitAt, MessageOf
      <3>3. \A b, c : Succeeds(b, c)' <=> Succeeds(b, c)
        BY <2>0 DEF Succeeds, Starts, Fresh, LastOf, StartOf
      <3> QED
        BY <2>0, <3>1, <3>2, <3>3 DEF QueueOk
    <2>2. FileOk'
      <3>1. FileOk
        BY DEF OrderInv, SenderOrder
      <3>2. \A f : FileOf(f)' <=> FileOf(f)
        BY <2>0 DEF FileOf, Starts, Fresh, LastOf, StartOf, UnitAt, MessageOf, Size
      <3> QED
        BY <2>0, <3>1, <3>2 DEF FileOk
    <2> QED
      BY <1>4, <2>1, <2>2 DEF SenderOrder
  <1>6. Results'
    <2>1. Grows
      BY <1>1 DEF Grows, sendVars
    <2>2. HandedOk' /\ Intact'
      BY <1>1, <2>1, IntactKept DEF eventVars
    <2> QED
      BY <1>1, <2>2 DEF Results, MisreadOk, BoundariesKept
  <1>7. RecvOk'
    <2>1. VecCount > 0
      <3>1. Len(mRecvQ) \in Nat
        BY SenderOf DEF RecvTyped
      <3> QED
        BY <1>1, <3>1 DEF VecCount
    <2>2. PICK id \in Messages, i \in Nat : At(id, i)
      BY <1>1, <2>1 DEF OrderInv, RecvOk
    <2>3. wire # <<>>
      <3>1. Len(<<>>) = 0
        OBVIOUS
      <3> QED
        BY <1>1, <3>1
    <2>4. Follows(id, i, wire[1])
      BY <2>2, <2>3 DEF At, NextAfter
    <2>5. a \in DOMAIN posted /\ a \in Messages /\ p \in Nat
      BY <1>1, <1>2, <1>3, WirePlaces DEF SenderInv
    <2>6. a >= id /\ a \in Nat /\ id \in Nat
      <3>1. a >= id
        BY <1>1, <1>2, <1>3, <2>3, <2>4, IdsGrow DEF SenderInv, WireOk, Linked
      <3> QED
        BY <1>2, <2>5, <3>1, ShapeTyped DEF Ids, Messages
    <2>7. Reads(a)'
      <3> SUFFICES ASSUME mNextRecvPart \in {"HEADER", "MESSAGE"} PROVE a = First'.id
        BY <1>1 DEF Reads
      <3>1. mCurRecvBlock.size = 1
        BY <1>1, <1>2 DEF BaseInv, VectorsInv, Sized
      <3>2. k = 1 /\ Len(Got) = 0
        BY <1>1, <3>1
      <3> QED
        BY <1>1, <1>3, <3>2
    <2>8. CASE Broken(id)
      <3>1. Lost(id)' /\ (cbp.cev # Nil => Lost(cbp.cev))
        BY <1>1, <2>8 DEF Broken, Lost, sendVars
      <3>2. Lost(a)
        <4>1. PICK t \in truncated : t <= id
          BY <2>8 DEF Broken, Lost
        <4>2. t \in Nat
          BY <1>2, <4>1 DEF SendTyped, Ids
        <4>3. t <= a
          BY <2>6, <4>1, <4>2
        <4> QED
          BY <4>1, <4>3 DEF Lost
      <3>3. Broken(a)'
        BY <1>1, <3>1, <3>2 DEF Broken, Lost, sendVars
      <3> QED
        BY <1>1, <1>4, <2>5, <2>7, <3>3 DEF RecvOk, At, Messages, sendVars
    <2>9. CASE ~Broken(id)
      <3>1. Aligned(id, i)
        BY <2>2, <2>9 DEF At
      <3>2. mNextRecvPart = "HEADER" => AtHeader(a, p)'
        BY <1>3, <2>4, <3>1, ReadHeader DEF Aligned
      <3>3. mNextRecvPart = "MESSAGE" => AtMessage(a, p)'
        BY <1>3, <2>4, <3>1, ReadMessage DEF Aligned
      <3>4. mNextRecvPart \in AttachParts => AtContent(a, p)'
        BY <1>3, <2>4, <2>9, <3>1, ReadContent DEF Aligned
      <3>5. mNextRecvPart = "DRAIN" => AtDrain(a, p)'
        BY <1>3, <2>4, <2>9, <3>1, ReadDrain DEF Aligned
      <3>6. Aligned(a, p)'
        BY <1>1, <3>2, <3>3, <3>4, <3>5 DEF Aligned
      <3> QED
        BY <1>1, <1>4, <2>5, <2>7, <3>6 DEF RecvOk, At, Messages, sendVars
    <2> QED
      BY <2>8, <2>9
  <1> QED
    BY <1>5, <1>6, <1>7

-----------------------------------------------------------------------------
(* The steps that leave the sender and the wire as they are.               *)
LEMMA SenderSame ==
    ASSUME OrderInv, UNCHANGED <<sendVars, wire>>
    PROVE  /\ SenderOrder' /\ Messages' = Messages /\ Grows
           /\ \A id, i : NextAfter(id, i)' <=> NextAfter(id, i)
           /\ \A id, j : UnitAt(id, j)' = UnitAt(id, j)
           /\ \A id : /\ Size(id)' = Size(id) /\ (EndsEarly(id)' <=> EndsEarly(id))
                      /\ (Lost(id)' <=> Lost(id))
  <1>0. UNCHANGED <<posted, mSendQ, sendFile, truncated, closed, wire>>
    BY DEF sendVars
  <1>1. QueueOk'
    <2>1. QueueOk
      BY DEF OrderInv, SenderOrder
    <2>2. \A b : BlockOk(b)' <=> BlockOk(b)
      BY <1>0 DEF BlockOk, LastOf, StartOf, UnitAt, MessageOf
    <2>3. \A b, c : Succeeds(b, c)' <=> Succeeds(b, c)
      BY <1>0 DEF Succeeds, Starts, Fresh, LastOf, StartOf
    <2> QED
      BY <1>0, <2>1, <2>2, <2>3 DEF QueueOk
  <1>2. FileOk'
    <2>1. FileOk
      BY DEF OrderInv, SenderOrder
    <2>2. \A f : FileOf(f)' <=> FileOf(f)
      BY <1>0 DEF FileOf, Starts, Fresh, LastOf, StartOf, UnitAt, MessageOf, Size
    <2> QED
      BY <1>0, <2>1, <2>2 DEF FileOk
  <1>3. /\ \A id, j : UnitAt(id, j)' = UnitAt(id, j)
        /\ \A id : Size(id)' = Size(id)
    BY <1>0 DEF UnitAt, Size, MessageOf
  <1>4. \A id, i, v : Follows(id, i, v)' <=> Follows(id, i, v)
    BY <1>0, <1>3 DEF Follows, Full
  <1>5. \A id, i : SenderAfter(id, i)' <=> SenderAfter(id, i)
    BY <1>0, <1>3, <1>4 DEF SenderAfter, Full, LastOf
  <1>6. \A id, i : NextAfter(id, i)' <=> NextAfter(id, i)
    BY <1>0, <1>4, <1>5 DEF NextAfter
  <1>7. WireOk'
    <2>1. WireOk
      BY DEF OrderInv, SenderOrder
    <2>2. \A u : Place(u)' = Place(u)
      BY <1>0 DEF Place
    <2> QED
      BY <1>0, <1>4, <1>5, <2>1, <2>2 DEF WireOk
  <1>8. Messages' = Messages /\ Grows
    BY <1>0 DEF Messages, Grows
  <1>9. \A id : (EndsEarly(id)' <=> EndsEarly(id)) /\ (Lost(id)' <=> Lost(id))
    BY <1>0 DEF EndsEarly, Lost
  <1> QED
    BY <1>1, <1>2, <1>3, <1>6, <1>7, <1>8, <1>9 DEF SenderOrder

(* A vector is taken from the queue.                                       *)
LEMMA OrderTake ==
    ASSUME OrderInv, TakeVec
    PROVE  SenderOrder' /\ RecvOk' /\ Results'
  <1>1. /\ ended = "open" /\ ended' = "open" /\ mCurRecvBlock = Nil
        /\ mCurRecvBlock' = mRecvQ[1] /\ mCurRecvBlock' # Nil /\ 1 \in DOMAIN mRecvQ
        /\ Len(mRecvQ') = Len(mRecvQ) - 1 /\ Len(mRecvQ) \in Nat
        /\ \A k \in DOMAIN mRecvQ' : k + 1 \in DOMAIN mRecvQ /\ mRecvQ'[k] = mRecvQ[k + 1]
        /\ UNCHANGED <<sendVars, wire, mNextRecvPart, cbp, data, buffers, eventVars, ended>>
    BY SenderOf, TakeOut
  <1>2. SenderOrder' /\ Grows
    BY <1>1, SenderSame
  <1>3. Results'
    BY <1>1, <1>2, IntactKept DEF Results, MisreadOk, BoundariesKept, eventVars
  <1>4. mCurRecvBlock'.got = <<>>
    BY <1>1, SenderOf DEF BaseInv, VectorsInv, Fitting
  <1>5. Got' = Got /\ Held' = Held /\ ~GotUnit /\ ~GotUnit'
    BY <1>1, <1>4 DEF Got, Held, GotUnit
  <1>6. \A size : VecsAre(size) => VecsAre(size)'
    BY <1>1 DEF VecsAre
  <1>7. VecCount > 0
    BY <1>1 DEF VecCount
  <1>8. PICK id \in Messages, i \in Nat : At(id, i)
    BY <1>1, <1>7 DEF OrderInv, RecvOk
  <1>9. /\ (HandedUpTo(id)' <=> HandedUpTo(id)) /\ (MapFrom(id)' <=> MapFrom(id))
        /\ (HandedUpTo(id - 1)' <=> HandedUpTo(id - 1))
        /\ (MapFrom(id - 1)' <=> MapFrom(id - 1))
    BY <1>1 DEF HandedUpTo, MapFrom, sendVars, eventVars
  <1>10. /\ posted' = posted /\ cbp' = cbp /\ data' = data /\ mNextRecvPart' = mNextRecvPart
         /\ Size(id)' = Size(id) /\ \A j : UnitAt(id, j)' = UnitAt(id, j)
         /\ (EndsEarly(id)' <=> EndsEarly(id))
    BY <1>1, SenderSame DEF sendVars
  <1>11. Aligned(id, i) => Aligned(id, i)'
    <2>1. AtHeader(id, i) => AtHeader(id, i)'
      BY <1>5, <1>9, <1>10 DEF AtHeader, UpTo
    <2>2. AtMessage(id, i) => AtMessage(id, i)'
      BY <1>5, <1>9, <1>10 DEF AtMessage, UpTo
    <2>3. AtContent(id, i) => AtContent(id, i)'
      BY <1>5, <1>6, <1>9, <1>10 DEF AtContent
    <2>4. AtDrain(id, i) => AtDrain(id, i)'
      BY <1>5, <1>6, <1>9, <1>10 DEF AtDrain, UpTo
    <2> QED
      BY <1>10, <2>1, <2>2, <2>3, <2>4 DEF Aligned
  <1>12. Broken(id)' <=> Broken(id)
    BY <1>1 DEF Broken, Lost, sendVars
  <1>13. At(id, i)' /\ id \in Messages'
    BY <1>1, <1>5, <1>8, <1>11, <1>12, SenderSame DEF At, Reads
  <1> QED
    BY <1>2, <1>3, <1>13 DEF RecvOk

(* The connection breaks, or is cleaned up.                                *)
LEMMA OrderEnds ==
    ASSUME OrderInv, RecvBroken \/ Cleanup
    PROVE  SenderOrder' /\ RecvOk' /\ Results'
  <1>1. /\ UNCHANGED <<sendVars, wire, handed>> /\ ended' \in {"broken", "cleaned"}
    BY DEF RecvBroken, Cleanup, NothingSent
  <1>2. SenderOrder' /\ Grows
    BY <1>1, SenderSame
  <1>3. HandedOk' /\ Intact'
    BY <1>1, <1>2, IntactKept
  <1> QED
    BY <1>1, <1>2, <1>3 DEF RecvOk, Results, MisreadOk, BoundariesKept

(* Before a callback the receiver is at a place, that of the unit it has   *)
(* read of a header or a message.                                          *)
LEMMA CallbackAt ==
    ASSUME OrderInv, ended = "open", Done
    PROVE  /\ mCurRecvBlock # Nil /\ Got = mCurRecvBlock.got
           /\ Len(Got) = mCurRecvBlock.size /\ mCurRecvBlock.size \in Nat
           /\ \E id \in Messages, i \in Nat :
                /\ NextAfter(id, i) /\ (Broken(id) \/ Aligned(id, i))
                /\ mNextRecvPart \in {"HEADER", "MESSAGE"} =>
                     GotUnit /\ Len(Got) = 1 /\ id = First.id /\ id \in DOMAIN posted
  <1>1. /\ mCurRecvBlock \in RecvVecs /\ Len(mCurRecvBlock.got) = mCurRecvBlock.size
        /\ VecCount = Len(mRecvQ) + 1 /\ Len(mRecvQ) \in Nat
    BY SenderOf, CurrentVec
  <1>2. mCurRecvBlock # Nil /\ Got = mCurRecvBlock.got /\ mCurRecvBlock.size \in Nat
    BY <1>1 DEF Done, Got, RecvVecs
  <1>3. PICK id \in Messages, i \in Nat : At(id, i)
    BY <1>1 DEF OrderInv, RecvOk
  <1>4. ASSUME mNextRecvPart \in {"HEADER", "MESSAGE"}
        PROVE  GotUnit /\ Len(Got) = 1 /\ id = First.id /\ id \in DOMAIN posted
    <2>1. mCurRecvBlock.got = <<First>> /\ First.id \in DOMAIN posted /\ mCurRecvBlock.size = 1
      BY <1>4, SenderOf, FirstUnit
    <2>2. GotUnit
      BY <1>2, <2>1 DEF GotUnit
    <2> QED
      BY <1>1, <1>2, <1>3, <1>4, <2>1, <2>2 DEF At, Reads
  <1> QED
    BY <1>1, <1>2, <1>3, <1>4 DEF At

(* After a callback it is at the same place.                               *)
LEMMA AfterCallback ==
    ASSUME OrderInv, UNCHANGED <<sendVars, wire>>, mCurRecvBlock' = Nil,
           NEW id \in Messages, NEW i \in Nat, NextAfter(id, i),
           Broken(id)' \/ Aligned(id, i)'
    PROVE  SenderOrder' /\ RecvOk'
  <1>1. SenderOrder' /\ NextAfter(id, i)' /\ id \in Messages'
    BY SenderSame
  <1>2. Reads(id)'
    BY DEF Reads, GotUnit
  <1> QED
    BY <1>1, <1>2 DEF RecvOk, At

(* A lost file stays lost.                                                 *)
LEMMA LostKept ==
    ASSUME OrderInv, ended = "open", Done, Outcome, UNCHANGED <<sendVars, wire>>,
           NEW id \in Messages, Broken(id), mNextRecvPart = "MESSAGE" => id = First.id
    PROVE  Broken(id)'
  <1>1. cbp'.cev \in {Nil, cbp.cev, id}
    <2>1. cbp \in CbpType
      BY SenderOf, MoreTyped
    <2>2. CASE Stops
      BY <2>2 DEF Stops
    <2>3. CASE ToHeader \/ ToDrain
      BY <2>3 DEF ToHeader, ToDrain
    <2>4. CASE ToMessage
      BY <2>4 DEF ToMessage, NewHeader, NewCbp
    <2>5. CASE mNextRecvPart = "MESSAGE" /\ Usable(First.id)
      <3>1. CASE ToAttach \/ ToFile(First.id)
        BY <2>1, <2>5, <3>1 DEF ToAttach, ToFile, CbpType
      <3>2. CASE Delivers(First.id, <<>>)
        BY <3>2 DEF Delivers, ToHeader
      <3> QED
        BY <2>5, <3>1, <3>2 DEF Usable
    <2>6. CASE mNextRecvPart = "ATTACHMENT" /\ Attached
      <3>1. CASE MoreAttach \/ ToFile(cbp.cev)
        BY <2>1, <3>1 DEF MoreAttach, ToFile, CbpType
      <3>2. CASE Delivers(cbp.cev, data \o mCurRecvBlock.got)
        BY <3>2 DEF Delivers, ToHeader
      <3> QED
        BY <2>6, <3>1, <3>2 DEF Attached
    <2>7. CASE FileStalls
      BY <2>1, <2>7 DEF FileStalls, CbpType
    <2> QED
      BY <2>2, <2>3, <2>4, <2>5, <2>6, <2>7 DEF Outcome
  <1> QED
    BY <1>1 DEF Broken, Lost, sendVars

-----------------------------------------------------------------------------
(* What is handed on.                                                      *)
LEMMA ContentIs ==
    ASSUME SendTyped, NEW id \in DOMAIN posted, NEW q \in Seq(Units),
           Len(q) = posted[id].att + posted[id].file,
           \A n \in 1..Len(q) : q[n] = UnitAt(id, 2 + n)
    PROVE  q = Content(id, posted[id])
  <1>1. PICK a, f : a = posted[id].att /\ f = posted[id].file
    OBVIOUS
  <1>2. a \in Nat /\ f \in Nat /\ id \in Ids
    BY <1>1, ShapeTyped
  <1>3. PICK s, t : s = UnitsOf(id, "att", a) /\ t = UnitsOf(id, "file", f)
    OBVIOUS
  <1>4. /\ s \in Seq(Units) /\ Len(s) = a
        /\ \A n \in 1..a : s[n] = [id |-> id, part |-> "att", n |-> n]
    BY <1>2, <1>3, UnitsTyped DEF Parts
  <1>5. /\ t \in Seq(Units) /\ Len(t) = f
        /\ \A n \in 1..f : t[n] = [id |-> id, part |-> "file", n |-> n]
    BY <1>2, <1>3, UnitsTyped DEF Parts
  <1>6. PICK c : c = s \o t
    OBVIOUS
  <1>7. /\ c \in Seq(Units) /\ Len(c) = a + f
        /\ \A n \in 1..a : c[n] = s[n]
        /\ \A n \in 1..f : c[a + n] = t[n]
    <2>1. s \in Seq(Units) /\ t \in Seq(Units) /\ Len(s) = a /\ Len(t) = f
      BY <1>4, <1>5
    <2>2. s \in Seq(Units)
      BY <2>1
    <2>3. t \in Seq(Units)
      BY <2>1
    <2> HIDE DEF Units
    <2>4. /\ s \o t \in Seq(Units) /\ Len(s \o t) = Len(s) + Len(t)
          /\ \A n \in 1..Len(s) : (s \o t)[n] = s[n]
          /\ \A n \in 1..Len(t) : (s \o t)[Len(s) + n] = t[n]
      BY <2>2, <2>3, ConcatOf
    <2> QED
      BY <1>6, <2>1, <2>4
  <1>8. ASSUME NEW n \in 1..a + f PROVE c[n] = q[n]
    <2>1. q[n] = UnitAt(id, 2 + n)
      BY <1>1, <1>8
    <2>2. CASE n <= a
      <3>1. c[n] = [id |-> id, part |-> "att", n |-> n]
        BY <1>2, <1>4, <1>7, <2>2
      <3>2. UnitAt(id, 2 + n) = [id |-> id, part |-> "att", n |-> n]
        BY <1>1, <1>2, <2>2 DEF UnitAt
      <3> QED
        BY <2>1, <3>1, <3>2
    <2>3. CASE n > a
      <3>1. PICK k : k = n - a
        OBVIOUS
      <3>2. k \in 1..f /\ n = a + k
        BY <1>2, <2>3, <3>1
      <3>3. c[n] = [id |-> id, part |-> "file", n |-> k]
        BY <1>5, <1>7, <3>2
      <3>4. UnitAt(id, 2 + n) = [id |-> id, part |-> "file", n |-> k]
        <4>1. /\ 2 + n # 1 /\ 2 + n # 2 /\ ~(2 + n <= 2 + a)
              /\ 2 + n - 2 - a = k
          BY <1>2, <2>3, <3>2
        <4>2. PICK j : j = 2 + n
          OBVIOUS
        <4>3. j # 1 /\ j # 2 /\ ~(j <= 2 + a) /\ j - 2 - a = k
          BY <1>2, <2>3, <3>2, <4>1, <4>2
        <4>4. ~(j <= 2 + posted[id].att)
          BY <1>1, <4>3
        <4>5. UnitAt(id, j) = [id |-> id, part |-> "file", n |-> j - 2 - posted[id].att]
          BY <4>3, <4>4 DEF UnitAt
        <4>6. UnitAt(id, j) = [id |-> id, part |-> "file", n |-> j - 2 - a]
          BY <1>1, <4>5
        <4> QED
          BY <4>2, <4>3, <4>6
      <3> QED
        BY <2>1, <3>3, <3>4
    <2> QED
      BY <1>2, <2>2, <2>3
  <1>9. c = q
    <2> HIDE DEF Units
    <2>1. Len(q) = a + f /\ a + f \in Nat
      BY <1>1, <1>2
    <2> QED
      BY <1>7, <1>8, <2>1
  <1> QED
    BY <1>1, <1>3, <1>6, <1>9 DEF Content

LEMMA NoContent ==
    ASSUME SendTyped, NEW id \in DOMAIN posted, posted[id].att = 0, posted[id].file = 0
    PROVE  <<>> = Content(id, posted[id])
  <1>1. <<>> \in Seq(Units) /\ Len(<<>>) = 0
    OBVIOUS
  <1>2. PICK q : q = <<>>
    OBVIOUS
  <1>3. q \in Seq(Units) /\ Len(q) = posted[id].att + posted[id].file
    BY <1>1, <1>2
  <1>4. \A n \in 1..Len(q) : q[n] = UnitAt(id, 2 + n)
    BY <1>1, <1>2
  <1>5. q \in Seq(Units)
    BY <1>3
  <1>6. q = Content(id, posted[id])
    BY <1>3, <1>4, <1>5, ContentIs
  <1> QED
    BY <1>2, <1>6

(* A message that was sent whole is handed on after all before it.         *)
LEMMA OrderDeliver ==
    ASSUME OrderInv, UNCHANGED <<sendVars, wire>>, NEW id \in DOMAIN posted, NEW content,
           handed' = Append(handed, [id |-> id, data |-> content]),
           Lost(id) \/ (content = Content(id, posted[id]) /\ HandedUpTo(id - 1))
    PROVE  HandedOk' /\ Intact' /\ (HandedUpTo(id - 1) => HandedUpTo(id)')
  <1>1. /\ SendTyped /\ id \in Nat /\ id # 0 /\ posted' = posted /\ truncated' = truncated
        /\ truncated \subseteq Nat
    BY SenderOf, SizeOf DEF sendVars, SendTyped, Ids
  <1>2. PICK n, h : n = Len(handed) /\ h = [id |-> id, data |-> content]
    OBVIOUS
  <1>3. handed \in Seq(Events) /\ n \in Nat /\ DOMAIN handed = 1..n
    BY <1>2, SenderOf, MoreTyped
  <1>4. /\ DOMAIN handed' = 1..n + 1
        /\ \A j \in 1..n : handed'[j] = handed[j]
        /\ handed'[n + 1] = h
    <2> HIDE DEF Events
    <2> QED
      BY <1>2, <1>3
  <1>5. h.id = id /\ h.data = content
    BY <1>2
  <1>6. \A j \in 1..n : handed[j].id \in DOMAIN posted /\ handed[j].id \in Nat
    <2>1. \A j \in 1..n : handed[j].id \in DOMAIN posted
      BY <1>3 DEF OrderInv, Results, HandedOk
    <2> QED
      BY <1>1, <2>1, SizeOf
  <1>7. HandedOk'
    <2>1. ASSUME NEW j \in 1..n + 1 PROVE handed'[j].id \in DOMAIN posted
      <3>1. j \in 1..n \/ j = n + 1
        BY <1>3
      <3> QED
        BY <1>4, <1>5, <1>6, <3>1
    <2> QED
      BY <1>1, <1>4, <2>1 DEF HandedOk
  <1>8. ASSUME NEW x \in 1..n + 1, \A t \in truncated : t > handed'[x].id
        PROVE  /\ handed'[x].data = Content(handed'[x].id, posted[handed'[x].id])
               /\ \A j \in 1..x - 1 : handed'[j].id < handed'[x].id
               /\ \A m \in 1..handed'[x].id : posted[m].kind \in {"request", "response"}
                                        => \E j \in 1..x : handed'[j].id = m
    <2>1. CASE x \in 1..n
      <3>1. handed'[x] = handed[x] /\ x \in DOMAIN handed /\ \A j \in 1..x : handed'[j] = handed[j]
        BY <1>3, <1>4, <2>1
      <3>2. /\ handed[x].data = Content(handed[x].id, posted[handed[x].id])
            /\ \A j \in 1..x - 1 : handed[j].id < handed[x].id
            /\ \A m \in 1..handed[x].id : posted[m].kind \in {"request", "response"}
                                     => \E j \in 1..x : handed[j].id = m
        BY <1>8, <3>1 DEF OrderInv, Results, Intact
      <3>3. \A j \in 1..x - 1 : handed'[j] = handed[j]
        BY <1>3, <2>1, <3>1
      <3> QED
        BY <3>1, <3>2, <3>3
    <2>2. CASE x = n + 1
      <3>1. handed'[x].id = id /\ handed'[x].data = content
        BY <1>4, <1>5, <2>2
      <3>2. ~Lost(id)
        <4> SUFFICES ASSUME NEW t \in truncated, t <= id PROVE FALSE
          BY DEF Lost
        <4>1. t > id /\ t \in Nat
          BY <1>1, <1>8, <3>1
        <4> QED
          BY <1>1, <4>1
      <3>3. content = Content(id, posted[id]) /\ HandedUpTo(id - 1)
        BY <3>2
      <3>4. \A j \in 1..x - 1 : handed'[j].id < id
        <4>1. \A j \in 1..n : handed[j].id <= id - 1
          BY <1>3, <3>3 DEF HandedUpTo
        <4>2. x - 1 = n
          BY <1>3, <2>2
        <4> QED
          BY <1>1, <1>4, <1>6, <4>1, <4>2
      <3>5. ASSUME NEW m \in 1..id, posted[m].kind \in {"request", "response"}
            PROVE  \E j \in 1..x : handed'[j].id = m
        <4>1. CASE m = id
          <5>1. x \in 1..x
            BY <1>3, <2>2
          <5> QED
            BY <3>1, <4>1, <5>1
        <4>2. CASE m # id
          <5>1. m \in 1..id - 1
            BY <1>1, <4>2
          <5>2. PICK j \in 1..n : handed[j].id = m
            BY <1>3, <3>3, <3>5, <5>1 DEF HandedUpTo, Usables
          <5>3. j \in 1..x /\ handed'[j] = handed[j]
            BY <1>3, <1>4, <2>2
          <5> QED
            BY <5>2, <5>3
        <4> QED
          BY <4>1, <4>2
      <3> QED
        BY <3>1, <3>3, <3>4, <3>5
    <2> QED
      BY <1>3, <2>1, <2>2
  <1>9. Intact'
    BY <1>1, <1>4, <1>8 DEF Intact
  <1>10. HandedUpTo(id - 1) => HandedUpTo(id)'
    <2> SUFFICES ASSUME HandedUpTo(id - 1) PROVE HandedUpTo(id)'
      OBVIOUS
    <2>1. ASSUME NEW m \in 1..id, posted[m].kind \in Usables
          PROVE  \E j \in 1..n + 1 : handed'[j].id = m
      <3>1. CASE m = id
        <4>1. n + 1 \in 1..n + 1
          BY <1>3
        <4> QED
          BY <1>4, <1>5, <3>1, <4>1
      <3>2. CASE m # id
        <4>1. m \in 1..id - 1
          BY <1>1, <3>2
        <4>2. PICK j \in 1..n : handed[j].id = m
          BY <1>3, <2>1, <4>1 DEF HandedUpTo
        <4>3. j \in 1..n + 1 /\ handed'[j] = handed[j]
          BY <1>3, <1>4
        <4> QED
          BY <4>2, <4>3
      <3> QED
        BY <3>1, <3>2
    <2>2. ASSUME NEW j \in 1..n + 1 PROVE handed'[j].id <= id
      <3>1. CASE j \in 1..n
        <4>1. handed[j].id <= id - 1
          BY <1>3, <3>1 DEF HandedUpTo
        <4> QED
          <5>1. PICK v : v = handed[j].id
            OBVIOUS
          <5>2. v \in Nat /\ v <= id - 1 /\ handed'[j].id = v
            BY <1>4, <1>6, <3>1, <4>1, <5>1
          <5>3. v <= id
            BY <1>1, <5>2
          <5> QED
            BY <5>2, <5>3
      <3>2. CASE j = n + 1
        BY <1>1, <1>4, <1>5, <3>2
      <3> QED
        BY <1>3, <3>1, <3>2
    <2> QED
      BY <1>1, <1>4, <2>1, <2>2 DEF HandedUpTo
  <1> QED
    BY <1>7, <1>9, <1>10

(* A message that is not used is left out.                                 *)
LEMMA UpToSkips ==
    ASSUME OrderInv, NEW id \in DOMAIN posted, UpTo(id - 1), posted[id].kind \notin Usables
    PROVE  UpTo(id)
  <1>1. id \in Nat /\ id # 0
    BY SenderOf, SizeOf
  <1>2. \A j \in DOMAIN handed : handed[j].id \in Nat
    <2>1. \A j \in DOMAIN handed : handed[j].id \in DOMAIN posted
      BY DEF OrderInv, Results, HandedOk
    <2> QED
      BY <2>1, SenderOf, SizeOf
  <1>3. HandedUpTo(id)
    <2>1. ASSUME NEW m \in 1..id, posted[m].kind \in Usables
          PROVE  \E j \in DOMAIN handed : handed[j].id = m
      <3>1. m \in 1..id - 1
        <4>1. m # id
          BY <2>1
        <4> QED
          BY <1>1, <4>1
      <3> QED
        BY <2>1, <3>1 DEF UpTo, HandedUpTo
    <2>2. ASSUME NEW j \in DOMAIN handed PROVE handed[j].id <= id
      <3>1. handed[j].id <= id - 1
        BY DEF UpTo, HandedUpTo
      <3> QED
        BY <1>1, <1>2, <3>1
    <2> QED
      BY <2>1, <2>2 DEF HandedUpTo
  <1>4. MapFrom(id)
    <2>1. \A r \in Ids : r > id => r > id - 1
      BY <1>1 DEF Ids
    <2> QED
      BY <2>1 DEF UpTo, MapFrom
  <1> QED
    BY <1>3, <1>4 DEF UpTo

-----------------------------------------------------------------------------
(* The callbacks.                                                          *)
LEMMA ResultsKept ==
    ASSUME OrderInv, UNCHANGED <<sendVars, wire>>, ended' # "misread",
           handed' = handed \/ (HandedOk' /\ Intact')
    PROVE  Results'
  <1>1. Grows
    BY SenderSame
  <1>2. HandedOk' /\ Intact'
    BY <1>1, IntactKept
  <1> QED
    BY <1>2 DEF Results, MisreadOk, BoundariesKept

LEMMA VecsPosted ==
    ASSUME mRecvQ = <<>>, NEW v, Post(<<v>>), NEW size, v.size = size
    PROVE  VecsAre(size)' /\ mCurRecvBlock' = Nil /\ ~GotUnit' /\ Got' = <<>> /\ Len(Got') = 0
  <1>1. mRecvQ' = <<>> \o <<v>> /\ mCurRecvBlock' = Nil
    BY DEF Post
  <1>2. DOMAIN mRecvQ' = {1} /\ mRecvQ'[1] = v
    <2>1. mRecvQ' = <<v>>
      BY <1>1
    <2> QED
      BY <2>1
  <1>3. Got' = <<>>
    BY <1>1 DEF Got
  <1>4. Len(Got') = 0
    BY <1>3
  <1> QED
    BY <1>1, <1>2, <1>3, <1>4 DEF VecsAre, GotUnit

(* A drain starts with a whole block, or with all there is.                *)
LEMMA DrainStart ==
    ASSUME OrderInv, NEW id \in DOMAIN posted, NEW i \in Nat, NEW len \in Nat, NEW c \in CbpType,
           len = DrainLen(posted[id]), len > 0, PrepareDrain(len, c), mRecvQ = <<>>,
           posted[id].kind \notin Usables, UpTo(id), i = Size(id) - len,
           UNCHANGED <<sendVars, wire, mSendEventMap, handed>>
    PROVE  Aligned(id, i)' /\ mCurRecvBlock' = Nil
  <1>1. /\ cbp' = [c EXCEPT !.drainLen = len, !.remainVecs = BlockCount(len)]
        /\ Post(<<[size |-> LeastOf(gMaxBlockSize, len), got |-> <<>>,
                   alloc |-> mCurRecvBlock.alloc]>>)
        /\ mNextRecvPart' = "DRAIN"
    BY DEF PrepareDrain
  <1>2. PICK b : b = BlockCount(len)
    OBVIOUS
  <1>3. cbp'.drainLen = len /\ cbp'.remainVecs = b
    BY <1>1, <1>2 DEF CbpType
  <1>4. b \in Nat /\ b > 0 /\ b <= BlockCount(len)
    BY <1>2, BlockCountOf
  <1>5. Drained(len, b) = 0 /\ DrainVec(len, b) = LeastOf(gMaxBlockSize, len)
    BY <1>2, <1>4, DrainedOf
  <1>6. VecsAre(DrainVec(len, b))' /\ mCurRecvBlock' = Nil /\ Len(Got') = 0
    <2>1. VecsAre(LeastOf(gMaxBlockSize, len))' /\ mCurRecvBlock' = Nil /\ Len(Got') = 0
      BY <1>1, VecsPosted
    <2>2. DrainVec(len, b)' = DrainVec(len, b)
      BY DEF DrainVec
    <2> QED
      BY <1>5, <2>1 DEF VecsAre
  <1>7. i = Size(id) - len + Drained(len, b) + Len(Got')
    BY <1>5, <1>6, SenderOf, SizeOf
  <1>8. UpTo(id)' /\ Size(id)' = Size(id) /\ posted' = posted
    BY SenderSame DEF UpTo, HandedUpTo, MapFrom, sendVars
  <1>9. id # 0
    BY SenderOf, SizeOf
  <1>10. AtDrain(id, i)'
    BY <1>2, <1>3, <1>4, <1>6, <1>7, <1>8, <1>9 DEF AtDrain
  <1> QED
    BY <1>1, <1>6, <1>10 DEF Aligned, AttachParts

LEMMA OrderMisread ==
    ASSUME OrderInv, MisreadHeader \/ HeaderAssert
    PROVE  SenderOrder' /\ RecvOk' /\ Results'
  <1>1. /\ UNCHANGED <<sendVars, wire, handed, mCurRecvBlock>> /\ ended = "open" /\ Done
        /\ mNextRecvPart = "HEADER" /\ ended' \in {"misread", "assert"}
        /\ ended' = "misread" => First.part # "header"
    BY DEF MisreadHeader, HeaderAssert, NothingSent, NotDelivered, Callback
  <1>2. SenderOrder' /\ RecvOk' /\ Grows
    BY <1>1, SenderSame DEF RecvOk
  <1>3. HandedOk' /\ Intact'
    BY <1>1, <1>2, IntactKept
  <1>4. GotUnit /\ GotUnit' /\ First' = First /\ First.id \in DOMAIN posted
    BY <1>1, CallbackAt DEF GotUnit, First
  <1>5. BoundariesKept'
    <2> SUFFICES ASSUME ended' = "misread"
                 PROVE  \E id \in 1..First.id : (id \in truncated \/ EndsEarly(id))'
      BY <1>4 DEF BoundariesKept
    <2>1. PICK id \in Messages, i \in Nat : id = First.id /\ (Broken(id) \/ Aligned(id, i))
      BY <1>1, CallbackAt
    <2>2. id \in Nat /\ id # 0 /\ truncated \subseteq Ids /\ truncated' = truncated
      BY <1>1, <1>4, <2>1, SenderOf, SizeOf DEF SendTyped, sendVars
    <2>3. CASE Broken(id)
      <3>1. PICK t \in truncated : t <= id
        BY <2>3 DEF Broken, Lost
      <3>2. t \in 1..First.id
        BY <2>1, <2>2, <3>1 DEF Ids
      <3> QED
        BY <2>2, <3>1, <3>2
    <2>4. CASE Aligned(id, i)
      <3>1. AtHeader(id, i)
        BY <1>1, <2>4 DEF Aligned
      <3>2. EndsEarly(id)
        BY <1>1, <1>4, <3>1 DEF AtHeader
      <3>3. EndsEarly(id)' /\ id \in 1..First.id
        BY <1>1, <2>1, <2>2, <3>2, SenderSame
      <3> QED
        BY <3>3
    <2> QED
      BY <2>1, <2>3, <2>4
  <1> QED
    BY <1>2, <1>3, <1>4, <1>5 DEF Results, MisreadOk

LEMMA OrderHeader ==
    ASSUME OrderInv, AlienHeader \/ HeaderCallback
    PROVE  SenderOrder' /\ RecvOk' /\ Results'
  <1>1. /\ UNCHANGED <<sendVars, wire, handed, mSendEventMap>> /\ ended = "open" /\ Done
        /\ mNextRecvPart = "HEADER" /\ First.part = "header" /\ ended' = "open"
    BY DEF AlienHeader, HeaderCallback, NothingSent, NotDelivered, Callback
  <1>2. BaseInv /\ SendTyped /\ OneVecTyped /\ mRecvQ = <<>> /\ mCurRecvBlock \in RecvVecs
    BY <1>1, SenderOf, CurrentVec
  <1>3. Results'
    BY <1>1, ResultsKept
  <1>4. Outcome /\ mCurRecvBlock' = Nil
    <2>1. CASE AlienHeader
      <3>1. ToHeader \/ ToDrain
        BY <1>2, <2>1, AlienOut
      <3> QED
        BY <3>1 DEF Outcome, ToHeader, ToDrain, PostsUnit, PostsOne
    <2>2. CASE HeaderCallback
      <3>1. ToMessage
        BY <1>2, <2>2, HeaderOut
      <3> QED
        BY <3>1 DEF Outcome, ToMessage, PostsUnit
    <2> QED
      BY <2>1, <2>2
  <1>5. PICK id \in Messages, i \in Nat :
            /\ NextAfter(id, i) /\ (Broken(id) \/ Aligned(id, i))
            /\ GotUnit /\ id = First.id /\ id \in DOMAIN posted
    BY <1>1, CallbackAt
  <1>6. CASE Broken(id)
    <2>1. Broken(id)'
      BY <1>1, <1>4, <1>6, LostKept
    <2> QED
      BY <1>1, <1>3, <1>4, <1>5, <2>1, AfterCallback
  <1>7. CASE Aligned(id, i)
    <2>1. i = 1 /\ UpTo(id - 1)
      BY <1>1, <1>5, <1>7 DEF Aligned, AtHeader
    <2>2. CASE AlienHeader
      <3>1. PICK m, len : m = posted[id] /\ len = 1 + m.att + m.file
        OBVIOUS
      <3>2. m.kind = "alien" /\ PrepareDrain(len, NewHeader(m))
        BY <1>5, <2>2, <3>1 DEF AlienHeader
      <3>3. /\ m \in Shapes /\ len \in Nat /\ len > 0
        BY <1>2, <1>5, <3>1, ShapeTyped
      <3>4. NewHeader(m) \in CbpType
        BY <3>3, NewHeaderTyped
      <3>5. len = DrainLen(posted[id]) /\ posted[id].kind \notin Usables
        BY <1>2, <1>5, <3>1, <3>2, ShapeTyped DEF DrainLen, Usables
      <3>6. i = Size(id) - len
        <4>1. PICK z, a, f : z = Size(id) /\ a = posted[id].att /\ f = posted[id].file
          OBVIOUS
        <4>2. a \in Nat /\ f \in Nat /\ z = 2 + a + f
          BY <1>2, <1>5, <4>1, SizeOf
        <4>3. len = 1 + a + f
          BY <3>1, <4>1
        <4>4. z - len = 1
          BY <4>2, <4>3
        <4> QED
          BY <2>1, <4>1, <4>4
      <3>7. UpTo(id)
        BY <1>5, <2>1, <3>5, UpToSkips
      <3>8. Aligned(id, i)'
        BY <1>1, <1>2, <1>5, <3>2, <3>3, <3>4, <3>5, <3>6, <3>7, DrainStart
      <3> QED
        BY <1>1, <1>3, <1>4, <1>5, <3>8, AfterCallback
    <2>3. CASE HeaderCallback
      <3>1. mNextRecvPart' = "MESSAGE" /\ posted[id].kind # "alien"
        BY <1>5, <2>3 DEF HeaderCallback
      <3>2. Len(Got') = 0
        BY <1>4 DEF Got
      <3>3. UpTo(id - 1)' /\ posted' = posted
        BY <1>1, <2>1 DEF UpTo, HandedUpTo, MapFrom, sendVars
      <3>4. id # 0
        BY <1>2, <1>5, SizeOf
      <3>5. AtMessage(id, i)'
        BY <2>1, <3>1, <3>2, <3>3, <3>4 DEF AtMessage
      <3>6. Aligned(id, i)'
        BY <3>1, <3>5 DEF Aligned, AttachParts
      <3> QED
        BY <1>1, <1>3, <1>4, <1>5, <3>6, AfterCallback
    <2> QED
      BY <2>2, <2>3
  <1> QED
    BY <1>5, <1>6, <1>7

(* A message that cannot be used.                                          *)
LEMMA OrderUnusable ==
    ASSUME OrderInv, MessageUnusable
    PROVE  SenderOrder' /\ RecvOk' /\ Results'
  <1>1. /\ UNCHANGED <<sendVars, wire, handed, mSendEventMap>> /\ ended = "open" /\ Done
        /\ mNextRecvPart = "MESSAGE" /\ Unusable(First.id) /\ PrepareDrain(Rest, cbp)
        /\ ended' = "open"
    BY DEF MessageUnusable, NothingSent, NotDelivered, Callback
  <1>2. /\ BaseInv /\ SendTyped /\ RecvTyped /\ OneVecTyped /\ mRecvQ = <<>>
        /\ mCurRecvBlock \in RecvVecs
    BY <1>1, SenderOf, CurrentVec
  <1>3. Results'
    BY <1>1, ResultsKept
  <1>4. Outcome /\ mCurRecvBlock' = Nil
    <2>1. ToHeader \/ ToDrain
      BY <1>2, UnusableOut
    <2> QED
      BY <2>1 DEF Outcome, ToHeader, ToDrain, PostsUnit, PostsOne
  <1>5. PICK id \in Messages, i \in Nat :
            /\ NextAfter(id, i) /\ (Broken(id) \/ Aligned(id, i))
            /\ Len(Got) = 1 /\ id = First.id /\ id \in DOMAIN posted
    BY <1>1, CallbackAt
  <1>6. CASE Broken(id)
    <2>1. Broken(id)'
      BY <1>1, <1>4, <1>5, <1>6, LostKept
    <2> QED
      BY <1>1, <1>3, <1>4, <1>5, <2>1, AfterCallback
  <1>7. CASE Aligned(id, i)
    <2>1. i = 2 /\ UpTo(id - 1) /\ posted[id].kind # "alien"
      BY <1>1, <1>5, <1>7 DEF Aligned, AtMessage
    <2>2. id \in Nat /\ id # 0 /\ id \in Ids
      BY <1>2, <1>5, SizeOf, ShapeTyped
    <2>3. posted[id].kind \in {"malformed", "odd", "stray"}
      <3>1. id \in mSendEventMap
        BY <2>1, <2>2 DEF UpTo, MapFrom
      <3> QED
        BY <1>1, <1>5, <3>1 DEF Unusable
    <2>4. posted[id].kind \notin Usables
      BY <2>3 DEF Usables
    <2>5. UpTo(id)
      BY <1>5, <2>1, <2>4, UpToSkips
    <2>6. cbp.attLen = posted[id].att /\ cbp.fileLen = posted[id].file
      BY <1>1, <1>2, <1>5, MessageLens DEF OrderInv, StreamInv, PairsInv
    <2>7. PICK z, a, f : z = Size(id) /\ a = posted[id].att /\ f = posted[id].file
      OBVIOUS
    <2>8. a \in Nat /\ f \in Nat /\ z = 2 + a + f
      BY <1>2, <1>5, <2>7, SizeOf
    <2>9. Rest = a + f /\ DrainLen(posted[id]) = a + f
      <3>1. Rest = a + f
        BY <2>6, <2>7 DEF Rest
      <3>2. DrainLen(posted[id]) = 0 + a + f
        BY <2>1, <2>7 DEF DrainLen
      <3> QED
        BY <2>8, <3>1, <3>2
    <2>10. CASE Rest > 0
      <3>1. i = Size(id) - Rest /\ Rest \in Nat /\ Rest = DrainLen(posted[id])
        BY <2>1, <2>7, <2>8, <2>9
      <3>2. cbp \in CbpType
        BY <1>2, MoreTyped
      <3>3. Aligned(id, i)'
        BY <1>1, <1>2, <1>5, <2>4, <2>5, <2>10, <3>1, <3>2, DrainStart
      <3> QED
        BY <1>1, <1>3, <1>4, <1>5, <3>3, AfterCallback
    <2>11. CASE ~(Rest > 0)
      <3>1. mNextRecvPart' = "HEADER"
        BY <1>1, <2>11 DEF PrepareDrain, RepostHeader
      <3>2. i = Size(id)
        BY <2>1, <2>7, <2>8, <2>9, <2>11
      <3>3. UpTo(id)' /\ i = Size(id)'
        BY <1>1, <2>5, <3>2, SenderSame DEF UpTo, HandedUpTo, MapFrom, sendVars
      <3>4. ~GotUnit'
        BY <1>4 DEF GotUnit
      <3>5. AtHeader(id, i)'
        BY <3>3, <3>4 DEF AtHeader
      <3>6. Aligned(id, i)'
        BY <3>1, <3>5 DEF Aligned, AttachParts
      <3> QED
        BY <1>1, <1>3, <1>4, <1>5, <3>6, AfterCallback
    <2> QED
      BY <2>10, <2>11
  <1> QED
    BY <1>5, <1>6, <1>7

(* An event that is handed on, after it the next header.                   *)
LEMMA OrderDelivered ==
    ASSUME OrderInv, ended = "open", Done, Outcome, UNCHANGED <<sendVars, wire>>,
           NEW id \in DOMAIN posted, NEW i \in Nat, NextAfter(id, i),
           mNextRecvPart = "MESSAGE" => id = First.id,
           NEW content, NEW e \in DOMAIN posted, Delivers(e, content),
           \/ Broken(id) /\ Lost(e)
           \/ /\ e = id /\ i = Size(id) /\ content = Content(id, posted[id])
              /\ HandedUpTo(id - 1) /\ MapFrom(id)'
    PROVE  SenderOrder' /\ RecvOk' /\ Results'
  <1>1. /\ mCurRecvBlock' = Nil /\ mNextRecvPart' = "HEADER" /\ ended' = "open"
        /\ handed' = Append(handed, [id |-> e, data |-> content])
    BY DEF Delivers, ToHeader, PostsUnit
  <1>2. Lost(e) \/ (content = Content(e, posted[e]) /\ HandedUpTo(e - 1))
    OBVIOUS
  <1>3. HandedOk' /\ Intact' /\ (HandedUpTo(e - 1) => HandedUpTo(e)')
    BY <1>1, <1>2, OrderDeliver
  <1>4. Results'
    BY <1>1, <1>3, ResultsKept
  <1>5. id \in Messages
    BY DEF Messages
  <1>6. CASE Broken(id) /\ Lost(e)
    <2>1. Broken(id)'
      BY <1>5, <1>6, LostKept
    <2> QED
      BY <1>1, <1>4, <1>5, <2>1, AfterCallback
  <1>7. CASE /\ e = id /\ i = Size(id) /\ content = Content(id, posted[id])
             /\ HandedUpTo(id - 1) /\ MapFrom(id)'
    <2>1. ~GotUnit' /\ i = Size(id)'
      BY <1>1, <1>7, SenderSame DEF GotUnit
    <2>2. AtHeader(id, i)'
      BY <1>3, <1>7, <2>1 DEF AtHeader, UpTo
    <2>3. Aligned(id, i)'
      BY <1>1, <2>2 DEF Aligned, AttachParts
    <2> QED
      BY <1>1, <1>4, <1>5, <2>3, AfterCallback
  <1> QED
    BY <1>6, <1>7

(* A file gets one vector of a block.                                      *)
LEMMA FileSized ==
    ASSUME BaseInv, RecvReqMsg \/ RecvRspMsg \/ RecvAttach, mRecvQ = <<>>,
           mNextRecvPart' = "ATTACHFILE", NEW size, size = LeastOf(gMaxBlockSize, cbp.fileLen)
    PROVE  VecsAre(size)' /\ Len(Got') = 0
  <1>1. \E c : PostFile(c) /\ c.fileLen = cbp.fileLen
    <2>1. cbp \in CbpType
      BY TypeParts, MoreTyped DEF BaseInv
    <2>2. ASSUME NEW id, NEW sizes, MessageUsable(id, sizes)
          PROVE  \E c : PostFile(c) /\ c.fileLen = cbp.fileLen
      <3>1. PICK c : c = [cbp EXCEPT !.cev = id]
        OBVIOUS
      <3>2. c.fileLen = cbp.fileLen
        BY <2>1, <3>1 DEF CbpType
      <3>3. PostFile(c)
        BY <2>2, <3>1 DEF MessageUsable, PostAttach, Deliver, RepostHeader
      <3> QED
        BY <3>2, <3>3
    <2>3. CASE RecvReqMsg
      BY <2>2, <2>3 DEF RecvReqMsg
    <2>4. CASE RecvRspMsg
      <3>1. PICK sizes : MessageUsable(First.id, sizes)
        BY <2>4 DEF RecvRspMsg
      <3> QED
        BY <2>2, <3>1
    <2>5. CASE RecvAttach
      <3>1. PICK c : c = [cbp EXCEPT !.remainVecs = @ - 1]
        OBVIOUS
      <3>2. c.fileLen = cbp.fileLen
        BY <2>1, <3>1 DEF CbpType
      <3>3. mNextRecvPart = "ATTACHMENT"
        BY <2>5 DEF RecvAttach, Callback
      <3>4. PostFile(c)
        BY <2>5, <3>1, <3>3 DEF RecvAttach, Deliver, RepostHeader
      <3> QED
        BY <3>2, <3>4
    <2> QED
      BY <2>3, <2>4, <2>5
  <1>2. PICK c : PostFile(c) /\ c.fileLen = cbp.fileLen
    BY <1>1
  <1>3. PICK v : v = [size |-> LeastOf(gMaxBlockSize, c.fileLen), got |-> <<>>,
                      alloc |-> "SYS_ALLOC"]
    OBVIOUS
  <1>4. Post(<<v>>) /\ v.size = LeastOf(gMaxBlockSize, cbp.fileLen)
        /\ cbp' = [c EXCEPT !.remainVecs = BlockCount(c.fileLen)]
    BY <1>2, <1>3 DEF PostFile
  <1> QED
    BY <1>4, VecsPosted

(* A message that is used.                                                 *)
LEMMA OrderUsable ==
    ASSUME OrderInv, RecvReqMsg \/ RecvRspMsg
    PROVE  SenderOrder' /\ RecvOk' /\ Results'
  <1>1. /\ UNCHANGED <<sendVars, wire, data>> /\ ended = "open" /\ Done
        /\ mNextRecvPart = "MESSAGE" /\ ended' = "open"
    BY DEF RecvReqMsg, RecvRspMsg, NothingSent, Callback
  <1>2. /\ BaseInv /\ SendTyped /\ RecvTyped /\ OneVecTyped /\ mRecvQ = <<>>
        /\ mCurRecvBlock \in RecvVecs /\ data = <<>> /\ cbp \in CbpType
    <2>1. data = <<>>
      BY <1>1, SenderOf DEF BaseInv, VectorsInv, Sized
    <2> QED
      BY <1>1, <2>1, SenderOf, CurrentVec
  <1>3. /\ Usable(First.id) /\ posted[First.id].kind \in Usables
        /\ \A r \in mSendEventMap : r # First.id => r \in mSendEventMap'
    <2>1. CASE RecvReqMsg
      BY <1>2, <2>1, ReqOut DEF RecvReqMsg, Usables
    <2>2. CASE RecvRspMsg
      BY <1>2, <2>2, RspOut DEF Usables
    <2> QED
      BY <2>1, <2>2
  <1>4. Outcome /\ mCurRecvBlock' = Nil
    BY <1>1, <1>3 DEF Outcome, Usable, ToAttach, ToFile, Delivers, ToHeader, PostsUnit, PostsOne
  <1>5. PICK id \in Messages, i \in Nat :
            /\ NextAfter(id, i) /\ (Broken(id) \/ Aligned(id, i))
            /\ Len(Got) = 1 /\ id = First.id /\ id \in DOMAIN posted
    BY <1>1, CallbackAt
  <1>6. cbp.attLen = posted[id].att /\ cbp.fileLen = posted[id].file
    BY <1>1, <1>2, <1>5, MessageLens DEF OrderInv, StreamInv, PairsInv
  <1>7. id \in Nat /\ id # 0 /\ id \in Ids
    BY <1>2, <1>5, SizeOf, ShapeTyped
  <1>8. Aligned(id, i) => i = 2 /\ HandedUpTo(id - 1) /\ MapFrom(id)'
    <2> SUFFICES ASSUME Aligned(id, i) PROVE i = 2 /\ HandedUpTo(id - 1) /\ MapFrom(id)'
      OBVIOUS
    <2>1. i = 2 /\ UpTo(id - 1)
      BY <1>1, <1>5 DEF Aligned, AtMessage
    <2>2. ASSUME NEW r \in Ids, r > id PROVE r \in mSendEventMap'
      <3>1. r > id - 1 /\ r # id
        BY <1>7, <2>2 DEF Ids
      <3> QED
        BY <1>3, <1>5, <2>1, <3>1 DEF UpTo, MapFrom
    <2>3. MapFrom(id)'
      BY <2>2 DEF MapFrom
    <2> QED
      BY <2>1, <2>3 DEF UpTo
  <1>9. CASE Delivers(id, <<>>) /\ cbp.attLen = 0 /\ cbp.fileLen = 0
    <2>1. Broken(id) => Lost(id)
      BY DEF Broken
    <2>2. <<>> = Content(id, posted[id])
      BY <1>2, <1>5, <1>6, <1>9, NoContent
    <2>3. Size(id) = 2
      BY <1>6, <1>9 DEF Size
    <2> QED
      BY <1>1, <1>4, <1>5, <1>8, <1>9, <2>1, <2>2, <2>3, OrderDelivered
  <1>10. CASE (ToAttach \/ (ToFile(id) /\ cbp.attLen = 0)) /\ UNCHANGED <<reply, handed>>
    <2>1. Results'
      BY <1>1, <1>10, ResultsKept
    <2>2. CASE Broken(id)
      <3>1. Broken(id)'
        BY <1>1, <1>4, <1>5, <2>2, LostKept
      <3> QED
        BY <1>1, <1>4, <1>5, <2>1, <3>1, AfterCallback
    <2>3. CASE Aligned(id, i)
      <3>1. mNextRecvPart' \in AttachParts /\ cbp'.cev = id /\ cbp'.fileLen = cbp.fileLen
        BY <1>2, <1>5, <1>10 DEF ToAttach, ToFile, AttachParts, CbpType
      <3>2. Held' = <<>> /\ Len(Held') = 0 /\ data' = <<>>
        <4>1. Held' = <<>> \o <<>>
          BY <1>1, <1>2, <1>4 DEF Held, Got
        <4>2. Held' = <<>>
          BY <4>1
        <4>3. Len(Held') = 0
          BY <4>2
        <4> QED
          BY <1>1, <1>2, <4>2, <4>3
      <3>3. i = 2 + Len(Held')
        BY <1>8, <2>3, <3>2
      <3>4. HandedUpTo(id - 1)' /\ MapFrom(id)'
        BY <1>1, <1>8, <1>10, <2>3 DEF HandedUpTo, sendVars
      <3>5. posted' = posted
        BY <1>1 DEF sendVars
      <3>6. ASSUME mNextRecvPart' = "ATTACHFILE"
            PROVE  /\ Len(data') = posted[id].att
                   /\ VecsAre(LeastOf(gMaxBlockSize, cbp.fileLen))'
                   /\ cbp'.remainVecs = BlockCount(cbp'.fileLen)
        <4>1. ToFile(id) /\ cbp.attLen = 0
          BY <1>10, <3>6 DEF ToAttach
        <4>2. Len(<<>>) = 0
          OBVIOUS
        <4>3. Len(data') = posted[id].att
          BY <1>6, <3>2, <4>1, <4>2
        <4>4. VecsAre(LeastOf(gMaxBlockSize, cbp.fileLen))'
          <5>1. PICK size : size = LeastOf(gMaxBlockSize, cbp.fileLen)
            OBVIOUS
          <5>2. VecsAre(size)'
            BY <1>2, <3>6, <5>1, FileSized
          <5>3. size = LeastOf(gMaxBlockSize, cbp'.fileLen)
            BY <3>1, <5>1
          <5> QED
            BY <5>2, <5>3 DEF VecsAre
        <4>5. cbp'.remainVecs = BlockCount(cbp'.fileLen)
          BY <1>2, <3>1, <4>1 DEF ToFile, CbpType
        <4> QED
          BY <4>3, <4>4, <4>5
      <3>7. \A n \in 1..Len(Held') : Held'[n] = UnitAt(id, 2 + n)'
        BY <3>2
      <3>8. AtContent(id, i)'
        <4>1. BlockCount(cbp'.fileLen) = BlockCount(cbp.fileLen)'
          BY DEF BlockCount
        <4> QED
          BY <1>3, <1>5, <3>1, <3>3, <3>4, <3>5, <3>6, <3>7, <4>1 DEF AtContent
      <3>9. Aligned(id, i)'
        BY <3>1, <3>8 DEF Aligned, AttachParts
      <3> QED
        BY <1>1, <1>4, <1>5, <2>1, <3>9, AfterCallback
    <2> QED
      BY <1>5, <2>2, <2>3
  <1> QED
    BY <1>3, <1>5, <1>9, <1>10 DEF Usable

(* What an event being received has: the vector is full.                   *)
LEMMA HeldNow ==
    ASSUME OrderInv, ended = "open", Done, mNextRecvPart \in AttachParts
    PROVE  /\ Held = data \o mCurRecvBlock.got /\ Held \in Seq(Units)
           /\ Len(Held) = Len(data) + mCurRecvBlock.size
           /\ Len(data) \in Nat /\ mCurRecvBlock.size \in Nat
           /\ cbp.cev # Nil /\ cbp.cev \in DOMAIN posted
           /\ cbp.attLen = posted[cbp.cev].att /\ cbp.fileLen = posted[cbp.cev].file
           /\ cbp.attLen \in Nat /\ cbp.fileLen \in Nat
           /\ mNextRecvPart = "ATTACHMENT" /\ mRecvQ = <<>> => Len(Held) = cbp.attLen
  <1>1. /\ mCurRecvBlock \in RecvVecs /\ mCurRecvBlock.got \in Seq(Units)
        /\ Len(mCurRecvBlock.got) = mCurRecvBlock.size /\ mCurRecvBlock # Nil
        /\ data \in Seq(Units) /\ Got = mCurRecvBlock.got /\ mCurRecvBlock.size \in Nat
        /\ cbp.attLen \in Nat /\ cbp.fileLen \in Nat
    BY SenderOf, CurrentVec, CallbackAt, MoreTyped
  <1>2. PICK d, g : d = data /\ g = mCurRecvBlock.got
    OBVIOUS
  <1>3. d \in Seq(Units)
    BY <1>1, <1>2
  <1>4. g \in Seq(Units)
    BY <1>1, <1>2
  <1>5. d \o g \in Seq(Units) /\ Len(d \o g) = Len(d) + Len(g) /\ Len(d) \in Nat
    <2> HIDE DEF Units
    <2> QED
      BY <1>3, <1>4, ConcatOf
  <1>6. /\ cbp.cev # Nil /\ cbp.cev \in DOMAIN posted
        /\ cbp.attLen = posted[cbp.cev].att /\ cbp.fileLen = posted[cbp.cev].file
    BY DEF OrderInv, StreamInv, AnnouncedInv
  <1>7. ASSUME mNextRecvPart = "ATTACHMENT", mRecvQ = <<>>
        PROVE  Len(data) + mCurRecvBlock.size = cbp.attLen
    <2>1. Len(data) + Room(SizesOf(Posted)) = cbp.attLen
      BY <1>7, SenderOf DEF BaseInv, VectorsInv, Sized
    <2>2. Room(SizesOf(Posted)) = mCurRecvBlock.size + Room(SizesOf(mRecvQ))
      BY <1>1, SenderOf, RoomPosted
    <2>3. SizesOf(mRecvQ) = <<>>
      <3>1. DOMAIN <<>> = {}
        OBVIOUS
      <3>2. SizesOf(<<>>) = [x \in {} |-> <<>>[x].size]
        BY <3>1 DEF SizesOf
      <3>3. <<>> = [x \in {} |-> <<>>[x].size]
        OBVIOUS
      <3> QED
        BY <1>7, <3>2, <3>3
    <2>4. Room(<<>>) = 0
      <3>1. <<>> \in Seq(Nat)
        OBVIOUS
      <3> QED
        BY <3>1, RoomNat
    <2>5. Room(SizesOf(Posted)) = mCurRecvBlock.size
      BY <1>1, <2>2, <2>3, <2>4
    <2> QED
      BY <2>1, <2>5
  <1> QED
    BY <1>1, <1>2, <1>5, <1>6, <1>7 DEF Held

LEMMA OrderAttach ==
    ASSUME OrderInv, RecvAttach
    PROVE  SenderOrder' /\ RecvOk' /\ Results'
  <1>1. /\ UNCHANGED <<sendVars, wire, mSendEventMap>> /\ ended = "open" /\ Done
        /\ mNextRecvPart = "ATTACHMENT" /\ ended' = "open" /\ mNextRecvPart \in AttachParts
    BY DEF RecvAttach, NothingSent, Callback, AttachParts
  <1>2. /\ BaseInv /\ SendTyped /\ cbp \in CbpType
    BY SenderOf, MoreTyped
  <1>3. PICK e : e = cbp.cev
    OBVIOUS
  <1>4. /\ Held = data \o mCurRecvBlock.got /\ Held \in Seq(Units)
        /\ e # Nil /\ e \in DOMAIN posted /\ cbp.attLen = posted[e].att
        /\ cbp.fileLen = posted[e].file
        /\ mRecvQ = <<>> => Len(Held) = cbp.attLen
    BY <1>1, <1>3, HeldNow
  <1>5. Attached
    BY <1>2, <1>3, <1>4, AttachOut
  <1>6. Outcome /\ mCurRecvBlock' = Nil
    BY <1>1, <1>5 DEF Outcome, Attached, MoreAttach, ToFile, Delivers, ToHeader, PostsUnit,
                      PostsOne
  <1>7. PICK id \in Messages, i \in Nat : NextAfter(id, i) /\ (Broken(id) \/ Aligned(id, i))
    BY <1>1, CallbackAt
  <1>8. data' = Held /\ Held' = Held
    <2>1. data' = Held
      BY <1>4, <1>5 DEF Attached
    <2>2. Held' = data' \o <<>>
      BY <1>6 DEF Held, Got
    <2>3. data' \o <<>> = data'
      <3>1. PICK q : q = data'
        OBVIOUS
      <3>2. q \in Seq(Units)
        BY <1>4, <2>1, <3>1
      <3>3. q \o <<>> = q
        <4> HIDE DEF Units
        <4> QED
          BY <3>2
      <3> QED
        BY <3>1, <3>3
    <2> QED
      BY <2>1, <2>2, <2>3
  <1>9. Broken(id) => Lost(e)
    BY <1>3, <1>4 DEF Broken
  <1>10. Aligned(id, i) => AtContent(id, i) /\ id = e
    BY <1>1, <1>3 DEF Aligned, AtContent
  <1>11. CASE Delivers(e, Held) /\ cbp.fileLen = 0 /\ mRecvQ = <<>>
    <2>1. CASE Broken(id)
      <3>1. HandedOk' /\ Intact'
        BY <1>1, <1>4, <1>9, <1>11, <2>1, OrderDeliver DEF Delivers
      <3>2. Results'
        BY <1>1, <3>1, ResultsKept
      <3>3. Broken(id)'
        BY <1>1, <1>6, <2>1, LostKept
      <3> QED
        BY <1>1, <1>6, <1>7, <3>2, <3>3, AfterCallback
    <2>2. CASE Aligned(id, i)
      <3>1. /\ id = e /\ i = 2 + Len(Held) /\ HandedUpTo(id - 1) /\ MapFrom(id)
            /\ \A n \in 1..Len(Held) : Held[n] = UnitAt(id, 2 + n)
        BY <1>10, <2>2 DEF AtContent
      <3>2. Len(Held) = posted[e].att + posted[e].file
        <4>1. Len(Held) = posted[e].att /\ posted[e].file = 0 /\ posted[e].att \in Nat
          BY <1>2, <1>4, <1>11, SizeOf
        <4> QED
          BY <4>1
      <3>3. Held = Content(id, posted[id])
        BY <1>2, <1>4, <3>1, <3>2, ContentIs
      <3>4. i = Size(id)
        <4>1. /\ Size(id) = 2 + posted[id].att + posted[id].file
              /\ posted[id].att \in Nat /\ posted[id].file \in Nat
          BY <1>2, <1>4, <3>1, SizeOf
        <4>2. PICK a, f : a = posted[id].att /\ f = posted[id].file
          OBVIOUS
        <4>3. i = 2 + (a + f)
          BY <3>1, <3>2, <4>2
        <4>4. a \in Nat /\ f \in Nat /\ Size(id) = 2 + a + f
          BY <4>1, <4>2
        <4>5. 2 + (a + f) = 2 + a + f
          BY <4>4
        <4> QED
          BY <4>3, <4>4, <4>5
      <3>5. MapFrom(id)'
        BY <1>1, <3>1 DEF MapFrom
      <3> QED
        BY <1>1, <1>4, <1>6, <1>7, <1>11, <3>1, <3>3, <3>4, <3>5, OrderDelivered
    <2> QED
      BY <1>7, <2>1, <2>2
  <1>12. CASE /\ UNCHANGED <<reply, handed>>
              /\ MoreAttach \/ (ToFile(e) /\ mRecvQ = <<>>)
    <2>1. Results'
      BY <1>1, <1>12, ResultsKept
    <2>2. CASE Broken(id)
      <3>1. Broken(id)'
        BY <1>1, <1>6, <2>2, LostKept
      <3> QED
        BY <1>1, <1>6, <1>7, <2>1, <3>1, AfterCallback
    <2>3. CASE Aligned(id, i)
      <3>1. mNextRecvPart' \in AttachParts /\ cbp'.cev = e /\ cbp'.fileLen = cbp.fileLen
        BY <1>1, <1>2, <1>3, <1>12 DEF MoreAttach, ToFile, AttachParts, CbpType
      <3>2. /\ id = e /\ i = 2 + Len(Held) /\ posted[id].kind \in Usables
            /\ HandedUpTo(id - 1) /\ MapFrom(id)
            /\ \A n \in 1..Len(Held) : Held[n] = UnitAt(id, 2 + n)
        BY <1>10, <2>3 DEF AtContent
      <3>3. HandedUpTo(id - 1)' /\ MapFrom(id)' /\ posted' = posted
        BY <1>1, <1>12, <3>2 DEF HandedUpTo, MapFrom, sendVars
      <3>4. \A n \in 1..Len(Held') : Held'[n] = UnitAt(id, 2 + n)'
        BY <1>1, <1>8, <3>2, SenderSame
      <3>5. ASSUME mNextRecvPart' = "ATTACHFILE"
            PROVE  /\ Len(data') = posted[id].att
                   /\ VecsAre(LeastOf(gMaxBlockSize, cbp.fileLen))'
                   /\ cbp'.remainVecs = BlockCount(cbp.fileLen)'
        <4>1. ToFile(e) /\ mRecvQ = <<>>
          BY <1>1, <1>12, <3>5 DEF MoreAttach
        <4>2. Len(data') = posted[id].att
          BY <1>4, <1>8, <3>2, <4>1
        <4>3. VecsAre(LeastOf(gMaxBlockSize, cbp.fileLen))'
          <5>1. PICK size : size = LeastOf(gMaxBlockSize, cbp.fileLen)
            OBVIOUS
          <5>2. VecsAre(size)'
            BY <1>2, <3>5, <4>1, <5>1, FileSized
          <5>3. size = LeastOf(gMaxBlockSize, cbp'.fileLen)
            BY <3>1, <5>1
          <5> QED
            BY <5>2, <5>3 DEF VecsAre
        <4>4. cbp'.remainVecs = BlockCount(cbp.fileLen)'
          BY <1>2, <3>1, <4>1 DEF ToFile, CbpType, BlockCount
        <4> QED
          BY <4>2, <4>3, <4>4
      <3>6. AtContent(id, i)'
        BY <1>8, <3>1, <3>2, <3>3, <3>4, <3>5 DEF AtContent
      <3>7. Aligned(id, i)'
        BY <3>1, <3>6 DEF Aligned, AttachParts
      <3> QED
        BY <1>1, <1>6, <1>7, <2>1, <3>7, AfterCallback
    <2> QED
      BY <1>7, <2>2, <2>3
  <1> QED
    BY <1>3, <1>4, <1>5, <1>11, <1>12 DEF Attached

(* A block of a file.  Only a file of one block is ever handed on.         *)
LEMMA OrderFileBlock ==
    ASSUME OrderInv, NEW written \in BOOLEAN, RecvFile(written)
    PROVE  SenderOrder' /\ RecvOk' /\ Results'
  <1>1. /\ UNCHANGED <<sendVars, wire, mSendEventMap>> /\ ended = "open" /\ Done
        /\ mNextRecvPart = "ATTACHFILE" /\ ended' = "open" /\ mNextRecvPart \in AttachParts
    BY DEF RecvFile, NothingSent, Callback, AttachParts
  <1>2. /\ BaseInv /\ SendTyped /\ cbp \in CbpType
    BY SenderOf, MoreTyped
  <1>3. PICK e : e = cbp.cev
    OBVIOUS
  <1>4. /\ Held = data \o mCurRecvBlock.got /\ Held \in Seq(Units)
        /\ Len(Held) = Len(data) + mCurRecvBlock.size
        /\ Len(data) \in Nat /\ mCurRecvBlock.size \in Nat
        /\ e # Nil /\ e \in DOMAIN posted /\ cbp.attLen = posted[e].att
        /\ cbp.fileLen = posted[e].file /\ cbp.fileLen \in Nat
    BY <1>1, <1>3, HeldNow
  <1>5. Filed /\ mRecvQ = <<>>
    BY <1>2, <1>3, <1>4, FileOut
  <1>6. CASE FileStalls /\ UNCHANGED <<reply, handed>>
    <2>1. Results'
      BY <1>1, <1>6, ResultsKept
    <2>2. VecCount' = 0
      <3>1. mRecvQ' = <<>> /\ mCurRecvBlock' = Nil
        BY <1>6 DEF FileStalls
      <3>2. Len(mRecvQ') = 0
        BY <3>1
      <3> QED
        BY <3>1, <3>2 DEF VecCount
    <2>3. RecvOk'
      BY <2>2 DEF RecvOk
    <2> QED
      BY <1>1, <2>1, <2>3, SenderSame
  <1>7. CASE Delivers(e, Held) /\ cbp.remainVecs = 1
    <2>1. /\ mCurRecvBlock' = Nil /\ mNextRecvPart' = "HEADER"
          /\ handed' = Append(handed, [id |-> e, data |-> Held])
      BY <1>7 DEF Delivers, ToHeader, PostsUnit
    <2>2. Outcome
      BY <1>7 DEF Outcome, Delivers
    <2>3. PICK id \in Messages, i \in Nat : NextAfter(id, i) /\ (Broken(id) \/ Aligned(id, i))
      BY <1>1, CallbackAt
    <2>4. CASE Broken(id)
      <3>1. Lost(e)
        BY <1>3, <1>4, <2>4 DEF Broken
      <3>2. HandedOk' /\ Intact'
        BY <1>1, <1>4, <2>1, <3>1, OrderDeliver
      <3>3. Results'
        BY <1>1, <3>2, ResultsKept
      <3>4. Broken(id)'
        BY <1>1, <2>2, <2>4, LostKept
      <3> QED
        BY <1>1, <2>1, <2>3, <3>3, <3>4, AfterCallback
    <2>5. CASE Aligned(id, i)
      <3>1. /\ id = e /\ i = 2 + Len(Held) /\ HandedUpTo(id - 1) /\ MapFrom(id)
            /\ \A n \in 1..Len(Held) : Held[n] = UnitAt(id, 2 + n)
            /\ Len(data) = posted[id].att /\ VecsAre(LeastOf(gMaxBlockSize, cbp.fileLen))
            /\ BlockCount(cbp.fileLen) = 1
        BY <1>1, <1>3, <1>7, <2>5 DEF Aligned, AtContent
      <3>2. mCurRecvBlock.size = cbp.fileLen
        <4>1. PICK f, g : f = cbp.fileLen /\ g = gMaxBlockSize
          OBVIOUS
        <4>2. f \in Nat /\ g \in Nat /\ BlockCount(f) = 1
          BY <1>4, <3>1, <4>1, StreamAssumption
        <4>3. f > 0
          BY <4>2, BlockCountOf
        <4>4. f <= (1 - 1) * g + g
          BY <4>1, <4>2, <4>3, BlockCountOf
        <4>5. f <= g
          BY <4>2, <4>4
        <4>6. LeastOf(g, f) = f
          BY <4>2, <4>5 DEF LeastOf
        <4>7. mCurRecvBlock # Nil
          BY <1>1 DEF Done
        <4> QED
          BY <3>1, <4>1, <4>6, <4>7 DEF VecsAre
      <3>3. Len(Held) = posted[e].att + posted[e].file
        BY <1>4, <3>1, <3>2
      <3>4. Held = Content(id, posted[id])
        BY <1>2, <1>4, <3>1, <3>3, ContentIs
      <3>5. i = Size(id)
        <4>1. /\ Size(id) = 2 + posted[id].att + posted[id].file
              /\ posted[id].att \in Nat /\ posted[id].file \in Nat
          BY <1>2, <1>4, <3>1, SizeOf
        <4>2. i = 2 + Len(Held) /\ Len(Held) = posted[id].att + posted[id].file
          BY <3>1, <3>3
        <4>3. PICK a, f : a = posted[id].att /\ f = posted[id].file
          OBVIOUS
        <4>4. 2 + (a + f) = (2 + a) + f
          BY <4>1, <4>3
        <4> QED
          BY <4>1, <4>2, <4>3, <4>4
      <3>6. MapFrom(id)'
        BY <1>1, <3>1 DEF MapFrom
      <3> QED
        BY <1>1, <1>4, <1>7, <2>2, <2>3, <3>1, <3>4, <3>5, <3>6, OrderDelivered
    <2> QED
      BY <2>3, <2>4, <2>5
  <1> QED
    BY <1>3, <1>4, <1>5, <1>6, <1>7 DEF Filed

(* A vector of a drain.                                                    *)
LEMMA OrderDrain ==
    ASSUME OrderInv, RecvDrain
    PROVE  SenderOrder' /\ RecvOk' /\ Results'
  <1>1. /\ UNCHANGED <<sendVars, wire, data, mSendEventMap, handed>> /\ ended = "open" /\ Done
        /\ mNextRecvPart = "DRAIN" /\ ended' = "open"
    BY DEF RecvDrain, NothingSent, Callback
  <1>2. /\ BaseInv /\ SendTyped /\ RecvTyped /\ cbp \in CbpType /\ mRecvQ = <<>>
    BY <1>1, SenderOf, MoreTyped, CurrentVec
  <1>3. \/ ToHeader /\ cbp.remainVecs = 1
        \/ ToDrain /\ cbp.remainVecs > 1
    BY <1>2, DrainOut
  <1>4. Outcome /\ mCurRecvBlock' = Nil
    BY <1>3 DEF Outcome, ToHeader, ToDrain, PostsUnit, PostsOne
  <1>5. Results'
    BY <1>1, ResultsKept
  <1>6. PICK id \in Messages, i \in Nat : NextAfter(id, i) /\ (Broken(id) \/ Aligned(id, i))
    BY <1>1, CallbackAt
  <1>7. CASE Broken(id)
    <2>1. Broken(id)'
      BY <1>1, <1>4, <1>7, LostKept
    <2> QED
      BY <1>1, <1>4, <1>5, <1>6, <2>1, AfterCallback
  <1>8. CASE Aligned(id, i)
    <2>1. PICK len, left : len = cbp.drainLen /\ left = cbp.remainVecs
      OBVIOUS
    <2>2. /\ id # 0 /\ posted[id].kind \notin Usables /\ UpTo(id)
          /\ len = DrainLen(posted[id]) /\ len > 0 /\ left <= BlockCount(len)
          /\ i = Size(id) - len + Drained(len, left) + Len(Got)
          /\ VecsAre(DrainVec(len, left))
      BY <1>1, <1>8, <2>1 DEF Aligned, AtDrain
    <2>3. len \in Nat /\ left \in Nat /\ left > 0 /\ id \in DOMAIN posted
      BY <1>2, <1>3, <2>1, <2>2, MoreTyped DEF Messages
    <2>4. Len(Got) = DrainVec(len, left) /\ mCurRecvBlock.size = DrainVec(len, left)
      BY <1>1, <2>2, CallbackAt DEF VecsAre
    <2>5. /\ Drained(len, left) \in Nat /\ DrainVec(len, left) \in Nat
          /\ Drained(len, left) + DrainVec(len, left) <= len
          /\ left > 1 => /\ DrainVec(len, left) = gMaxBlockSize
                         /\ Drained(len, left - 1) = Drained(len, left) + gMaxBlockSize
          /\ left = 1 => \/ Drained(len, left) + DrainVec(len, left) = len
                         \/ /\ len > gMaxBlockSize /\ (len % gMaxBlockSize) = 0
                            /\ Drained(len, left) + DrainVec(len, left) < len
      BY <2>2, <2>3, DrainedOf
    <2>6. Size(id) \in Nat /\ Size(id) - len >= 1
      <3>1. PICK a, f : a = posted[id].att /\ f = posted[id].file
        OBVIOUS
      <3>2. a \in Nat /\ f \in Nat /\ Size(id) = 2 + a + f
        BY <1>2, <2>3, <3>1, SizeOf
      <3>3. len = (IF posted[id].kind = "alien" THEN 1 ELSE 0) + a + f
        BY <2>2, <3>1 DEF DrainLen
      <3>4. len <= 1 + a + f
        BY <3>2, <3>3
      <3> QED
        BY <2>3, <3>2, <3>4
    <2>7. UpTo(id)' /\ Size(id)' = Size(id) /\ (EndsEarly(id)' <=> EndsEarly(id))
      BY <1>1, <2>2, SenderSame DEF UpTo, HandedUpTo, MapFrom, sendVars
    <2>8. CASE left = 1
      <3>1. ToHeader
        BY <1>3, <2>1, <2>8
      <3>2. i = Size(id) \/ (EndsEarly(id) /\ 1 <= i /\ i < Size(id))
        <4>1. PICK d, v, z : d = Drained(len, left) /\ v = DrainVec(len, left) /\ z = Size(id)
          OBVIOUS
        <4>2. /\ d \in Nat /\ v \in Nat /\ z \in Nat /\ z - len >= 1
              /\ i = z - len + d + v
          BY <2>2, <2>4, <2>5, <2>6, <4>1
        <4>3. CASE d + v = len
          BY <2>3, <4>1, <4>2, <4>3
        <4>4. CASE len > gMaxBlockSize /\ (len % gMaxBlockSize) = 0 /\ d + v < len
          <5>1. 1 <= i /\ i < z
            BY <2>3, <4>2, <4>4
          <5>2. posted[id].kind \in {"stray", "malformed", "odd", "alien"}
            BY <1>2, <2>2, <2>3, ShapeTyped DEF Kinds, Usables
          <5>3. EndsEarly(id)
            BY <2>2, <4>4, <5>2 DEF EndsEarly
          <5> QED
            BY <4>1, <5>1, <5>3
        <4> QED
          BY <2>5, <2>8, <4>1, <4>3, <4>4
      <3>3. ~GotUnit' /\ mNextRecvPart' = "HEADER"
        BY <1>4, <3>1 DEF GotUnit, ToHeader
      <3>4. AtHeader(id, i)'
        BY <2>7, <3>2, <3>3 DEF AtHeader
      <3>5. Aligned(id, i)'
        BY <3>3, <3>4 DEF Aligned, AttachParts
      <3> QED
        BY <1>1, <1>4, <1>5, <1>6, <3>5, AfterCallback
    <2>9. CASE left > 1
      <3>1. ToDrain
        BY <1>3, <2>1, <2>9
      <3>2. mNextRecvPart' = "DRAIN"
        BY <3>1 DEF ToDrain
      <3>3. left - 1 # 0 /\ left - 1 \in Nat /\ left - 1 > 0 /\ left - 1 <= BlockCount(len)
            /\ BlockCount(len) \in Nat /\ BlockCount(len) # 1
        <4>1. PICK b : b = BlockCount(len)
          OBVIOUS
        <4>2. b \in Nat /\ left <= b
          BY <2>2, <2>3, <4>1, BlockCountOf
        <4>3. left - 1 # 0 /\ left - 1 \in Nat /\ left - 1 > 0 /\ left - 1 <= b /\ b # 1
          BY <2>3, <2>9, <4>2
        <4> QED
          BY <4>1, <4>2, <4>3
      <3>4. /\ Post(<<[mCurRecvBlock EXCEPT !.size = DrainSize(left - 1), !.got = <<>>]>>)
            /\ cbp' = [cbp EXCEPT !.remainVecs = left - 1]
        BY <2>1, <3>3 DEF RecvDrain
      <3>5. cbp'.drainLen = len /\ cbp'.remainVecs = left - 1
        BY <1>2, <2>1, <3>4 DEF CbpType
      <3>6. PICK v : v = [mCurRecvBlock EXCEPT !.size = DrainSize(left - 1), !.got = <<>>]
        OBVIOUS
      <3>7. v.size = DrainVec(len, left - 1)
        <4>1. mCurRecvBlock \in RecvVecs
          BY <1>1, <1>2, CurrentVec
        <4>2. v.size = DrainSize(left - 1)
          BY <3>6, <4>1 DEF RecvVecs
        <4>3. left - 1 = 1 <=> ~(left - 1 > 1)
          BY <2>3, <2>9
        <4>4. DrainSize(left - 1) = IF left - 1 = 1 THEN len % gMaxBlockSize ELSE gMaxBlockSize
          BY <2>1, <2>4, <2>5, <2>9 DEF DrainSize
        <4> QED
          BY <3>3, <4>2, <4>3, <4>4 DEF DrainVec
      <3>8. VecsAre(DrainVec(len, left - 1))' /\ Len(Got') = 0
        <4>1. PICK size : size = DrainVec(len, left - 1)
          OBVIOUS
        <4>2. VecsAre(size)' /\ Len(Got') = 0
          BY <1>2, <3>4, <3>6, <3>7, <4>1, VecsPosted
        <4> QED
          BY <4>1, <4>2 DEF VecsAre
      <3>9. i = Size(id) - len + Drained(len, left - 1) + Len(Got')
        <4>1. PICK d, g, z : d = Drained(len, left) /\ g = gMaxBlockSize /\ z = Size(id)
          OBVIOUS
        <4>2. /\ d \in Nat /\ g \in Nat /\ z \in Nat
              /\ Drained(len, left - 1) = d + g /\ i = z - len + d + g
          BY <2>2, <2>4, <2>5, <2>6, <2>9, <4>1, StreamAssumption
        <4>3. i = z - len + (d + g) + 0
          BY <2>3, <4>2
        <4> QED
          BY <3>8, <4>1, <4>2, <4>3
      <3>10. AtDrain(id, i)'
        <4>1. posted' = posted /\ Drained(len, left - 1)' = Drained(len, left - 1)
          BY <1>1 DEF sendVars, Drained
        <4> QED
          BY <2>2, <2>7, <3>3, <3>5, <3>8, <3>9, <4>1 DEF AtDrain
      <3>11. Aligned(id, i)'
        BY <3>2, <3>10 DEF Aligned, AttachParts
      <3> QED
        BY <1>1, <1>4, <1>5, <1>6, <3>11, AfterCallback
    <2> QED
      BY <2>3, <2>8, <2>9
  <1> QED
    BY <1>6, <1>7, <1>8

-----------------------------------------------------------------------------
(* The order of the units is kept by every step.                           *)
LEMMA OrderInit ==
    ASSUME Init
    PROVE  OrderInv
  <1>1. /\ posted = <<>> /\ mSendQ = <<>> /\ sendFile = <<>> /\ wire = <<>> /\ handed = <<>>
        /\ mCurRecvBlock = Nil /\ mNextRecvPart = "HEADER" /\ cbp.cev = Nil
        /\ mSendEventMap = Ids /\ ended = "open"
    BY DEF Init, NewCbp
  <1>2. DOMAIN mSendQ = {} /\ DOMAIN handed = {} /\ Len(posted) = 0 /\ Len(wire) = 0
    BY <1>1
  <1>3. SenderOrder
    BY <1>1, <1>2 DEF SenderOrder, QueueOk, FileOk, WireOk
  <1>4. Results
    BY <1>1, <1>2 DEF Results, HandedOk, MisreadOk, BoundariesKept, Intact
  <1>5. RecvOk
    <2>1. 0 \in Messages /\ 0 \in Nat
      BY DEF Messages
    <2>2. NextAfter(0, 0)
      BY <1>1, <1>2 DEF NextAfter, SenderAfter, Full
    <2>3. ~GotUnit
      BY <1>1 DEF GotUnit
    <2>4. UpTo(0)
      <3>1. HandedUpTo(0)
        BY <1>2 DEF HandedUpTo
      <3>2. MapFrom(0)
        BY <1>1 DEF MapFrom
      <3> QED
        BY <3>1, <3>2 DEF UpTo
    <2>5. Aligned(0, 0)
      BY <1>1, <2>3, <2>4 DEF Aligned, AtHeader, AttachParts
    <2>6. At(0, 0)
      BY <2>2, <2>3, <2>5 DEF At, Reads
    <2> QED
      BY <2>1, <2>6 DEF RecvOk
  <1> QED
    BY <1>3, <1>4, <1>5, StreamInit DEF OrderInv

LEMMA OrderCallbackStep ==
    ASSUME OrderInv, CallbackStep
    PROVE  SenderOrder' /\ RecvOk' /\ Results'
  BY OrderMisread, OrderHeader, OrderUnusable, OrderUsable, OrderAttach, OrderFileBlock,
     OrderDrain DEF CallbackStep, MessageStep

LEMMA OrderStutters ==
    ASSUME OrderInv, UNCHANGED vars
    PROVE  SenderOrder' /\ RecvOk' /\ Results'
  <1>1. /\ UNCHANGED <<sendVars, wire, mRecvQ, mCurRecvBlock, mNextRecvPart, cbp, data, handed,
                       mSendEventMap, ended>>
        /\ UNCHANGED recvVars
    BY DEF vars, eventVars, recvVars
  <1>2. SenderOrder' /\ Grows
    BY <1>1, SenderSame
  <1>3. Results'
    BY <1>1, <1>2, IntactKept, MisreadKept DEF Results
  <1>4. RecvOk'
    <2>1. VecCount' = VecCount /\ GotUnit' = GotUnit /\ First' = First
      BY <1>1 DEF VecCount, GotUnit, First
    <2> SUFFICES ASSUME ended = "open", VecCount > 0
                 PROVE  \E id \in Messages' : \E i \in Nat : At(id, i)'
      BY <1>1, <2>1 DEF RecvOk
    <2>2. PICK id \in Messages, i \in Nat : At(id, i)
      BY DEF OrderInv, RecvOk
    <2>3. NextAfter(id, i)' /\ id \in Messages' /\ (Lost(id)' <=> Lost(id))
      BY <1>1, <2>2, SenderSame DEF At
    <2>4. Reads(id) /\ Reads(id)'
      BY <1>1, <2>1, <2>2 DEF At, Reads
    <2>5. Broken(id) => Broken(id)'
      BY <1>1 DEF Broken, Lost, sendVars
    <2>6. Aligned(id, i) => Aligned(id, i)'
      BY <1>1, <1>2, <2>4, AlignedSent
    <2> QED
      BY <2>2, <2>3, <2>4, <2>5, <2>6 DEF At
  <1> QED
    BY <1>2, <1>3, <1>4

LEMMA OrderNext ==
    ASSUME OrderInv, [Next]_vars
    PROVE  OrderInv'
  <1>1. StreamInv'
    BY StreamNext DEF OrderInv
  <1>2. SenderOrder' /\ RecvOk' /\ Results'
    BY StepKinds, OrderSender, OrderTake, OrderCallbackStep, OrderEnds, OrderRead, OrderStutters
  <1> QED
    BY <1>1, <1>2 DEF OrderInv

(* The order of the units, from the sender's queue to what is handed on:   *)
(* on the wire every unit follows the one before it, and while the receive *)
(* callbacks can go on the next unit follows their place in the message.   *)
THEOREM OrderInvariant == Spec => []OrderInv
  <1>1. Init => OrderInv
    BY OrderInit
  <1>2. OrderInv /\ [Next]_vars => OrderInv'
    BY OrderNext
  <1> QED
    BY <1>1, <1>2, PTL DEF Spec

(* However the stream is cut, what is taken for a header is one (Conn::    *)
(* recvCallback, prepare2Drain), unless a file that was announced was left *)
(* out before, or a drain whose length is a multiple of the block ended    *)
(* early (conncb.cpp:1031).                                                *)
THEOREM BoundariesKeptAlways == Spec => []BoundariesKept
  <1>1. OrderInv => BoundariesKept
    BY DEF OrderInv, Results
  <1> QED
    BY <1>1, OrderInvariant, PTL

(* What eventDone hands on is what was sent: the usable messages in order, *)
(* none left out, each with all of its attachments and its file, as long   *)
(* as the sender sent the files it announced; for every cut of the stream  *)
(* and any response buffers (recvAttach, recvFile, checkEventReady).       *)
THEOREM IntactAlways == Spec => []Intact
  <1>1. OrderInv => Intact
    BY DEF OrderInv, Results
  <1> QED
    BY <1>1, OrderInvariant, PTL
=============================================================================
