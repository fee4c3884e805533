-------------------------- MODULE TimerWheelProofs --------------------------
(***************************************************************************)
(* Proofs about TimerWheel, for any number of timers, levels and buckets.  *)
(***************************************************************************)
EXTENDS TimerWheelInv, NumProofs

-----------------------------------------------------------------------------
(* Powers of two, and levels *)

Width == LevelBits * Levels

\* The shifts are powers of two.
LEMMA Pow2Recursion ==
  /\ Width \in Nat
  /\ Pow2 \in [0 .. Width -> Nat]
  /\ Pow2[0] = 1
  /\ \A n \in 1 .. Width : Pow2[n] = 2 * Pow2[n - 1]
  <1>1. Width \in Nat
    BY TimerAssumption DEF Width
  <1> DEFINE step == [n \in 1 .. Width |-> [v \in Nat |-> 2 * v]]
  <1>2. PICK g : Unfolds(g, Nat, 1, step, Width)
    <2>1. step \in [1 .. Width -> [Nat -> Nat]]
      OBVIOUS
    <2> HIDE DEF step
    <2> QED BY <1>1, <2>1, Recursion
  <1>3. g \in [0 .. Width -> Nat] /\ g[0] = 1 /\ \A n \in 1 .. Width : g[n] = 2 * g[n - 1]
    <2> HIDE DEF step
    <2>1. g \in [0 .. Width -> Nat] /\ g[0] = 1
      BY <1>2 DEF Unfolds
    <2>2. ASSUME NEW n \in 1 .. Width PROVE g[n] = 2 * g[n - 1]
      <3>1. g[n] = step[n][g[n - 1]]
        BY <1>2 DEF Unfolds
      <3>2. g[n - 1] \in Nat
        BY <1>1, <2>1
      <3> QED BY <3>1, <3>2 DEF step
    <2> QED BY <2>1, <2>2
  <1>4. g = [n \in 0 .. LevelBits * Levels |-> IF n = 0 THEN 1 ELSE 2 * g[n - 1]]
    BY <1>1, <1>3 DEF Width
  <1>5. Pow2 = [n \in 0 .. LevelBits * Levels |-> IF n = 0 THEN 1 ELSE 2 * Pow2[n - 1]]
    BY <1>4 DEF Pow2
  <1>6. Pow2[0] = 1 /\ \A n \in 1 .. Width : Pow2[n] = 2 * Pow2[n - 1]
    BY <1>1, <1>5 DEF Width
  <1>7. \A n \in 0 .. Width : Pow2[n] \in Nat
    <2> DEFINE S == {n \in 0 .. Width : Pow2[n] \in Nat}
    <2>1. 0 \in S
      BY <1>1, <1>6
    <2>2. ASSUME NEW n \in 0 .. Width - 1, n \in S PROVE n + 1 \in S
      <3>1. n + 1 \in 1 .. Width /\ (n + 1) - 1 = n
        BY <1>1
      <3>2. Pow2[n + 1] = 2 * Pow2[n]
        BY <1>6, <3>1
      <3> QED BY <2>2, <3>1, <3>2
    <2>3. \A n \in 0 .. Width : n \in S
      <3> HIDE DEF S
      <3> QED BY <1>1, <2>1, <2>2, InductionTo
    <2> QED BY <2>3
  <1>8. Pow2 \in [0 .. Width -> Nat]
    BY <1>5, <1>7 DEF Width
  <1> QED BY <1>1, <1>6, <1>8

\* Shifts add up.
LEMMA Pow2Sum ==
  ASSUME NEW a \in Nat, NEW b \in Nat, a + b <= Width
  PROVE  Pow2[a + b] = Pow2[a] * Pow2[b]
  <1> DEFINE S == {n \in 0 .. Width - a : Pow2[a + n] = Pow2[a] * Pow2[n]}
  <1>1. Width - a \in Nat /\ b \in 0 .. Width - a
    BY Pow2Recursion
  <1>2. 0 \in S
    BY <1>1, Pow2Recursion
  <1>3. ASSUME NEW n \in 0 .. (Width - a) - 1, n \in S PROVE n + 1 \in S
    <2>1. n \in 0 .. Width /\ a + n \in 0 .. Width /\ a \in 0 .. Width
      BY <1>1, Pow2Recursion
    <2>2. Pow2[n + 1] = 2 * Pow2[n]
      BY <1>1, Pow2Recursion
    <2>3. Pow2[a + (n + 1)] = 2 * Pow2[a + n]
      BY <1>1, Pow2Recursion
    <2>4. Pow2[n] \in Nat /\ Pow2[a] \in Nat /\ Pow2[a + n] \in Nat
      BY <2>1, Pow2Recursion
    <2>5. \A x, y, z \in Nat : x = y * z => 2 * x = y * (2 * z)
      OBVIOUS
    <2>6. Pow2[a + n] = Pow2[a] * Pow2[n]
      BY <1>3
    <2>7. Pow2[a + (n + 1)] = Pow2[a] * Pow2[n + 1]
      BY <2>2, <2>3, <2>4, <2>5, <2>6
    <2>8. n + 1 \in 0 .. Width - a
      BY <1>1
    <2> QED BY <2>7, <2>8
  <1>4. \A n \in 0 .. Width - a : n \in S
    <2> HIDE DEF S
    <2> QED BY <1>1, <1>2, <1>3, InductionTo
  <1> QED BY <1>1, <1>4

\* No power of two is 0.
LEMMA Pow2Positive ==
  \A n \in 0 .. Width : Pow2[n] \in Nat /\ Pow2[n] >= 1
  <1> DEFINE S == {n \in 0 .. Width : Pow2[n] >= 1}
  <1>1. 0 \in S
    BY Pow2Recursion
  <1>2. ASSUME NEW n \in 0 .. Width - 1, n \in S PROVE n + 1 \in S
    <2>1. Pow2[n + 1] = 2 * Pow2[n] /\ n + 1 \in 0 .. Width
      BY Pow2Recursion
    <2>2. Pow2[n] \in Nat
      BY Pow2Recursion
    <2> QED BY <1>2, <2>1, <2>2
  <1>3. \A n \in 0 .. Width : n \in S
    <2> HIDE DEF S
    <2> QED BY <1>1, <1>2, InductionTo, Pow2Recursion
  <1> QED BY <1>3, Pow2Recursion

\* Larger shifts give larger powers.
LEMMA Pow2Monotone ==
  ASSUME NEW a \in Nat, NEW b \in Nat, a <= b, b <= Width
  PROVE  Pow2[a] <= Pow2[b]
  <1>2. a \in 0 .. Width /\ b - a \in 0 .. Width /\ a + (b - a) = b /\ b - a \in Nat
    BY Pow2Recursion
  <1>1. Pow2[a + (b - a)] = Pow2[a] * Pow2[b - a]
    BY <1>2, Pow2Sum
  <1>3. \A x, y \in Nat : y >= 1 => x <= x * y
    OBVIOUS
  <1> QED BY <1>1, <1>2, <1>3, Pow2Positive

\* The bits below a level, and those of the next, are within a time.
LEMMA LevelShift ==
  ASSUME NEW l \in 0 .. Levels
  PROVE  /\ l * LevelBits \in 0 .. Width
         /\ l < Levels => (l + 1) * LevelBits = l * LevelBits + LevelBits
  BY TimerAssumption DEF Width

\* A level has at least two buckets, and a bucket of the next level spans a
\* whole turn of this one; level 0 counts single grains, and a bucket of a
\* level after the last would span all of time.
LEMMA Spans ==
  /\ PER_LEVEL \in Nat /\ PER_LEVEL >= 2
  /\ \A l \in 0 .. Levels : Span(l) \in Nat /\ Span(l) >= 1
  /\ Span(0) = 1 /\ Span(Levels) = Never
  /\ \A l \in 0 .. Levels - 1 : Span(l + 1) = PER_LEVEL * Span(l)
  <1>1. LevelBits \in 1 .. Width
    BY TimerAssumption DEF Width
  <1>2. PER_LEVEL \in Nat /\ PER_LEVEL >= 2
    <2>1. Pow2[1] <= Pow2[LevelBits]
      BY <1>1, Pow2Monotone, Pow2Recursion
    <2>2. Pow2[1] = 2
      BY <1>1, Pow2Recursion
    <2> QED BY <1>1, <2>1, <2>2, Pow2Recursion DEF PER_LEVEL
  <1>3. \A l \in 0 .. Levels : Span(l) \in Nat /\ Span(l) >= 1
    BY LevelShift, Pow2Positive DEF Span
  <1>4. Span(0) = 1
    BY TimerAssumption, Pow2Recursion DEF Span
  <1>5. Span(Levels) = Never
    BY TimerAssumption DEF Span, Never, Width
  <1>6. ASSUME NEW l \in 0 .. Levels - 1 PROVE Span(l + 1) = PER_LEVEL * Span(l)
    <2>1. l \in 0 .. Levels /\ l + 1 \in 0 .. Levels /\ l < Levels
      BY TimerAssumption
    <2>2. (l + 1) * LevelBits = LevelBits + l * LevelBits
      BY <1>1, <2>1, LevelShift
    <2>3. l * LevelBits \in Nat /\ (l + 1) * LevelBits <= Width
      BY <2>1, LevelShift
    <2>4. Pow2[LevelBits + l * LevelBits] = Pow2[LevelBits] * Pow2[l * LevelBits]
      BY <1>1, <2>2, <2>3, Pow2Sum
    <2> QED BY <2>2, <2>4 DEF Span, PER_LEVEL
  <1> QED BY <1>2, <1>3, <1>4, <1>5, <1>6

\* The span of a level is a multiple of that of each level below.
LEMMA SpanDivides ==
  ASSUME NEW a \in 0 .. Levels, NEW b \in 0 .. Levels, a <= b
  PROVE  \E q \in Nat : q >= 1 /\ Span(b) = q * Span(a)
  <1>1. a * LevelBits \in 0 .. Width /\ b * LevelBits \in 0 .. Width
    BY LevelShift
  <1>2. b * LevelBits - a * LevelBits \in Nat
    BY TimerAssumption, <1>1
  <1> DEFINE c == b * LevelBits - a * LevelBits
  <1>3. c \in 0 .. Width /\ c + a * LevelBits = b * LevelBits
    BY <1>1, <1>2, Pow2Recursion
  <1>4. Pow2[c + a * LevelBits] = Pow2[c] * Pow2[a * LevelBits]
    BY <1>1, <1>3, Pow2Sum, Pow2Recursion
  <1>5. Pow2[c] \in Nat /\ Pow2[c] >= 1
    BY <1>3, Pow2Positive
  <1> QED BY <1>3, <1>4, <1>5 DEF Span

-----------------------------------------------------------------------------
(* Which level a time belongs on, and which levels base crosses *)

\* ilog64 of a number of fewer bits than a time: it is below that power of
\* two and, unless it is 0, not below the one before.
LEMMA IlogFact ==
  ASSUME NEW n \in Nat, n < Never
  PROVE  /\ Ilog(n) \in 0 .. Width
         /\ n < Pow2[Ilog(n)]
         /\ Ilog(n) > 0 => n >= Pow2[Ilog(n) - 1]
  <1> DEFINE T == {k \in 0 .. Width : n < Pow2[k]}
  <1>1. PICK k \in T : \A j \in T : k <= j
    <2>1. T \subseteq Nat
      BY Pow2Recursion
    <2>2. Width \in T
      BY Pow2Recursion DEF Never, Width
    <2> HIDE DEF T
    <2> QED BY <2>1, <2>2, LeastNumber
  <1>2. k > 0 => n >= Pow2[k - 1]
    <2> SUFFICES ASSUME k > 0 PROVE n >= Pow2[k - 1]
      OBVIOUS
    <2>1. k - 1 \in 0 .. Width /\ k - 1 \notin T
      BY <1>1, Pow2Recursion
    <2>2. Pow2[k - 1] \in Nat
      BY <2>1, Pow2Recursion
    <2> QED BY <2>1, <2>2
  <1>3. k \in 0 .. LevelBits * Levels /\ n < Pow2[k]
    BY DEF Width
  <1> HIDE DEF T
  <1> QED BY <1>2, <1>3 DEF Ilog, Width

\* level_of: a timer that is due at when belongs on level l if when is less
\* than a turn of level l away from base, and on level 0 or a bucket of level l away.
LEMMA LevelOfFact ==
  ASSUME NEW w, w.base \in Time, NEW when \in Time, w.base <= when
  PROVE  /\ LevelOf(w, when) \in Level
         /\ when - w.base < Span(LevelOf(w, when) + 1)
         /\ LevelOf(w, when) = 0 \/ when - w.base >= Span(LevelOf(w, when))
  <1> DEFINE d == when - w.base
             k == Ilog(d \div 2)
             l == k \div LevelBits
  <1>1. d \in Nat /\ d < Never /\ Never \in Nat
    BY TimeAssumption, Pow2Recursion DEF Time, Never, Width
  <1>2. d % Never = d
    BY <1>1
  <1>3. LevelOf(w, when) = l
    BY <1>2 DEF LevelOf
  <1>4. d \div 2 \in Nat /\ d \div 2 < Never
    BY <1>1
  <1>5. /\ k \in 0 .. Width
        /\ d \div 2 < Pow2[k]
        /\ k > 0 => d \div 2 >= Pow2[k - 1]
    BY <1>4, IlogFact
  <1>6. LevelBits \in Nat /\ LevelBits >= 1 /\ Levels \in Nat /\ Levels >= 1
    BY TimerAssumption
  <1>7. k < Width
    <2> SUFFICES ASSUME k = Width PROVE FALSE
      BY <1>5, Pow2Recursion
    <2>1. Width \in Nat /\ Width >= 1
      BY <1>6 DEF Width
    <2>2. Never = 2 * Pow2[Width - 1] /\ Pow2[Width - 1] \in Nat
      BY <2>1, Pow2Recursion DEF Never, Width
    <2>3. d \div 2 >= Pow2[Width - 1]
      BY <1>5, <2>1
    <2> HIDE DEF d, k
    <2> QED BY <1>1, <2>2, <2>3
  <1>8. l \in Nat /\ l * LevelBits <= k /\ k < (l + 1) * LevelBits
    <2> HIDE DEF k
    <2> QED BY <1>5, <1>6
  <1>9. l \in Level
    <2>1. k < LevelBits * Levels
      BY <1>7 DEF Width
    <2>2. l * LevelBits < Levels * LevelBits
      <3> HIDE DEF l, k
      <3> QED BY <1>5, <1>6, <1>8, <2>1
    <2>3. l < Levels
      <3> HIDE DEF l, k
      <3> QED BY <1>6, <1>8, <2>2
    <2> HIDE DEF l
    <2> QED BY <1>6, <1>8, <2>3 DEF Level
  <1>10. d < Span(l + 1)
    <2>1. (l + 1) * LevelBits \in 0 .. Width
      <3>1. l + 1 \in 0 .. Levels
        BY <1>9, <1>6 DEF Level
      <3> HIDE DEF l
      <3> QED BY <3>1, LevelShift
    <2>2. k + 1 \in Nat /\ k + 1 <= (l + 1) * LevelBits
      <3> HIDE DEF l, k
      <3> QED BY <1>5, <1>6, <1>8
    <2>3. Pow2[k + 1] <= Span(l + 1)
      <3> HIDE DEF l, k
      <3> QED BY <2>1, <2>2, Pow2Monotone DEF Span
    <2>4. Pow2[k + 1] = 2 * Pow2[k] /\ Pow2[k] \in Nat
      <3> HIDE DEF k
      <3>1. k + 1 \in 1 .. Width /\ (k + 1) - 1 = k /\ k \in 0 .. Width
        BY <1>5, <1>7, Pow2Recursion
      <3> QED BY <3>1, Pow2Recursion
    <2>5. d < Pow2[k + 1]
      <3> HIDE DEF d, k
      <3> QED BY <1>1, <1>5, <2>4
    <2>6. Span(l + 1) \in Nat
      <3> HIDE DEF l
      <3> QED BY <2>1, Pow2Recursion DEF Span
    <2> HIDE DEF d, k, l
    <2> QED BY <1>1, <2>3, <2>4, <2>5, <2>6
  <1>11. l = 0 \/ d >= Span(l)
    <2> SUFFICES ASSUME l # 0 PROVE d >= Span(l)
      OBVIOUS
    <2>1. l \in 1 .. Levels
      BY <1>9, <1>6 DEF Level
    <2>2. l * LevelBits \in 0 .. Width
      <3> HIDE DEF l
      <3> QED BY <2>1, LevelShift
    <2>3. k > 0
      <3> HIDE DEF l, k
      <3> QED BY <1>5, <1>6, <1>8, <2>1
    <2>4. Span(l) <= Pow2[k]
      <3> HIDE DEF l, k
      <3> QED BY <1>5, <1>8, <2>2, Pow2Monotone DEF Span
    <2>5. Pow2[k] = 2 * Pow2[k - 1] /\ Pow2[k - 1] \in Nat
      <3> HIDE DEF k
      <3> QED BY <1>5, <2>3, Pow2Recursion
    <2>6. d >= Pow2[k]
      <3> HIDE DEF d, k
      <3> QED BY <1>1, <1>5, <2>3, <2>5
    <2>7. Span(l) \in Nat
      <3> HIDE DEF l
      <3> QED BY <2>2, Pow2Recursion DEF Span
    <2> HIDE DEF d, k, l
    <2> QED BY <1>1, <2>4, <2>5, <2>6, <2>7
  <1> HIDE DEF l
  <1> QED BY <1>3, <1>9, <1>10, <1>11

\* The least of a set of times.
LEMMA MinFact ==
  ASSUME NEW T, T \subseteq Nat, T # {}
  PROVE  Min(T) \in T /\ \A y \in T : Min(T) <= y
  BY LeastNumber DEF Min

\* Dividing in two steps: equal quotients stay equal for a multiple of the divisor.
LEMMA DivCoarser ==
  ASSUME NEW a \in Nat, NEW b \in Nat, NEW s \in Nat, s >= 1, NEW q \in Nat, q >= 1,
         a \div s = b \div s
  PROVE  a \div (q * s) = b \div (q * s)
  <1>1. \A x, m, n \in Nat : m >= 1 /\ n >= 1 => x \div (n * m) = (x \div m) \div n
    OBVIOUS
  <1>2. a \div (q * s) = (a \div s) \div q
    BY <1>1
  <1>3. b \div (q * s) = (b \div s) \div q
    BY <1>1
  <1> QED BY <1>2, <1>3

\* A power of two divides the larger ones.
LEMMA Pow2Divides ==
  ASSUME NEW a \in Nat, NEW b \in Nat, a <= b, b <= Width
  PROVE  \E q \in Nat : q >= 1 /\ Pow2[b] = q * Pow2[a]
  <1>1. b - a \in Nat /\ b - a \in 0 .. Width /\ a + (b - a) = b /\ (b - a) + a = b
    BY Pow2Recursion
  <1>2. Pow2[b] = Pow2[b - a] * Pow2[a]
    BY <1>1, Pow2Sum
  <1>3. Pow2[b - a] \in Nat /\ Pow2[b - a] >= 1
    BY <1>1, Pow2Positive
  <1> QED BY <1>2, <1>3

\* timer_fast_forward goes through the levels whose current bucket changes,
\* and no others.
LEMMA CrossedFact ==
  ASSUME NEW w, w.base \in Time, NEW when \in Time, w.base < when,
         NEW L, L = (Changed(w, when) - 1) \div LevelBits
  PROVE  /\ L \in Level
         /\ \A l \in 0 .. L : when \div Span(l) # w.base \div Span(l)
         /\ \A l \in L + 1 .. Levels : when \div Span(l) = w.base \div Span(l)
  <1> DEFINE T == {k \in 0 .. LevelBits * Levels : when \div Pow2[k] = w.base \div Pow2[k]}
             c == Changed(w, when)
  <1>1. when \in Nat /\ w.base \in Nat /\ when < Never /\ w.base < Never /\ Never \in Nat
    BY TimeAssumption, Pow2Recursion DEF Time, Never, Width
  <1>2. LevelBits \in Nat /\ LevelBits >= 1 /\ Levels \in Nat /\ Levels >= 1 /\ Width \in Nat
    BY TimerAssumption, Pow2Recursion
  <1>3. c \in T /\ \A j \in T : c <= j
    <2>1. Width \in T
      <3>1. when \div Never = 0 /\ w.base \div Never = 0
        BY <1>1
      <3> QED BY <1>2, <3>1 DEF Never, Width
    <2>2. T \subseteq Nat
      BY <1>2 DEF Width
    <2>3. c = Min(T)
      BY DEF Changed
    <2> HIDE DEF T, c
    <2> QED BY <2>1, <2>2, <2>3, MinFact
  <1>4. 0 \notin T
    BY <1>1, Pow2Recursion
  <1>5. c \in 1 .. Width /\ c - 1 \notin T /\ c - 1 \in Nat
    BY <1>2, <1>3, <1>4 DEF Width
  <1>6. L \in Nat /\ L * LevelBits <= c - 1 /\ c <= (L + 1) * LevelBits
    <2> HIDE DEF c, T
    <2>1. \A x, m \in Nat : m >= 1 => /\ x \div m \in Nat /\ (x \div m) * m <= x
                                      /\ x + 1 <= ((x \div m) + 1) * m
      OBVIOUS
    <2>2. L = (c - 1) \div LevelBits
      BY DEF c
    <2>3. (c - 1) + 1 = c
      BY <1>5
    <2> QED BY <1>2, <1>5, <2>1, <2>2, <2>3
  <1>7. L \in Level
    <2>1. L * LevelBits < Levels * LevelBits
      <3> HIDE DEF c, T
      <3> QED BY <1>2, <1>5, <1>6 DEF Width
    <2>2. \A x, y, m \in Nat : x * m < y * m => x < y
      OBVIOUS
    <2>3. L < Levels
      BY <1>2, <1>6, <2>1, <2>2
    <2> QED BY <1>2, <1>6, <2>3 DEF Level
  <1>8. ASSUME NEW l \in 0 .. L PROVE when \div Span(l) # w.base \div Span(l)
    <2> SUFFICES ASSUME when \div Span(l) = w.base \div Span(l) PROVE FALSE
      OBVIOUS
    <2>1. l \in 0 .. Levels
      BY <1>2, <1>7 DEF Level
    <2>2. l * LevelBits \in Nat
      BY <2>1, LevelShift
    <2>3. l * LevelBits <= c - 1 /\ c - 1 <= Width
      <3> HIDE DEF c, T
      <3>1. \A x, y, m \in Nat : x <= y => x * m <= y * m
        OBVIOUS
      <3>2. l * LevelBits <= L * LevelBits
        BY <1>2, <1>6, <3>1
      <3>3. L * LevelBits \in Nat
        BY <1>2, <1>6
      <3> QED BY <1>2, <1>5, <1>6, <2>2, <3>2, <3>3
    <2>4. PICK q \in Nat : q >= 1 /\ Pow2[c - 1] = q * Span(l)
      <3> HIDE DEF c, T
      <3> QED BY <1>5, <2>2, <2>3, Pow2Divides DEF Span
    <2>5. Span(l) \in Nat /\ Span(l) >= 1
      BY <2>1, Spans
    <2>6. when \div Pow2[c - 1] = w.base \div Pow2[c - 1]
      <3> HIDE DEF c, T
      <3> QED BY <1>1, <2>4, <2>5, DivCoarser
    <2>7. c - 1 \in 0 .. LevelBits * Levels
      <3> HIDE DEF c, T
      <3> QED BY <1>2, <1>5 DEF Width
    <2> HIDE DEF c
    <2> QED BY <1>5, <2>6, <2>7
  <1>9. ASSUME NEW l \in L + 1 .. Levels PROVE when \div Span(l) = w.base \div Span(l)
    <2>1. l \in 0 .. Levels
      BY <1>2, <1>6
    <2>2. l * LevelBits \in 0 .. Width
      BY <2>1, LevelShift
    <2>3. c <= l * LevelBits
      <3> HIDE DEF c, T
      <3>1. \A x, y, m \in Nat : x <= y => x * m <= y * m
        OBVIOUS
      <3>2. (L + 1) * LevelBits <= l * LevelBits
        BY <1>2, <1>6, <2>1, <3>1
      <3>3. (L + 1) * LevelBits \in Nat
        BY <1>2, <1>6
      <3> QED BY <1>5, <1>6, <2>2, <3>2, <3>3
    <2>4. PICK q \in Nat : q >= 1 /\ Span(l) = q * Pow2[c]
      <3> HIDE DEF c, T
      <3> QED BY <1>2, <1>5, <2>2, <2>3, Pow2Divides DEF Span
    <2>5. Pow2[c] \in Nat /\ Pow2[c] >= 1
      <3> HIDE DEF c, T
      <3> QED BY <1>5, Pow2Positive
    <2>6. when \div Pow2[c] = w.base \div Pow2[c]
      BY <1>3
    <2> HIDE DEF c, T
    <2> QED BY <1>1, <2>4, <2>5, <2>6, DivCoarser
  <1> QED BY <1>7, <1>8, <1>9

-----------------------------------------------------------------------------
(* Wheels, places and buckets *)

\* The type of struct timers.
Wheel == [base : Time, first : Time \cup {Never},
          firsts : [0 .. Levels -> Time \cup {Never}],
          level : SUBSET Level, where : [Timer -> Place]]

\* The sizes are numbers.
LEMMA Sizes ==
  /\ LevelBits \in Nat /\ LevelBits >= 1 /\ Levels \in Nat /\ Levels >= 1
  /\ MaxTime \in Nat /\ Never \in Nat /\ MaxTime < Never
  /\ Level \subseteq Nat /\ Time \subseteq Nat /\ Never \notin Time
  <1>1. Never \in Nat
    BY Pow2Recursion DEF Never, Width
  <1> QED BY <1>1, TimerAssumption, TimeAssumption DEF Level, Time

\* A place is the far list, none, or a bucket of a level.
LEMMA Places ==
  /\ Far \in Place /\ Nowhere \in Place /\ Far # Nowhere /\ Far[1] = Levels
  /\ \A l \in Level, i \in 0 .. PER_LEVEL - 1 :
       <<l, i>> \in Place /\ <<l, i>> # Far /\ <<l, i>> # Nowhere
  /\ \A p \in Place : p # Far /\ p # Nowhere =>
       p[1] \in Level /\ p[2] \in 0 .. PER_LEVEL - 1 /\ p = <<p[1], p[2]>>
  BY Sizes DEF Place, Far, Nowhere, Level

\* The first level that is missing, when the levels are the first n.
LEMMA TopFact ==
  ASSUME NEW w, NEW n \in 0 .. Levels, w.level = 0 .. n - 1
  PROVE  Top(w) = n /\ Ladder(w)
  <1> DEFINE T == {l \in 0 .. Levels : l \notin w.level}
  <1>1. n \in T
    BY Sizes
  <1>2. T \subseteq Nat
    OBVIOUS
  <1>3. Min(T) \in T /\ \A y \in T : Min(T) <= y
    <2> HIDE DEF T
    <2> QED BY <1>1, <1>2, MinFact
  <1>4. Min(T) = n
    BY <1>1, <1>3
  <1> QED BY <1>4 DEF Top, Ladder

\* A timer further away than s grains is in a later bucket of that span, and
\* one less than m buckets away at most m buckets on.
LEMMA Distances ==
  ASSUME NEW a \in Nat, NEW x \in Nat, NEW s \in Nat, s >= 1
  PROVE  /\ a <= x => a \div s <= x \div s
         /\ a + s <= x => a \div s < x \div s
         /\ a \div s < x \div s => a < x
         /\ \A m \in Nat : x < a + m * s => x \div s <= (a \div s) + m
         /\ a \div s \in Nat /\ x \div s \in Nat
  OBVIOUS

\* A later bucket of a large span begins after the current one of a smaller span.
LEMMA LaterBucket ==
  ASSUME NEW a \in Nat, NEW x \in Nat, NEW j \in 0 .. Levels, NEW k \in 0 .. Levels,
         j <= k, a \div Span(k) < x \div Span(k)
  PROVE  a \div Span(j) < x \div Span(j)
  <1>1. PICK q \in Nat : q >= 1 /\ Span(k) = q * Span(j)
    BY SpanDivides
  <1>2. Span(j) \in Nat /\ Span(j) >= 1
    BY Spans
  <1>3. \A y, m, n \in Nat : m >= 1 /\ n >= 1 => y \div (n * m) = (y \div m) \div n
    OBVIOUS
  <1>4. (a \div Span(j)) \div q < (x \div Span(j)) \div q
    BY <1>1, <1>2, <1>3
  <1> QED BY <1>1, <1>2, <1>4, Distances

\* timer_add_raw puts a timer that is not overdue where it belongs.
LEMMA PlaceOfFact ==
  ASSUME NEW w, w.base \in Time, w.level \subseteq Level, Ladder(w),
         NEW x \in Time, w.base <= x
  PROVE  /\ PlaceOf(w, x) \in Place /\ PlaceOf(w, x) # Nowhere
         /\ PlaceOf(w, x)[1] \in 0 .. Levels
         /\ Right(w, x, PlaceOf(w, x))
  <1> DEFINE l == LevelOf(w, x)
             i == (x \div Span(l)) % PER_LEVEL
  <1>1. l \in Level /\ x - w.base < Span(l + 1) /\ (l = 0 \/ x - w.base >= Span(l))
    BY LevelOfFact
  <1>2. PlaceOf(w, x) = IF l \in w.level THEN <<l, i>> ELSE Far
    BY DEF PlaceOf
  <1> HIDE DEF l
  <1>3. l \in 0 .. Levels /\ l \in 0 .. Levels - 1 /\ x \in Nat /\ w.base \in Nat
    <2>1. l \in 0 .. Levels /\ l \in 0 .. Levels - 1
      BY <1>1, TimerAssumption DEF Level
    <2>2. x \in Nat /\ w.base \in Nat
      BY DEF Time
    <2> QED BY <2>1, <2>2
  <1>4. Span(l) \in Nat /\ Span(l) >= 1 /\ Span(l + 1) = PER_LEVEL * Span(l)
        /\ PER_LEVEL \in Nat /\ PER_LEVEL >= 2
    BY <1>3, Spans
  <1>5. CASE l \in w.level
    <2>1. PlaceOf(w, x) = <<l, i>>
      BY <1>2, <1>5
    <2>2. i \in 0 .. PER_LEVEL - 1
      BY <1>3, <1>4
    <2>3. l = 0 => x \in w.base .. w.base + PER_LEVEL - 1
      BY <1>1, <1>3, <1>4, Spans
    <2>4. l # 0 => (x \div Span(l)) - (w.base \div Span(l)) \in 1 .. PER_LEVEL
      <3> SUFFICES ASSUME l # 0
                   PROVE (x \div Span(l)) - (w.base \div Span(l)) \in 1 .. PER_LEVEL
        OBVIOUS
      <3>1. w.base + Span(l) <= x /\ x < w.base + PER_LEVEL * Span(l)
        BY <1>1, <1>3, <1>4
      <3>2. /\ w.base \div Span(l) < x \div Span(l)
            /\ x \div Span(l) <= (w.base \div Span(l)) + PER_LEVEL
            /\ w.base \div Span(l) \in Nat /\ x \div Span(l) \in Nat
        BY <1>3, <1>4, <3>1, Distances
      <3> QED BY <1>4, <3>2
    <2>5. InBucket(w, x, l, i)
      BY <1>5, <2>3, <2>4 DEF InBucket
    <2> HIDE DEF i
    <2>6. <<l, i>>[1] = l /\ <<l, i>>[2] = i
      OBVIOUS
    <2>7. <<l, i>> \in Place /\ <<l, i>> # Far /\ <<l, i>> # Nowhere
      BY <1>1, <2>2, Places
    <2> QED BY <1>3, <2>1, <2>5, <2>6, <2>7 DEF Right
  <1>6. CASE l \notin w.level
    <2>1. PlaceOf(w, x) = Far
      BY <1>2, <1>6
    <2>2. Top(w) \in 0 .. Levels /\ Top(w) <= l
      BY <1>3, <1>6 DEF Ladder
    <2>3. ASSUME Top(w) # 0 PROVE w.base \div Span(Top(w)) < x \div Span(Top(w))
      <3>1. w.base + Span(l) <= x
        BY <1>1, <1>3, <1>4, <2>2, <2>3
      <3>2. w.base \div Span(l) < x \div Span(l)
        BY <1>3, <1>4, <3>1, Distances
      <3> QED BY <1>3, <2>2, <3>2, LaterBucket
    <2>4. Beyond(w, x)
      BY <2>3 DEF Beyond
    <2> QED BY <2>1, <2>4, Places, Sizes DEF Right
  <1> QED BY <1>5, <1>6

\* A timer where it belongs is not overdue, and beyond level 0 it is in a
\* later turn of level 0.
LEMMA NotOverdue ==
  ASSUME NEW w, w.base \in Time, w.level \subseteq Level, Ladder(w),
         NEW x \in Time, NEW p \in Place, p # Nowhere, Right(w, x, p)
  PROVE  /\ w.base <= x
         /\ p[1] # 0 /\ 0 \in w.level => w.base \div PER_LEVEL < x \div PER_LEVEL
  <1>1. x \in Nat /\ w.base \in Nat /\ 1 \in 0 .. Levels /\ 0 \in 0 .. Levels - 1
    <2>1. 1 \in 0 .. Levels /\ 0 \in 0 .. Levels - 1
      BY TimerAssumption
    <2>2. x \in Nat /\ w.base \in Nat
      BY DEF Time
    <2> QED BY <2>1, <2>2
  <1>2. Span(1) = PER_LEVEL
    <2>1. Span(0 + 1) = PER_LEVEL * Span(0)
      BY <1>1, Spans
    <2> QED BY <2>1, Spans
  <1>3. CASE p = Far
    <2>1. Beyond(w, x)
      BY <1>3 DEF Right
    <2>2. ASSUME 0 \in w.level PROVE w.base \div PER_LEVEL < x \div PER_LEVEL
      <3>1. Top(w) \in 1 .. Levels
        BY <2>2 DEF Ladder
      <3>2. w.base \div Span(Top(w)) < x \div Span(Top(w))
        BY <2>1, <3>1 DEF Beyond
      <3>3. Top(w) \in 0 .. Levels /\ 1 <= Top(w)
        BY <3>1, Sizes
      <3>4. w.base \div Span(1) < x \div Span(1)
        BY <1>1, <3>2, <3>3, LaterBucket
      <3> QED BY <1>2, <3>4
    <2> QED BY <2>1, <2>2 DEF Beyond
  <1>4. CASE p # Far
    <2>1. InBucket(w, x, p[1], p[2]) /\ p[1] \in Level
      BY <1>4, Places DEF Right
    <2>2. CASE p[1] = 0
      BY <1>1, <2>1, <2>2, Spans DEF InBucket
    <2>3. CASE p[1] # 0
      <3>1. p[1] \in 0 .. Levels /\ 1 <= p[1]
        BY <2>1, <2>3, Sizes DEF Level
      <3>2. Span(p[1]) \in Nat /\ Span(p[1]) >= 1
        BY <3>1, Spans
      <3>3. w.base \div Span(p[1]) < x \div Span(p[1])
        <4>1. (x \div Span(p[1])) - (w.base \div Span(p[1])) \in 1 .. PER_LEVEL
          BY <2>1, <2>3 DEF InBucket
        <4>2. w.base \div Span(p[1]) \in Nat /\ x \div Span(p[1]) \in Nat
          BY <1>1, <3>2, Distances
        <4> QED BY <4>1, <4>2, Spans
      <3>4. w.base \div Span(1) < x \div Span(1)
        BY <1>1, <3>1, <3>3, LaterBucket
      <3>5. w.base < x
        BY <1>1, <3>2, <3>3, Distances
      <3> QED BY <1>1, <1>2, <3>4, <3>5
    <2> QED BY <2>2, <2>3
  <1> QED BY <1>3, <1>4

-----------------------------------------------------------------------------
(* Adding many timers, and moving base on *)

\* The least of a set of times that has f in it.
LEMMA MinWith ==
  ASSUME NEW f \in Time \cup {Never}, NEW T, T \subseteq Time
  PROVE  /\ Min({f} \cup T) \in Time \cup {Never}
         /\ Min({f} \cup T) <= f
         /\ \A x \in T : Min({f} \cup T) <= x
  <1> DEFINE U == {f} \cup T
  <1>1. U \subseteq Nat /\ U # {} /\ f \in U /\ T \subseteq U
    BY Sizes
  <1>2. Min(U) \in U /\ \A y \in U : Min(U) <= y
    <2> HIDE DEF U
    <2> QED BY <1>1, MinFact
  <1>3. Min(U) \in Time \cup {Never}
    BY <1>2
  <1> HIDE DEF U
  <1>4. Min(U) <= f /\ \A x \in T : Min(U) <= x
    BY <1>1, <1>2
  <1> QED BY <1>3, <1>4 DEF U

\* Only base and level say where timers belong.
LEMMA RightShape ==
  ASSUME NEW v, NEW w, v.base = w.base, v.level = w.level
  PROVE  /\ Top(v) = Top(w)
         /\ Ladder(v) <=> Ladder(w)
         /\ \A x, p : Right(v, x, p) <=> Right(w, x, p)
  BY DEF Top, Ladder, Right, Beyond, InBucket

\* timer_add_raw of many timers: they are where they belong, the others stay,
\* and the watermarks stay below all.
LEMMA AddAllFact ==
  ASSUME NEW w \in Wheel, NEW S, S \subseteq Timer, time \in [Timer -> Time], Ladder(w),
         \A t \in S : w.base <= time[t]
  PROVE  /\ AddAll(w, S) \in Wheel
         /\ AddAll(w, S).base = w.base /\ AddAll(w, S).first = w.first
         /\ AddAll(w, S).level = w.level
         /\ \A t \in Timer \ S : AddAll(w, S).where[t] = w.where[t]
         /\ \A t \in S : /\ AddAll(w, S).where[t] # Nowhere
                         /\ Right(w, time[t], AddAll(w, S).where[t])
                         /\ AddAll(w, S).firsts[AddAll(w, S).where[t][1]] <= time[t]
         /\ \A l \in 0 .. Levels : AddAll(w, S).firsts[l] <= w.firsts[l]
  <1> DEFINE wh == [t \in Timer |-> IF t \in S THEN PlaceOf(w, time[t]) ELSE w.where[t]]
             late(l) == {time[t] : t \in {u \in S : PlaceOf(w, time[u])[1] = l}}
             fi == [l \in 0 .. Levels |-> Min({w.firsts[l]} \cup late(l))]
             v == AddAll(w, S)
  <1>1. /\ w.base \in Time /\ w.level \subseteq Level /\ w.where \in [Timer -> Place]
        /\ w.firsts \in [0 .. Levels -> Time \cup {Never}] /\ w.first \in Time \cup {Never}
    BY DEF Wheel
  <1>2. v = [w EXCEPT !.where = wh, !.firsts = fi]
    BY DEF AddAll
  <1>3. ASSUME NEW t \in S
        PROVE  /\ PlaceOf(w, time[t]) \in Place /\ PlaceOf(w, time[t]) # Nowhere
               /\ PlaceOf(w, time[t])[1] \in 0 .. Levels
               /\ Right(w, time[t], PlaceOf(w, time[t]))
    <2>1. time[t] \in Time /\ w.base <= time[t]
      OBVIOUS
    <2> QED BY <1>1, <2>1, PlaceOfFact
  <1>4. wh \in [Timer -> Place]
    BY <1>1, <1>3
  <1>5. ASSUME NEW l \in 0 .. Levels
        PROVE  /\ fi[l] \in Time \cup {Never} /\ fi[l] <= w.firsts[l]
               /\ \A x \in late(l) : fi[l] <= x
    <2>1. late(l) \subseteq Time /\ w.firsts[l] \in Time \cup {Never}
      BY <1>1
    <2>2. fi[l] = Min({w.firsts[l]} \cup late(l))
      OBVIOUS
    <2> HIDE DEF late, fi
    <2>3. /\ Min({w.firsts[l]} \cup late(l)) \in Time \cup {Never}
          /\ Min({w.firsts[l]} \cup late(l)) <= w.firsts[l]
          /\ \A x \in late(l) : Min({w.firsts[l]} \cup late(l)) <= x
      BY ONLY <2>1, MinWith
    <2> QED BY ONLY <2>2, <2>3
  <1>6. fi \in [0 .. Levels -> Time \cup {Never}]
    <2> DEFINE f(l) == Min({w.firsts[l]} \cup late(l))
    <2>1. \A l \in 0 .. Levels : fi[l] \in Time \cup {Never}
      BY <1>5
    <2>2. fi = [l \in 0 .. Levels |-> fi[l]]
      OBVIOUS
    <2> HIDE DEF fi
    <2> QED BY <2>1, <2>2
  <1> HIDE DEF wh, fi, v
  <1>7. v = [base |-> w.base, first |-> w.first, firsts |-> fi, level |-> w.level, where |-> wh]
    BY <1>2 DEF Wheel
  <1>8. v \in Wheel
    BY <1>1, <1>4, <1>6, <1>7 DEF Wheel
  <1>9. v.base = w.base /\ v.first = w.first /\ v.level = w.level /\ v.where = wh /\ v.firsts = fi
    BY <1>7
  <1>10. \A t \in Timer \ S : v.where[t] = w.where[t]
    BY <1>9 DEF wh
  <1>11. ASSUME NEW t \in S
         PROVE /\ v.where[t] # Nowhere /\ Right(w, time[t], v.where[t])
               /\ v.firsts[v.where[t][1]] <= time[t]
    <2>1. v.where[t] = PlaceOf(w, time[t])
      BY <1>9 DEF wh
    <2>2. time[t] \in late(PlaceOf(w, time[t])[1])
      OBVIOUS
    <2>3. fi[PlaceOf(w, time[t])[1]] <= time[t]
      <3> HIDE DEF late
      <3> QED BY <1>3, <1>5, <2>2
    <2> QED BY <1>3, <1>9, <2>1, <2>3
  <1>12. \A l \in 0 .. Levels : v.firsts[l] <= w.firsts[l]
    BY <1>5, <1>9
  <1> QED BY <1>8, <1>9, <1>10, <1>11, <1>12 DEF v

\* Adding no timer changes nothing.
LEMMA AddNone ==
  ASSUME NEW w \in Wheel
  PROVE  AddAll(w, {}) = w
  <1> DEFINE wh == [t \in Timer |-> w.where[t]]
             fi == [l \in 0 .. Levels |-> Min({w.firsts[l]})]
  <1>1. AddAll(w, {}) = [w EXCEPT !.where = wh, !.firsts = fi]
    <2>1. \A l : {time[t] : t \in {u \in {} : PlaceOf(w, time[u])[1] = l}} = {}
      OBVIOUS
    <2>2. \A l : {w.firsts[l]} \cup {} = {w.firsts[l]}
      OBVIOUS
    <2> QED BY <2>1, <2>2 DEF AddAll
  <1>2. wh = w.where
    BY DEF Wheel
  <1>3. ASSUME NEW l \in 0 .. Levels PROVE Min({w.firsts[l]}) = w.firsts[l]
    <2>1. {w.firsts[l]} \subseteq Nat
      BY Sizes DEF Wheel
    <2> QED BY <2>1, MinFact
  <1>4. fi = w.firsts
    <2>1. fi = [l \in 0 .. Levels |-> w.firsts[l]]
      BY <1>3
    <2> QED BY <2>1 DEF Wheel
  <1> HIDE DEF wh, fi
  <1> QED BY <1>1, <1>2, <1>4 DEF Wheel

\* What timer_fast_forward collects.
LEMMA CollectedFact ==
  ASSUME NEW w \in Wheel, NEW when \in Time, NEW t \in Timer, time \in [Timer -> Time]
  PROVE  /\ t \in Collected(w, when) => w.where[t] # Nowhere
         /\ \A l \in Crossed(w, when) :
              /\ l \in w.level /\ w.where[t] = <<l, (when \div Span(l)) % PER_LEVEL>>
                   => t \in Collected(w, when)
              /\ l \notin w.level /\ w.where[t] = Far /\ time[t] <= Horizon(w, l)
                   => t \in Collected(w, when)
  <1>1. ASSUME NEW u \in Timer, NEW l \in w.level,
               w.where[u] = <<l, (when \div Span(l)) % PER_LEVEL>>
        PROVE  w.where[u] # Nowhere
    <2>1. l \in Level /\ l \in 0 .. Levels
      BY Sizes DEF Wheel, Level
    <2>2. (when \div Span(l)) % PER_LEVEL \in 0 .. PER_LEVEL - 1
      BY <2>1, Spans, Sizes DEF Time
    <2> QED BY <1>1, <2>1, <2>2, Places
  <1> DEFINE from(l) == IF l \in w.level THEN On(w, <<l, (when \div Span(l)) % PER_LEVEL>>)
                        ELSE FarGet(w, Horizon(w, l))
  <1>2. \A l : from(l) \subseteq {u \in Timer : w.where[u] # Nowhere}
               \/ l \notin Crossed(w, when)
    <2> SUFFICES ASSUME NEW l \in Crossed(w, when), NEW u \in from(l)
                 PROVE  u \in Timer /\ w.where[u] # Nowhere
      OBVIOUS
    <2>1. CASE l \in w.level
      BY <1>1, <2>1 DEF On
    <2>2. CASE l \notin w.level
      BY <2>2, Places DEF FarGet, On
    <2> QED BY <2>1, <2>2
  <1>3. Collected(w, when) = UNION {from(l) : l \in Crossed(w, when)}
    BY DEF Collected
  <1>4. ASSUME NEW l \in Crossed(w, when), l \in w.level,
               w.where[t] = <<l, (when \div Span(l)) % PER_LEVEL>>
        PROVE  t \in from(l)
    BY <1>4 DEF On
  <1>5. ASSUME NEW l \in Crossed(w, when), l \notin w.level, w.where[t] = Far,
               time[t] <= Horizon(w, l)
        PROVE  t \in from(l)
    BY <1>5 DEF On, FarGet
  <1> HIDE DEF from
  <1> QED BY <1>2, <1>3, <1>4, <1>5

\* A timer in a bucket that is not emptied belongs there after base has moved.
LEMMA StaysInBucket ==
  ASSUME NEW w, w.base \in Time, w.level \subseteq Level,
         NEW when \in Time, w.base < when, NEW x \in Time, when <= x,
         NEW v, v.base = when, w.level \subseteq v.level,
         NEW l, NEW i, InBucket(w, x, l, i),
         l \in Crossed(w, when) => i # (when \div Span(l)) % PER_LEVEL
  PROVE  InBucket(v, x, l, i)
  <1> DEFINE L == (Changed(w, when) - 1) \div LevelBits
             s == Span(l)
  <1>1. /\ L \in Level
        /\ \A j \in 0 .. L : when \div Span(j) # w.base \div Span(j)
        /\ \A j \in L + 1 .. Levels : when \div Span(j) = w.base \div Span(j)
    BY CrossedFact
  <1>2. Crossed(w, when) = 0 .. L
    BY DEF Crossed
  <1> HIDE DEF L
  <1>3. l \in w.level /\ l \in Level /\ l \in 0 .. Levels /\ l \in v.level
    BY Sizes DEF InBucket, Level
  <1>4. x \in Nat /\ w.base \in Nat /\ when \in Nat /\ PER_LEVEL \in Nat /\ s \in Nat /\ s >= 1
    BY <1>3, Spans DEF Time
  <1>5. i = (x \div s) % PER_LEVEL
    BY DEF InBucket
  <1>6. CASE l = 0
    <2>1. x \in w.base .. w.base + PER_LEVEL - 1
      BY <1>6 DEF InBucket
    <2>2. x \in v.base .. v.base + PER_LEVEL - 1
      BY <1>4, <2>1
    <2> QED BY <1>3, <1>5, <1>6, <2>2 DEF InBucket
  <1>7. CASE l # 0
    <2>1. (x \div s) - (w.base \div s) \in 1 .. PER_LEVEL
      BY <1>7 DEF InBucket
    <2> HIDE DEF s
    <2>2. when \div s <= x \div s /\ w.base \div s <= when \div s
          /\ x \div s \in Nat /\ when \div s \in Nat /\ w.base \div s \in Nat
      BY <1>4, Distances
    <2>3. when \div s # x \div s
      <3>1. CASE l \in 0 .. L
        <4>1. i # (when \div s) % PER_LEVEL
          BY <1>2, <3>1 DEF s
        <4> QED BY <1>5, <4>1
      <3>2. CASE l \notin 0 .. L
        <4>1. l \in L + 1 .. Levels
          BY <1>1, <1>3, <3>2, Sizes DEF Level
        <4>2. when \div s = w.base \div s
          BY <1>1, <4>1 DEF s
        <4> QED BY <2>1, <2>2, <4>2
      <3> QED BY <3>1, <3>2
    <2>4. (x \div s) - (when \div s) \in 1 .. PER_LEVEL
      BY <1>4, <2>1, <2>2, <2>3
    <2> QED BY <1>3, <1>5, <1>7, <2>4 DEF InBucket, s
  <1> QED BY <1>6, <1>7

\* timer_fast_forward's wheel before the timers are added again: those that
\* were not collected are where they belong for the new base.
LEMMA Emptied ==
  ASSUME NEW w \in Wheel, Ladder(w), Sorted(w), time \in [Timer -> Time],
         NEW when \in Time, w.base < when, 0 \in w.level,
         \A t \in Timer : w.where[t] # Nowhere => when <= time[t],
         NEW v, v.base = when,
         v.level = w.level \cup (IF Crossed(w, when) \subseteq w.level THEN {} ELSE {Top(w)}),
         NEW t \in Timer, w.where[t] # Nowhere, t \notin Collected(w, when)
  PROVE  Ladder(v) /\ Right(v, time[t], w.where[t])
  <1> DEFINE L == (Changed(w, when) - 1) \div LevelBits
             x == time[t]
             p == w.where[t]
             n == Top(w)
  <1>1. /\ w.base \in Time /\ w.level \subseteq Level /\ p \in Place /\ x \in Time
        /\ when <= x /\ Right(w, x, p)
    BY DEF Wheel, Sorted
  <1>2. /\ L \in Level
        /\ \A j \in 0 .. L : when \div Span(j) # w.base \div Span(j)
        /\ \A j \in L + 1 .. Levels : when \div Span(j) = w.base \div Span(j)
    BY <1>1, CrossedFact
  <1>3. Crossed(w, when) = 0 .. L
    BY DEF Crossed
  <1> HIDE DEF L
  <1>4. L \in Nat /\ L + 1 \in 0 .. Levels /\ L < Levels
    BY <1>2, TimerAssumption DEF Level
  <1>5. n \in 1 .. Levels /\ w.level = 0 .. n - 1
    BY DEF Ladder
  <1>6. x \in Nat /\ w.base \in Nat /\ when \in Nat
    BY <1>1 DEF Time
  <1> DEFINE m == IF L < n THEN n ELSE n + 1
  <1>7. m \in 1 .. Levels /\ v.level = 0 .. m - 1
    <2>1. CASE L < n
      <3>1. 0 .. L \subseteq 0 .. n - 1
        BY <1>4, <1>5, <2>1
      <3> QED BY <1>3, <1>5, <2>1, <3>1
    <2>2. CASE ~(L < n)
      <3>1. n \in 0 .. L /\ n \notin 0 .. n - 1
        BY <1>4, <1>5, <2>2
      <3>2. v.level = (0 .. n - 1) \cup {n}
        BY <1>3, <1>5, <3>1
      <3>3. (0 .. n - 1) \cup {n} = 0 .. (n + 1) - 1
        BY <1>5
      <3> QED BY TimerAssumption, <1>4, <1>5, <2>2, <3>2, <3>3
    <2> QED BY <2>1, <2>2
  <1>8. Top(v) = m /\ Ladder(v)
    <2>1. m \in 0 .. Levels
      BY <1>7, Sizes
    <2> HIDE DEF m
    <2> QED BY <1>7, <2>1, TopFact
  <1>9. CASE p # Far
    <2>1. InBucket(w, x, p[1], p[2]) /\ p = <<p[1], p[2]>> /\ p[1] \in w.level
      BY <1>1, <1>9, Places DEF Right, InBucket
    <2>2. p[1] \in Crossed(w, when) => p[2] # (when \div Span(p[1])) % PER_LEVEL
      BY <2>1, CollectedFact
    <2>3. w.level \subseteq v.level
      OBVIOUS
    <2>4. InBucket(v, x, p[1], p[2])
      BY <1>1, <2>1, <2>2, <2>3, StaysInBucket
    <2> QED BY <1>8, <1>9, <2>4 DEF Right
  <1>10. CASE p = Far
    <2>1. Beyond(w, x)
      BY <1>1, <1>10 DEF Right
    <2>2. when \div Span(m) < x \div Span(m)
      <3>1. CASE L < n
        <4>1. n \in L + 1 .. Levels /\ m = n
          BY <1>4, <1>5, <3>1
        <4>2. w.base \div Span(n) < x \div Span(n)
          BY <1>5, <2>1 DEF Beyond
        <4> QED BY <1>2, <4>1, <4>2
      <3>2. CASE ~(L < n)
        <4>1. L \in Crossed(w, when) /\ L \notin w.level
          BY <1>3, <1>4, <1>5, <3>2
        <4>2. ~(x <= Horizon(w, L))
          BY <1>10, <4>1, CollectedFact
        <4>3. Span(L + 1) \in Nat /\ Span(L + 1) >= 1
          BY <1>4, Spans
        <4>4. w.base + Span(L + 1) <= x
          BY <1>6, <4>2, <4>3 DEF Horizon
        <4>5. w.base \div Span(L + 1) < x \div Span(L + 1)
          BY <1>6, <4>3, <4>4, Distances
        <4>6. when \div Span(L + 1) = w.base \div Span(L + 1)
          BY <1>2, <1>4
        <4>7. n + 1 \in 0 .. Levels /\ n + 1 <= L + 1
          BY TimerAssumption, <1>4, <1>5, <3>2
        <4>8. when \div Span(n + 1) < x \div Span(n + 1)
          BY <1>4, <1>6, <4>5, <4>6, <4>7, LaterBucket
        <4> QED BY <3>2, <4>8
      <3> QED BY <3>1, <3>2
    <2> HIDE DEF m
    <2>3. Beyond(v, x)
      BY <1>1, <1>8, <2>2 DEF Beyond
    <2> QED BY <1>8, <1>10, <2>3 DEF Right
  <1> QED BY <1>8, <1>9, <1>10

\* The levels of the wheel before the timers are added again.
LEMMA Grown ==
  ASSUME NEW w \in Wheel, Ladder(w), time \in [Timer -> Time],
         NEW when \in Time, w.base < when, 0 \in w.level,
         NEW out, out = TakeOff(w, Collected(w, when)),
         NEW grown, grown = IF Crossed(w, when) \ w.level = {} THEN out
                            ELSE AddLevel(out, Min(Crossed(w, when) \ w.level))
  PROVE  grown = [out EXCEPT !.level = w.level
                    \cup (IF Crossed(w, when) \subseteq w.level THEN {} ELSE {Top(w)})]
  <1> DEFINE L == (Changed(w, when) - 1) \div LevelBits
             n == Top(w)
             wh == [t \in Timer |-> IF t \in Collected(w, when) THEN Nowhere ELSE w.where[t]]
  <1>1. /\ w.base \in Time /\ w.level \subseteq Level /\ w.where \in [Timer -> Place]
        /\ w.firsts \in [0 .. Levels -> Time \cup {Never}] /\ w.first \in Time \cup {Never}
    BY DEF Wheel
  <1>2. L \in Level /\ Crossed(w, when) = 0 .. L
    BY <1>1, CrossedFact DEF Crossed
  <1> HIDE DEF L
  <1>3. L \in Nat /\ L + 1 \in 0 .. Levels /\ L < Levels
    BY <1>2, TimerAssumption DEF Level
  <1>4. n \in 1 .. Levels /\ w.level = 0 .. n - 1
    BY DEF Ladder
  <1>5. wh \in [Timer -> Place]
    BY <1>1, Places
  <1>6. out = [base |-> w.base, first |-> w.first, firsts |-> w.firsts, level |-> w.level,
               where |-> wh]
    BY DEF TakeOff, Wheel
  <1> HIDE DEF wh
  <1>7. CASE L < n
    <2>1. 0 .. L \subseteq 0 .. n - 1
      BY <1>3, <1>4, <1>7
    <2>2. Crossed(w, when) \subseteq w.level /\ Crossed(w, when) \ w.level = {}
      BY <1>2, <1>4, <2>1
    <2>3. grown = out
      BY <2>2
    <2>4. out = [out EXCEPT !.level = w.level \cup {}]
      BY <1>6
    <2> QED BY <2>2, <2>3, <2>4
  <1>8. CASE ~(L < n)
    <2> DEFINE A == Crossed(w, when) \ w.level
               u == [out EXCEPT !.level = @ \cup {n}]
    <2>1. n \in A /\ A \subseteq Nat /\ \A y \in A : n <= y
      BY <1>2, <1>3, <1>4, <1>8
    <2>2. Min(A) = n
      <3> HIDE DEF A
      <3>1. Min(A) \in A /\ \A y \in A : Min(A) <= y
        BY <2>1, MinFact
      <3>2. Min(A) \in Nat /\ Min(A) <= n /\ n <= Min(A)
        BY <2>1, <3>1
      <3>3. n \in Nat
        BY <2>1
      <3> HIDE DEF n
      <3> QED BY <3>2, <3>3
    <2>3. A # {} /\ ~(Crossed(w, when) \subseteq w.level)
      BY <2>1
    <2>4. grown = AddLevel(out, n)
      BY <2>2, <2>3
    <2>5. FarGet(out, Horizon(out, n)) = {}
      <3> SUFFICES ASSUME NEW t \in Timer, out.where[t] = Far, time[t] <= Horizon(out, n)
                   PROVE  FALSE
        BY DEF FarGet, On
      <3>1. t \notin Collected(w, when) /\ w.where[t] = Far
        BY <1>6, Places DEF wh
      <3>2. n \in Crossed(w, when) /\ n \notin w.level
        BY <2>1
      <3>3. Horizon(out, n) = Horizon(w, n)
        BY <1>6 DEF Horizon
      <3> QED BY <3>1, <3>2, <3>3, CollectedFact
    <2>6. grown = AddAll(u, {})
      BY <2>4, <2>5 DEF AddLevel
    <2>7. u = [base |-> w.base, first |-> w.first, firsts |-> w.firsts,
               level |-> w.level \cup {n}, where |-> wh]
      BY <1>6
    <2>8. n \in Level
      BY TimerAssumption, <1>2, <1>3, <1>4, <1>8 DEF Level
    <2>9. u \in Wheel
      BY <1>1, <1>5, <2>7, <2>8 DEF Wheel
    <2> HIDE DEF u
    <2>10. grown = u
      BY <2>6, <2>9, AddNone
    <2>11. [out EXCEPT !.level = w.level \cup {n}] = u
      BY <1>6, <2>7
    <2> QED BY <2>3, <2>10, <2>11
  <1> QED BY <1>7, <1>8

\* timer_fast_forward to a time that no timer is before: base is that time,
\* every timer is where it belongs, and none is lost or started.
LEMMA FastForwardFact ==
  ASSUME NEW w \in Wheel, Ladder(w), Sorted(w), Marked(w), time \in [Timer -> Time],
         NEW when \in Time, w.base <= when, 0 \in w.level,
         \A t \in Timer : w.where[t] # Nowhere => when <= time[t],
         NEW v, v = FastForward(w, when)
  PROVE  /\ v \in Wheel /\ Ladder(v) /\ Sorted(v) /\ Marked(v)
         /\ v.base = when /\ v.first = w.first /\ 0 \in v.level
         /\ \A t \in Timer : v.where[t] = Nowhere <=> w.where[t] = Nowhere
  <1>1. CASE when = w.base
    <2>1. v = w
      BY <1>1 DEF FastForward
    <2> QED BY <1>1, <2>1
  <1>2. CASE when # w.base
    <2> DEFINE list == Collected(w, when)
               out == TakeOff(w, list)
               absent == Crossed(w, when) \ w.level
               grown == IF absent = {} THEN out ELSE AddLevel(out, Min(absent))
               wh == [t \in Timer |-> IF t \in list THEN Nowhere ELSE w.where[t]]
               lev == w.level
                        \cup (IF Crossed(w, when) \subseteq w.level THEN {} ELSE {Top(w)})
               u == [grown EXCEPT !.base = when]
    <2>1. v = AddAll(u, list)
      BY <1>2 DEF FastForward
    <2>2. /\ w.base \in Time /\ w.level \subseteq Level /\ w.where \in [Timer -> Place]
          /\ w.firsts \in [0 .. Levels -> Time \cup {Never}] /\ w.first \in Time \cup {Never}
          /\ w.base < when
      BY <1>2, Sizes DEF Wheel, Time
    <2>3. grown = [out EXCEPT !.level = lev]
      <3> HIDE DEF list
      <3> QED BY <2>2, Grown DEF list
    <2>4. out = [base |-> w.base, first |-> w.first, firsts |-> w.firsts, level |-> w.level,
                 where |-> wh]
      BY DEF TakeOff, Wheel
    <2> HIDE DEF list, out, grown, wh, lev
    <2>5. u = [base |-> when, first |-> w.first, firsts |-> w.firsts, level |-> lev,
               where |-> wh]
      <3>1. grown = [base |-> w.base, first |-> w.first, firsts |-> w.firsts, level |-> lev,
                     where |-> wh]
        BY ONLY <2>3, <2>4
      <3> QED BY ONLY <3>1 DEF u
    <2>6. wh \in [Timer -> Place]
      BY <2>2, Places DEF wh
    <2>7. lev \subseteq Level
      <3>1. CASE Crossed(w, when) \subseteq w.level
        BY <2>2, <3>1 DEF lev
      <3>2. CASE ~(Crossed(w, when) \subseteq w.level)
        <4>1. PICK j \in Crossed(w, when) : j \notin w.level
          BY <3>2
        <4>2. j \in Level
          <5>1. (Changed(w, when) - 1) \div LevelBits \in Level
            BY <2>2, CrossedFact
          <5> QED BY <4>1, <5>1, TimerAssumption DEF Crossed, Level
        <4>3. Top(w) \in Level
          <5>1. Top(w) \in 0 .. Levels /\ w.level = 0 .. Top(w) - 1
            BY DEF Ladder
          <5> QED BY <4>1, <4>2, <5>1, TimerAssumption DEF Level
        <4> QED BY <2>2, <4>3 DEF lev
      <3> QED BY <3>1, <3>2
    <2> HIDE DEF u
    <2>8. u \in Wheel
      BY <2>2, <2>5, <2>6, <2>7 DEF Wheel
    <2>9. u.base = when /\ u.first = w.first /\ u.firsts = w.firsts /\ u.level = lev /\ u.where = wh
      BY <2>5
    <2>10. ASSUME NEW t \in Timer, w.where[t] # Nowhere, t \notin list
           PROVE  Right(u, time[t], w.where[t])
      BY <2>2, <2>9, <2>10, Emptied DEF list, lev
    <2>11. Ladder(u)
      <3> DEFINE L == (Changed(w, when) - 1) \div LevelBits
                 n == Top(w)
      <3>1. L \in Level /\ Crossed(w, when) = 0 .. L
        BY <2>2, CrossedFact DEF Crossed
      <3> HIDE DEF L
      <3>2. n \in 1 .. Levels /\ w.level = 0 .. n - 1
        BY DEF Ladder
      <3>3. CASE L < n
        <4>1. 0 .. L \subseteq 0 .. n - 1
          BY <3>1, <3>2, <3>3, TimerAssumption DEF Level
        <4>2. u.level = 0 .. n - 1 /\ n \in 0 .. Levels
          BY <2>9, <3>1, <3>2, <4>1 DEF lev
        <4> QED BY <4>2, TopFact
      <3>4. CASE ~(L < n)
        <4>1. n \in 0 .. L /\ n \notin 0 .. n - 1 /\ n + 1 \in 0 .. Levels
          BY <3>1, <3>2, <3>4, TimerAssumption DEF Level
        <4>2. u.level = (0 .. n - 1) \cup {n}
          BY <2>9, <3>1, <3>2, <4>1 DEF lev
        <4>3. (0 .. n - 1) \cup {n} = 0 .. (n + 1) - 1
          BY <3>2
        <4> QED BY <4>1, <4>2, <4>3, TopFact
      <3> QED BY <3>3, <3>4
    <2>12. list \subseteq Timer /\ \A t \in list : w.where[t] # Nowhere
      <3>1. list \subseteq Timer
        BY DEF list, Collected, On, FarGet
      <3> QED BY <3>1, CollectedFact DEF list
    <2>13. \A t \in list : u.base <= time[t]
      BY <2>9, <2>12
    <2>14. /\ v \in Wheel /\ v.base = u.base /\ v.first = u.first /\ v.level = u.level
           /\ \A t \in Timer \ list : v.where[t] = u.where[t]
           /\ \A t \in list : /\ v.where[t] # Nowhere
                              /\ Right(u, time[t], v.where[t])
                              /\ v.firsts[v.where[t][1]] <= time[t]
           /\ \A l \in 0 .. Levels : v.firsts[l] <= u.firsts[l]
      BY <2>1, <2>8, <2>11, <2>12, <2>13, AddAllFact
    <2>15. Ladder(v) /\ \A x, p : Right(v, x, p) <=> Right(u, x, p)
      BY <2>11, <2>14, RightShape
    <2>16. \A t \in Timer \ list : v.where[t] = w.where[t]
      BY <2>9, <2>14 DEF wh
    <2>17. \A t \in Timer : v.where[t] = Nowhere <=> w.where[t] = Nowhere
      BY <2>12, <2>14, <2>16
    <2>18. Sorted(v)
      <3> SUFFICES ASSUME NEW t \in Timer, v.where[t] # Nowhere
                   PROVE  Right(v, time[t], v.where[t])
        BY DEF Sorted
      <3>1. CASE t \in list
        BY <2>14, <2>15, <3>1
      <3>2. CASE t \notin list
        BY <2>10, <2>15, <2>16, <3>2
      <3> QED BY <3>1, <3>2
    <2>19. Marked(v)
      <3> SUFFICES ASSUME NEW t \in Timer, v.where[t] # Nowhere
                   PROVE  v.first <= time[t] /\ v.firsts[v.where[t][1]] <= time[t]
        BY DEF Marked
      <3>1. w.first <= time[t] /\ w.firsts[w.where[t][1]] <= time[t]
        BY <2>17 DEF Marked
      <3>2. v.first <= time[t]
        BY <2>9, <2>14, <3>1
      <3>3. CASE t \in list
        BY <2>14, <3>2, <3>3
      <3>4. CASE t \notin list
        <4>1. v.where[t] = w.where[t] /\ w.where[t] \in Place
          BY <2>2, <2>16, <3>4
        <4>2. w.where[t][1] \in 0 .. Levels
          BY <4>1, Places, TimerAssumption DEF Level
        <4>3. v.firsts[w.where[t][1]] <= w.firsts[w.where[t][1]]
          BY <2>9, <2>14, <4>2
        <4>4. /\ v.firsts[w.where[t][1]] \in Nat /\ w.firsts[w.where[t][1]] \in Nat
              /\ time[t] \in Nat
          BY <2>2, <2>14, <4>2, Sizes DEF Wheel
        <4> QED BY <3>1, <3>2, <4>1, <4>3, <4>4
      <3> QED BY <3>3, <3>4
    <2>20. 0 \in v.level
      BY <2>9, <2>14 DEF lev
    <2> QED BY <2>9, <2>14, <2>15, <2>17, <2>18, <2>19, <2>20
  <1> QED BY <1>1, <1>2

-----------------------------------------------------------------------------
(* Searching for the first timer *)

\* The least of some times, Never if there are none.
LEMMA MinTimeFact ==
  ASSUME NEW T, T \subseteq Time \cup {Never}
  PROVE  /\ MinTime(T) \in Time \cup {Never}
         /\ MinTime(T) # Never => MinTime(T) \in T
         /\ \A x \in T : MinTime(T) <= x
  <1> DEFINE U == T \cup {Never}
  <1>1. U \subseteq Nat /\ U # {} /\ T \subseteq U
    BY Sizes
  <1>2. Min(U) \in U /\ \A y \in U : Min(U) <= y
    <2> HIDE DEF U
    <2> QED BY <1>1, MinFact
  <1> QED BY <1>2 DEF MinTime

\* find_first finds the earliest timer of a list; on level 0, where it takes
\* any timer of a bucket, they are all due at the same time.
LEMMA FindFirstFact ==
  ASSUME NEW l, NEW S, S \subseteq Timer, time \in [Timer -> Time],
         l = 0 => \A t, u \in S : time[t] = time[u],
         NEW f, f = FindFirst(l, S)
  PROVE  /\ f \in Time \cup {Never}
         /\ f # Never => \E t \in S : time[t] = f
         /\ \A t \in S : f <= time[t]
  <1> DEFINE T == {time[t] : t \in S}
  <1>1. T \subseteq Time
    OBVIOUS
  <1>2. f = IF l = 0 /\ T # {} THEN Max(T) ELSE MinTime(T)
    BY DEF FindFirst
  <1>3. CASE l = 0 /\ T # {}
    <2>1. PICK u \in S : TRUE
      BY <1>3
    <2>2. T = {time[u]} /\ time[u] \in Nat
      BY <1>3, <2>1, Sizes
    <2>3. Max({time[u]}) = time[u]
      BY <2>2 DEF Max
    <2>4. f = time[u]
      BY <1>2, <1>3, <2>2, <2>3
    <2> QED BY <1>1, <1>3, <2>2, <2>4
  <1>4. CASE ~(l = 0 /\ T # {})
    <2>1. f = MinTime(T)
      BY <1>2, <1>4
    <2>2. f \in Time \cup {Never} /\ (f # Never => f \in T) /\ \A x \in T : f <= x
      <3> HIDE DEF T
      <3> QED BY <1>1, <2>1, MinTimeFact
    <2> QED BY <2>2
  <1> QED BY <1>3, <1>4

\* The timers in a bucket of level 0 are due at the same time.
LEMMA SameTime ==
  ASSUME NEW w \in Wheel, Sorted(w), time \in [Timer -> Time], NEW i,
         NEW t \in On(w, <<0, i>>), NEW u \in On(w, <<0, i>>)
  PROVE  time[t] = time[u]
  <1>1. <<0, i>>[1] = 0 /\ <<0, i>>[2] = i /\ <<0, i>> # Far /\ <<0, i>> # Nowhere
    BY TimerAssumption DEF Far, Nowhere
  <1>2. \A x \in On(w, <<0, i>>) : /\ time[x] \in Nat /\ i = (time[x] \div 1) % PER_LEVEL
                                   /\ time[x] \in w.base .. w.base + PER_LEVEL - 1
    BY <1>1, Spans, Sizes DEF On, Sorted, Right, InBucket
  <1>3. w.base \in Nat /\ PER_LEVEL \in Nat /\ PER_LEVEL >= 1
    <2>1. w.base \in Time
      BY DEF Wheel
    <2> QED BY <2>1, Spans DEF Time
  <1>4. ASSUME NEW a \in Nat, NEW x \in Nat, NEW y \in Nat, NEW m \in Nat, m >= 1,
               a <= x, x < a + m, a <= y, y < a + m, (x % m) = (y % m)
        PROVE  x = y
    <2>1. x = m * (x \div m) + (x % m) /\ y = m * (y \div m) + (y % m)
      BY <1>4
    <2>2. \A j, k \in Int : m * j - m * k < m => j - k < 1
      BY <1>4
    <2>3. x \div m \in Int /\ y \div m \in Int
      BY <1>4
    <2>4. m * (x \div m) - m * (y \div m) < m /\ m * (y \div m) - m * (x \div m) < m
      BY <1>4, <2>1, <2>3
    <2>5. (x \div m) - (y \div m) < 1 /\ (y \div m) - (x \div m) < 1
      BY <2>2, <2>3, <2>4
    <2>6. x \div m = y \div m
      BY <2>3, <2>5
    <2> QED BY <1>4, <2>1, <2>6
  <1>5. time[t] % PER_LEVEL = time[u] % PER_LEVEL
    <2>1. \A x \in Nat : x \div 1 = x
      OBVIOUS
    <2> QED BY <1>2, <2>1
  <1>6. /\ w.base <= time[t] /\ time[t] < w.base + PER_LEVEL /\ time[t] \in Nat
        /\ w.base <= time[u] /\ time[u] < w.base + PER_LEVEL /\ time[u] \in Nat
    BY <1>2, <1>3
  <1> QED BY ONLY <1>3, <1>4, <1>5, <1>6

\* The earliest timer of a level, or of the far list.
LEMMA LevelFirstFact ==
  ASSUME NEW w \in Wheel, Sorted(w), time \in [Timer -> Time], NEW l \in 0 .. Levels,
         NEW f, f = LevelFirst(w, l)
  PROVE  /\ f \in Time \cup {Never}
         /\ f # Never => \E t \in Timer : w.where[t] # Nowhere /\ time[t] = f
         /\ \A t \in Timer : w.where[t] # Nowhere /\ w.where[t][1] = l => f <= time[t]
  <1>1. CASE l = Levels
    <2>1. f = FindFirst(l, On(w, Far)) /\ l # 0
      BY <1>1, TimerAssumption DEF LevelFirst
    <2>2. On(w, Far) \subseteq Timer
      BY DEF On
    <2>3. /\ f \in Time \cup {Never}
          /\ f # Never => \E t \in On(w, Far) : time[t] = f
          /\ \A t \in On(w, Far) : f <= time[t]
      BY <2>1, <2>2, FindFirstFact
    <2>4. \A t \in Timer : w.where[t] # Nowhere /\ w.where[t][1] = l => w.where[t] = Far
      <3> SUFFICES ASSUME NEW t \in Timer, w.where[t] # Nowhere, w.where[t] # Far
                   PROVE  w.where[t][1] # l
        OBVIOUS
      <3>1. w.where[t] \in Place
        BY DEF Wheel
      <3>2. w.where[t][1] \in Level
        BY <3>1, Places
      <3> QED BY <1>1, <3>2, TimerAssumption DEF Level
    <2> QED BY <2>3, <2>4, Places DEF On
  <1>2. CASE l # Levels
    <2> DEFINE g(i) == FindFirst(l, On(w, <<l, i>>))
               T == {g(i) : i \in 0 .. PER_LEVEL - 1}
    <2>1. f = MinTime(T)
      BY <1>2 DEF LevelFirst
    <2>2. ASSUME NEW i \in 0 .. PER_LEVEL - 1
          PROVE  /\ g(i) \in Time \cup {Never}
                 /\ g(i) # Never => \E t \in On(w, <<l, i>>) : time[t] = g(i)
                 /\ \A t \in On(w, <<l, i>>) : g(i) <= time[t]
      <3>1. On(w, <<l, i>>) \subseteq Timer
        BY DEF On
      <3>2. l = 0 => \A t, u \in On(w, <<l, i>>) : time[t] = time[u]
        BY SameTime
      <3> QED BY <3>1, <3>2, FindFirstFact
    <2>3. f \in Time \cup {Never} /\ (f # Never => f \in T) /\ \A x \in T : f <= x
      <3>1. T \subseteq Time \cup {Never}
        BY <2>2
      <3> HIDE DEF T
      <3> QED BY <2>1, <3>1, MinTimeFact
    <2>4. l \in Level
      BY <1>2, TimerAssumption DEF Level
    <2> HIDE DEF g
    <2>5. ASSUME f # Never PROVE \E t \in Timer : w.where[t] # Nowhere /\ time[t] = f
      <3>1. PICK i \in 0 .. PER_LEVEL - 1 : f = g(i)
        BY <2>3, <2>5
      <3>2. PICK t \in On(w, <<l, i>>) : time[t] = g(i)
        BY <2>2, <2>5, <3>1
      <3>3. <<l, i>> # Nowhere
        BY <2>4, Places
      <3> QED BY <3>1, <3>2, <3>3 DEF On
    <2>6. ASSUME NEW t \in Timer, w.where[t] # Nowhere, w.where[t][1] = l PROVE f <= time[t]
      <3> DEFINE i == w.where[t][2]
      <3>1. w.where[t] \in Place /\ w.where[t] # Far
        BY <1>2, <2>6, Places DEF Wheel
      <3>2. i \in 0 .. PER_LEVEL - 1 /\ w.where[t] = <<l, i>>
        BY <2>6, <3>1, Places
      <3> HIDE DEF i
      <3>3. g(i) <= time[t]
        BY <2>2, <3>2 DEF On
      <3>4. f <= g(i)
        BY <2>3, <3>2
      <3>5. f \in Nat /\ g(i) \in Nat /\ time[t] \in Nat
        BY <2>2, <2>3, <3>2, Sizes
      <3> QED BY <3>3, <3>4, <3>5
    <2> QED BY <2>3, <2>5, <2>6
  <1> QED BY <1>1, <1>2

\* The struct timers that differ from w in what a search may change, with
\* watermarks that are still below the timers of their lists.
Alike(w) ==
  {v \in Wheel :
     /\ v.base = w.base /\ v.level = w.level /\ v.where = w.where
     /\ \A t \in Timer : w.where[t] # Nowhere => v.firsts[w.where[t][1]] <= time[t]}

\* first is the time of a timer, or there was none so far.
Exact(w) ==
  w.first # Never => \E t \in Timer : w.where[t] # Nowhere /\ time[t] = w.first

\* The body of brute_force_first's loop: nothing on the level is before what
\* was found then, though a level whose watermark is not below is not searched.
LEMMA SearchFact ==
  ASSUME NEW w \in Wheel, Sorted(w), time \in [Timer -> Time], NEW v \in Alike(w),
         NEW l \in 0 .. Levels, NEW u, u = Search(v, l)
  PROVE  /\ u \in Alike(w)
         /\ Exact(v) => Exact(u)
         /\ u.first <= v.first
         /\ \A t \in Timer : w.where[t] # Nowhere /\ w.where[t][1] = l => u.first <= time[t]
  <1>1. /\ v \in Wheel /\ v.base = w.base /\ v.level = w.level /\ v.where = w.where
        /\ \A t \in Timer : w.where[t] # Nowhere => v.firsts[w.where[t][1]] <= time[t]
    BY DEF Alike
  <1>2. /\ v.base \in Time /\ v.level \subseteq Level /\ v.where \in [Timer -> Place]
        /\ v.firsts \in [0 .. Levels -> Time \cup {Never}] /\ v.first \in Time \cup {Never}
    BY <1>1 DEF Wheel
  <1>3. Sorted(v)
    BY <1>1, RightShape DEF Sorted
  <1> DEFINE f == LevelFirst(v, l)
  <1>4. /\ f \in Time \cup {Never}
        /\ f # Never => \E t \in Timer : v.where[t] # Nowhere /\ time[t] = f
        /\ \A t \in Timer : v.where[t] # Nowhere /\ v.where[t][1] = l => f <= time[t]
    BY <1>1, <1>3, LevelFirstFact
  <1>5. f \in Nat /\ v.first \in Nat /\ \A t \in Timer : time[t] \in Nat
    BY <1>2, <1>4, Sizes
  <1>6. u = IF MayBeat(v, l) THEN [v EXCEPT !.firsts[l] = f, !.first = Min({v.first, f})] ELSE v
    BY DEF Search
  <1> HIDE DEF f
  <1>7. CASE MayBeat(v, l)
    <2> DEFINE fi == [v.firsts EXCEPT ![l] = f]
               m == Min({v.first, f})
    <2>1. m \in {v.first, f} /\ m <= v.first /\ m <= f
      <3>1. {v.first, f} \subseteq Nat /\ {v.first, f} # {}
        BY <1>5
      <3> QED BY <3>1, MinFact
    <2>2. fi \in [0 .. Levels -> Time \cup {Never}] /\ m \in Time \cup {Never}
      BY <1>2, <1>4, <2>1
    <2>3. u = [base |-> v.base, first |-> m, firsts |-> fi, level |-> v.level,
               where |-> v.where]
      <3>1. u = [v EXCEPT !.firsts = fi, !.first = m]
        BY <1>1, <1>6, <1>7 DEF Wheel
      <3> HIDE DEF m, fi
      <3> QED BY <1>1, <3>1 DEF Wheel
    <2>4. u \in Wheel
      <3> HIDE DEF m, fi
      <3> QED BY <1>2, <2>2, <2>3 DEF Wheel
    <2>5. /\ u.base = v.base /\ u.level = v.level /\ u.where = v.where
          /\ u.firsts = fi /\ u.first = m
      <3> HIDE DEF m, fi
      <3> QED BY <2>3
    <2> HIDE DEF m
    <2>6. ASSUME NEW t \in Timer, w.where[t] # Nowhere
          PROVE  u.firsts[w.where[t][1]] <= time[t]
      <3>1. CASE w.where[t][1] = l
        BY <1>1, <1>2, <1>4, <2>5, <2>6, <3>1
      <3>2. CASE w.where[t][1] # l
        <4>1. w.where[t][1] \in 0 .. Levels
          BY <1>1, <1>2, <2>6, Places, TimerAssumption DEF Level
        <4> QED BY <1>1, <1>2, <2>5, <2>6, <3>2, <4>1
      <3> QED BY <3>1, <3>2
    <2> HIDE DEF fi
    <2>7. u \in Alike(w)
      BY <1>1, <2>4, <2>5, <2>6 DEF Alike
    <2>8. Exact(v) => Exact(u)
      BY <1>1, <1>4, <2>1, <2>5 DEF Exact
    <2>9. ASSUME NEW t \in Timer, w.where[t] # Nowhere, w.where[t][1] = l
          PROVE  u.first <= time[t]
      BY <1>1, <1>4, <1>5, <2>1, <2>5, <2>9
    <2> QED BY <2>1, <2>5, <2>7, <2>8, <2>9
  <1>8. CASE ~MayBeat(v, l)
    <2>1. u = v /\ ~(v.firsts[l] < v.first)
      BY <1>6, <1>8 DEF MayBeat
    <2>2. v.firsts[l] \in Nat
      BY <1>2, Sizes
    <2>3. ASSUME NEW t \in Timer, w.where[t] # Nowhere, w.where[t][1] = l
          PROVE  u.first <= time[t]
      <3>1. v.firsts[l] <= time[t]
        BY <1>1, <2>3
      <3> QED BY <1>5, <2>1, <2>2, <3>1
    <2> QED BY <1>5, <2>1, <2>3
  <1> QED BY <1>7, <1>8

\* brute_force_first finds the earliest timer, and makes the watermarks no
\* worse than lower bounds.
LEMMA BruteForceFact ==
  ASSUME NEW w \in Wheel, Ladder(w), Sorted(w), Marked(w), time \in [Timer -> Time],
         NEW u, u = BruteForceFirst(w)
  PROVE  /\ u \in Alike(w) /\ Exact(u)
         /\ \A t \in Timer : w.where[t] # Nowhere => u.first <= time[t]
  <1> DEFINE N == Top(w)
             D == Alike(w)
             b == [w EXCEPT !.first = Never]
             step == [n \in 1 .. N |-> [v \in D |-> Search(v, n - 1)]]
             af == CHOOSE f : f = [n \in 0 .. N |-> IF n = 0 THEN b ELSE Search(f[n - 1], n - 1)]
  <1>1. N \in 0 .. Levels /\ N \in Nat /\ w.level = 0 .. N - 1
    BY TimerAssumption DEF Ladder
  <1>2. /\ w.base \in Time /\ w.level \subseteq Level /\ w.where \in [Timer -> Place]
        /\ w.firsts \in [0 .. Levels -> Time \cup {Never}] /\ w.first \in Time \cup {Never}
    BY DEF Wheel
  <1>3. b \in D /\ b.first = Never
    <2>1. b = [base |-> w.base, first |-> Never, firsts |-> w.firsts, level |-> w.level,
               where |-> w.where]
      BY DEF Wheel
    <2> HIDE DEF b
    <2>2. b \in Wheel
      BY <1>2, <2>1 DEF Wheel
    <2>3. b.base = w.base /\ b.level = w.level /\ b.where = w.where /\ b.firsts = w.firsts
          /\ b.first = Never
      BY <2>1
    <2> QED BY <2>2, <2>3 DEF Alike, Marked
  <1>4. u = Search(af[N], Levels)
    BY DEF BruteForceFirst
  <1> HIDE DEF b, N
  <1>5. ASSUME NEW n \in 1 .. N PROVE n - 1 \in 0 .. Levels /\ \A v \in D : Search(v, n - 1) \in D
    <2>1. n - 1 \in 0 .. Levels
      BY <1>1, TimerAssumption
    <2> QED BY <2>1, SearchFact
  <1>6. PICK g : Unfolds(g, D, b, step, N)
    <2>1. step \in [1 .. N -> [D -> D]]
      BY <1>5
    <2> HIDE DEF step, D
    <2> QED BY <1>1, <1>3, <2>1, Recursion
  <1>7. g = [n \in 0 .. N |-> IF n = 0 THEN b ELSE Search(g[n - 1], n - 1)]
    <2>1. g \in [0 .. N -> D] /\ g[0] = b
      BY <1>6 DEF Unfolds
    <2>2. ASSUME NEW n \in 1 .. N PROVE g[n] = Search(g[n - 1], n - 1)
      <3>1. g[n] = step[n][g[n - 1]]
        <4> HIDE DEF step, D
        <4> QED BY <1>6 DEF Unfolds
      <3>2. g[n - 1] \in D
        BY <1>1, <2>1
      <3> HIDE DEF D
      <3> QED BY <3>1, <3>2
    <2> HIDE DEF D, step
    <2> QED BY <1>1, <2>1, <2>2
  <1>8. af = [n \in 0 .. N |-> IF n = 0 THEN b ELSE Search(af[n - 1], n - 1)]
    BY <1>7
  <1> HIDE DEF af
  <1> DEFINE S == {n \in 0 .. N :
                     /\ af[n] \in D /\ Exact(af[n])
                     /\ \A t \in Timer : w.where[t] # Nowhere /\ w.where[t][1] \in 0 .. n - 1
                          => af[n].first <= time[t]}
  <1>9. 0 \in S
    <2>1. af[0] = b
      BY <1>1, <1>8
    <2>2. 0 .. 0 - 1 = {}
      OBVIOUS
    <2>3. Exact(b)
      BY <1>3 DEF Exact
    <2> QED BY <1>1, <1>3, <2>1, <2>2, <2>3
  <1>10. ASSUME NEW n \in 0 .. N - 1, n \in S PROVE n + 1 \in S
    <2>1. n + 1 \in 1 .. N /\ (n + 1) - 1 = n /\ n \in 0 .. Levels
      BY <1>1, TimerAssumption
    <2>2. af[n + 1] = Search(af[n], n)
      <3>1. n + 1 \in 0 .. N /\ n + 1 # 0
        BY <1>1
      <3>2. af[n + 1] = Search(af[(n + 1) - 1], (n + 1) - 1)
        BY ONLY <1>8, <3>1
      <3> QED BY <2>1, <3>2
    <2>3. af[n] \in D /\ Exact(af[n])
      BY <1>10
    <2>4. /\ af[n + 1] \in D /\ Exact(af[n + 1])
          /\ af[n + 1].first <= af[n].first
          /\ \A t \in Timer : w.where[t] # Nowhere /\ w.where[t][1] = n
               => af[n + 1].first <= time[t]
      BY <2>1, <2>2, <2>3, SearchFact
    <2>5. af[n + 1].first \in Nat /\ af[n].first \in Nat
      BY <2>3, <2>4, Sizes DEF Alike, Wheel
    <2>6. ASSUME NEW t \in Timer, w.where[t] # Nowhere, w.where[t][1] \in 0 .. (n + 1) - 1
          PROVE  af[n + 1].first <= time[t]
      <3>1. CASE w.where[t][1] = n
        BY <2>4, <2>6, <3>1
      <3>2. CASE w.where[t][1] # n
        <4>1. w.where[t][1] \in 0 .. n - 1
          BY <2>1, <2>6, <3>2
        <4>2. af[n].first <= time[t] /\ time[t] \in Nat
          BY <1>10, <2>6, <4>1, Sizes
        <4> QED BY <2>4, <2>5, <4>2
      <3> QED BY <3>1, <3>2
    <2> QED BY <2>1, <2>4, <2>6
  <1>11. N \in S
    <2> HIDE DEF S
    <2>1. \A n \in 0 .. N : n \in S
      BY <1>1, <1>9, <1>10, InductionTo
    <2> QED BY <1>1, <2>1
  <1>12. /\ u \in D /\ Exact(u) /\ u.first <= af[N].first
         /\ \A t \in Timer : w.where[t] # Nowhere /\ w.where[t][1] = Levels => u.first <= time[t]
    <2>1. Levels \in 0 .. Levels
      BY TimerAssumption
    <2>2. af[N] \in D /\ Exact(af[N])
      BY <1>11
    <2> QED BY <1>4, <2>1, <2>2, SearchFact
  <1>13. ASSUME NEW t \in Timer, w.where[t] # Nowhere PROVE u.first <= time[t]
    <2>1. w.where[t] \in Place
      BY <1>2
    <2>2. CASE w.where[t] = Far
      BY <1>12, <1>13, <2>2, Places
    <2>3. CASE w.where[t] # Far
      <3>1. w.where[t][1] \in w.level
        BY <1>13, <2>3 DEF Sorted, Right, InBucket
      <3>2. af[N].first <= time[t] /\ time[t] \in Nat
        BY <1>1, <1>11, <1>13, <3>1, Sizes
      <3>3. u.first \in Nat /\ af[N].first \in Nat
        BY <1>11, <1>12, Sizes DEF Alike, Wheel
      <3> QED BY <1>12, <3>2, <3>3
    <2> QED BY <2>2, <2>3
  <1> QED BY <1>12, <1>13

\* update_first: first is the time of the earliest timer, Never if there is
\* none.  A timer in the rest of this turn of level 0 is before all others.
LEMMA UpdateFirstFact ==
  ASSUME NEW w \in Wheel, Ladder(w), Sorted(w), Marked(w), time \in [Timer -> Time],
         NEW u, u = UpdateFirst(w)
  PROVE  /\ u \in Wheel /\ u.base = w.base /\ u.level = w.level /\ u.where = w.where
         /\ Marked(u) /\ Exact(u)
  <1>1. SUFFICES /\ u \in Alike(w) /\ Exact(u)
                 /\ \A t \in Timer : w.where[t] # Nowhere => u.first <= time[t]
    BY <1>1 DEF Alike, Marked
  <1>2. CASE ~(0 \in w.level /\ Ahead(w) # {})
    <2>1. u = BruteForceFirst(w)
      BY <1>2 DEF UpdateFirst
    <2> QED BY <2>1, BruteForceFact
  <1>3. CASE 0 \in w.level /\ Ahead(w) # {}
    <2> DEFINE i == Min(Ahead(w))
               S == On(w, <<0, i>>)
               f == FindFirst(0, S)
    <2>1. u = [w EXCEPT !.first = f]
      BY <1>3 DEF UpdateFirst
    <2>2. /\ w.base \in Time /\ w.level \subseteq Level /\ w.where \in [Timer -> Place]
          /\ w.firsts \in [0 .. Levels -> Time \cup {Never}] /\ w.first \in Time \cup {Never}
          /\ w.base \in Nat /\ PER_LEVEL \in Nat /\ PER_LEVEL >= 2
      BY Spans DEF Wheel, Time
    <2>3. i \in Ahead(w) /\ \A y \in Ahead(w) : i <= y
      <3>1. w.base % PER_LEVEL \in Nat
        BY <2>2
      <3>2. Ahead(w) \subseteq Nat
        BY <2>2, <3>1 DEF Ahead
      <3> QED BY <1>3, <3>2, MinFact
    <2> HIDE DEF i
    <2>4. i \in w.base % PER_LEVEL .. PER_LEVEL - 1 /\ S # {} /\ S \subseteq Timer
      BY <2>3 DEF Ahead, On
    <2>5. /\ f \in Time \cup {Never} /\ (f # Never => \E t \in S : time[t] = f)
          /\ \A t \in S : f <= time[t]
      <3>1. \A t, x \in S : time[t] = time[x]
        BY SameTime
      <3> HIDE DEF S
      <3> QED BY <2>4, <3>1, FindFirstFact
    <2>6. <<0, i>>[1] = 0 /\ <<0, i>>[2] = i /\ <<0, i>> # Far /\ <<0, i>> # Nowhere
      BY TimerAssumption DEF Far, Nowhere
    <2>7. \A x \in Nat : x \div 1 = x
      OBVIOUS
    <2>8. ASSUME NEW t \in Timer, w.where[t] # Nowhere, w.where[t] # Far, w.where[t][1] = 0
          PROVE  /\ time[t] \in Nat /\ w.where[t] = <<0, time[t] % PER_LEVEL>>
                 /\ w.base <= time[t] /\ time[t] < w.base + PER_LEVEL
      <3>1. InBucket(w, time[t], 0, w.where[t][2]) /\ time[t] \in Nat
        BY <2>8, Sizes DEF Sorted, Right
      <3>2. w.where[t][2] = time[t] % PER_LEVEL
        BY <2>7, <3>1, Spans DEF InBucket
      <3>3. w.where[t] = <<0, w.where[t][2]>>
        BY <2>2, <2>8, Places
      <3>4. w.base <= time[t] /\ time[t] < w.base + PER_LEVEL
        BY <2>2, <3>1 DEF InBucket
      <3> QED BY <3>1, <3>2, <3>3, <3>4
    <2>9. PICK s \in S : TRUE
      BY <2>4
    <2>10. /\ s \in Timer /\ f <= time[s] /\ time[s] \in Nat /\ (time[s] % PER_LEVEL) = i
           /\ w.base <= time[s] /\ time[s] < w.base + PER_LEVEL
      <3>1. s \in Timer /\ w.where[s] = <<0, i>>
        BY <2>9 DEF On
      <3>2. <<0, i>> = <<0, time[s] % PER_LEVEL>>
        BY <2>6, <2>8, <3>1
      <3> QED BY <2>5, <2>6, <2>8, <2>9, <3>1, <3>2
    <2>11. ASSUME NEW a \in Nat, NEW x \in Nat, NEW m \in Nat, m >= 1, a <= x, x < a + m,
                  (a % m) <= (x % m)
           PROVE  (x \div m) = (a \div m) /\ x = m * (a \div m) + (x % m)
      <3>1. /\ x = m * (x \div m) + (x % m) /\ a = m * (a \div m) + (a % m)
            /\ (x % m) < m /\ (a % m) \in Nat /\ (x % m) \in Nat
            /\ x \div m \in Nat /\ a \div m \in Nat
        BY <2>11
      <3>2. m * (x \div m) - m * (a \div m) < m
        BY <2>11, <3>1
      <3>3. \A j, k \in Nat : m * j - m * k < m => j - k < 1
        BY <2>11
      <3>4. (x \div m) - (a \div m) < 1
        BY <3>1, <3>2, <3>3
      <3>5. a \div m <= x \div m
        BY <2>11
      <3>6. x \div m = a \div m
        BY <3>1, <3>4, <3>5
      <3> QED BY <3>1, <3>6
    <2>12. /\ time[s] \div PER_LEVEL = w.base \div PER_LEVEL
           /\ time[s] = PER_LEVEL * (w.base \div PER_LEVEL) + i
      <3>1. (w.base % PER_LEVEL) <= (time[s] % PER_LEVEL)
        BY <2>2, <2>4, <2>10
      <3>2. /\ w.base \in Nat /\ time[s] \in Nat /\ PER_LEVEL \in Nat /\ PER_LEVEL >= 1
            /\ w.base <= time[s] /\ time[s] < w.base + PER_LEVEL
        BY <2>2, <2>10
      <3>3. /\ (time[s] \div PER_LEVEL) = (w.base \div PER_LEVEL)
            /\ time[s] = PER_LEVEL * (w.base \div PER_LEVEL) + (time[s] % PER_LEVEL)
        BY ONLY <2>11, <3>1, <3>2
      <3> QED BY <2>10, <3>3
    <2>13. ASSUME NEW t \in Timer, w.where[t] # Nowhere PROVE time[s] <= time[t]
      <3>1. w.where[t] \in Place /\ time[t] \in Time /\ time[t] \in Nat
            /\ Right(w, time[t], w.where[t])
        BY <2>2, <2>13, Sizes DEF Sorted
      <3>2. CASE w.where[t][1] # 0
        <4>1. w.base \div PER_LEVEL < time[t] \div PER_LEVEL
          BY <1>3, <2>2, <2>13, <3>1, <3>2, NotOverdue
        <4>2. time[s] < time[t]
          BY <2>2, <2>10, <2>12, <3>1, <4>1, Distances
        <4> QED BY <2>10, <3>1, <4>2
      <3>3. CASE w.where[t][1] = 0
        <4>1. w.where[t] # Far
          BY <3>3, Places, TimerAssumption
        <4>2. /\ w.where[t] = <<0, time[t] % PER_LEVEL>>
              /\ w.base <= time[t] /\ time[t] < w.base + PER_LEVEL
          BY <2>8, <2>13, <3>3, <4>1
        <4>3. CASE (w.base % PER_LEVEL) <= (time[t] % PER_LEVEL)
          <5>1. time[t] = PER_LEVEL * (w.base \div PER_LEVEL) + (time[t] % PER_LEVEL)
            <6>1. /\ w.base \in Nat /\ time[t] \in Nat /\ PER_LEVEL \in Nat /\ PER_LEVEL >= 1
                  /\ w.base <= time[t] /\ time[t] < w.base + PER_LEVEL
              BY <2>2, <3>1, <4>2
            <6> QED BY ONLY <2>11, <4>3, <6>1
          <5>2. (time[t] % PER_LEVEL) \in Ahead(w)
            <6>1. (time[t] % PER_LEVEL) \in w.base % PER_LEVEL .. PER_LEVEL - 1
              BY <2>2, <3>1, <4>3
            <6>2. t \in On(w, <<0, time[t] % PER_LEVEL>>)
              BY <4>2 DEF On
            <6> QED BY <6>1, <6>2 DEF Ahead
          <5>3. i <= (time[t] % PER_LEVEL)
            BY <2>3, <5>2
          <5>4. PER_LEVEL * (w.base \div PER_LEVEL) \in Nat /\ (time[t] % PER_LEVEL) \in Nat
                /\ i \in Nat
            BY <2>2, <2>4, <3>1
          <5> QED BY <2>12, <5>1, <5>3, <5>4
        <4>4. CASE ~((w.base % PER_LEVEL) <= (time[t] % PER_LEVEL))
          <5>1. w.base \div PER_LEVEL < time[t] \div PER_LEVEL
            <6>1. ASSUME NEW a \in Nat, NEW x \in Nat, NEW m \in Nat, m >= 1, a <= x,
                         ~((a % m) <= (x % m))
                  PROVE  (a \div m) < (x \div m)
              <7>1. /\ x = m * (x \div m) + (x % m) /\ a = m * (a \div m) + (a % m)
                    /\ (a % m) \in Nat /\ (x % m) \in Nat
                    /\ x \div m \in Nat /\ a \div m \in Nat /\ a \div m <= x \div m
                BY <6>1
              <7> QED BY <6>1, <7>1
            <6> QED BY <2>2, <3>1, <4>2, <4>4, <6>1
          <5>2. time[s] < time[t]
            BY <2>2, <2>10, <2>12, <3>1, <5>1, Distances
          <5> QED BY <2>10, <3>1, <5>2
        <4> QED BY <4>3, <4>4
      <3> QED BY <3>2, <3>3
    <2> HIDE DEF S, f
    <2>14. f \in Nat /\ f \in Time
      BY <2>5, <2>10, Sizes DEF Time
    <2>15. u = [base |-> w.base, first |-> f, firsts |-> w.firsts, level |-> w.level,
                where |-> w.where]
      BY <2>1 DEF Wheel
    <2>16. u \in Wheel /\ u.base = w.base /\ u.level = w.level /\ u.where = w.where
           /\ u.firsts = w.firsts /\ u.first = f
      BY <2>2, <2>5, <2>15 DEF Wheel
    <2>17. u \in Alike(w)
      BY <2>16 DEF Alike, Marked
    <2>18. Exact(u)
      BY <2>5, <2>6, <2>16 DEF Exact, S, On
    <2>19. ASSUME NEW t \in Timer, w.where[t] # Nowhere PROVE u.first <= time[t]
      <3>1. time[s] <= time[t] /\ time[t] \in Nat
        BY <2>13, <2>19, Sizes
      <3> QED BY <2>10, <2>14, <2>16, <3>1
    <2> QED BY <2>17, <2>18, <2>19
  <1> QED BY <1>2, <1>3

-----------------------------------------------------------------------------
(* Each call keeps the invariant *)

\* add_level for level 0, the first.
LEMMA AddLevelZero ==
  ASSUME NEW w \in Wheel, Ladder(w), Sorted(w), Marked(w), time \in [Timer -> Time],
         0 \notin w.level, NEW v, v = AddLevel(w, 0)
  PROVE  /\ v \in Wheel /\ Ladder(v) /\ Sorted(v) /\ Marked(v)
         /\ v.base = w.base /\ v.first = w.first /\ 0 \in v.level
         /\ \A t \in Timer : v.where[t] = Nowhere <=> w.where[t] = Nowhere
  <1> DEFINE u == [w EXCEPT !.level = @ \cup {0}]
             S == FarGet(w, Horizon(w, 0))
  <1>1. /\ w.base \in Time /\ w.level \subseteq Level /\ w.where \in [Timer -> Place]
        /\ w.firsts \in [0 .. Levels -> Time \cup {Never}] /\ w.first \in Time \cup {Never}
        /\ w.base \in Nat
    BY DEF Wheel, Time
  <1>2. v = AddAll(u, S)
    BY DEF AddLevel
  <1>3. Top(w) = 0 /\ w.level = {}
    BY TimerAssumption DEF Ladder
  <1>4. u = [base |-> w.base, first |-> w.first, firsts |-> w.firsts, level |-> {0},
             where |-> w.where]
    <2>1. w.level \cup {0} = {0}
      BY <1>3
    <2>2. u = [base |-> w.base, first |-> w.first, firsts |-> w.firsts,
               level |-> w.level \cup {0}, where |-> w.where]
      BY DEF Wheel
    <2> QED BY ONLY <2>1, <2>2
  <1> HIDE DEF u
  <1>5. 0 \in Level
    BY TimerAssumption DEF Level
  <1>6. u \in Wheel
    BY <1>1, <1>4, <1>5 DEF Wheel
  <1>7. u.base = w.base /\ u.first = w.first /\ u.firsts = w.firsts /\ u.level = {0}
        /\ u.where = w.where
    BY <1>4
  <1>8. Top(u) = 1 /\ Ladder(u)
    <2>1. 1 \in 0 .. Levels /\ {0} = 0 .. 1 - 1
      BY TimerAssumption
    <2> QED BY <1>7, <2>1, TopFact
  <1>9. ASSUME NEW t \in Timer, w.where[t] # Nowhere
        PROVE  w.where[t] = Far /\ w.base <= time[t] /\ time[t] \in Nat
    BY <1>3, <1>9, Sizes DEF Sorted, Right, InBucket, Beyond
  <1>10. S \subseteq Timer /\ \A t \in S : w.where[t] # Nowhere
    BY Places DEF FarGet, On
  <1>11. /\ v \in Wheel /\ v.base = u.base /\ v.first = u.first /\ v.level = u.level
         /\ \A t \in Timer \ S : v.where[t] = u.where[t]
         /\ \A t \in S : /\ v.where[t] # Nowhere
                         /\ Right(u, time[t], v.where[t])
                         /\ v.firsts[v.where[t][1]] <= time[t]
         /\ \A l \in 0 .. Levels : v.firsts[l] <= u.firsts[l]
    <2>1. \A t \in S : u.base <= time[t]
      BY <1>7, <1>9, <1>10
    <2> HIDE DEF S
    <2> QED BY <1>2, <1>6, <1>8, <1>10, <2>1, AddAllFact
  <1>12. Ladder(v) /\ \A x, p : Right(v, x, p) <=> Right(u, x, p)
    BY <1>8, <1>11, RightShape
  <1>13. ASSUME NEW t \in Timer, t \notin S, w.where[t] # Nowhere
         PROVE  Right(v, time[t], v.where[t])
    <2>1. w.where[t] = Far /\ w.base <= time[t] /\ time[t] \in Nat
      BY <1>9, <1>13
    <2>2. ~(time[t] <= Horizon(w, 0))
      BY <1>13, <2>1 DEF FarGet, On
    <2>3. Span(1) \in Nat /\ Span(1) >= 1
      BY Spans, TimerAssumption
    <2>4. w.base + Span(1) <= time[t]
      BY <1>1, <2>1, <2>2, <2>3 DEF Horizon
    <2>5. w.base \div Span(1) < time[t] \div Span(1)
      BY <1>1, <2>1, <2>3, <2>4, Distances
    <2>6. Beyond(u, time[t])
      BY <1>7, <1>8, <2>1, <2>5 DEF Beyond
    <2>7. v.where[t] = Far
      BY <1>7, <1>11, <1>13, <2>1
    <2> QED BY <1>12, <2>6, <2>7 DEF Right
  <1>14. \A t \in Timer : v.where[t] = Nowhere <=> w.where[t] = Nowhere
    BY <1>7, <1>10, <1>11
  <1>15. Sorted(v)
    BY <1>11, <1>12, <1>13, <1>14 DEF Sorted
  <1>16. Marked(v)
    <2> SUFFICES ASSUME NEW t \in Timer, v.where[t] # Nowhere
                 PROVE  v.first <= time[t] /\ v.firsts[v.where[t][1]] <= time[t]
      BY DEF Marked
    <2>1. w.first <= time[t] /\ w.firsts[w.where[t][1]] <= time[t]
      BY <1>14 DEF Marked
    <2>2. CASE t \in S
      BY <1>7, <1>11, <2>1, <2>2
    <2>3. CASE t \notin S
      <3>1. v.where[t] = Far /\ w.where[t] = Far /\ time[t] \in Nat
        BY <1>7, <1>9, <1>11, <1>14, <2>3
      <3>2. Far[1] = Levels /\ Levels \in 0 .. Levels
        BY Places, TimerAssumption
      <3>3. v.firsts[Levels] <= w.firsts[Levels]
        BY <1>7, <1>11, <3>2
      <3>4. v.firsts[Levels] \in Nat /\ w.firsts[Levels] \in Nat
        BY <1>1, <1>11, <3>2, Sizes DEF Wheel
      <3> QED BY <1>7, <1>11, <2>1, <3>1, <3>2, <3>3, <3>4
    <2> QED BY <2>2, <2>3
  <1> HIDE DEF S
  <1> QED BY <1>7, <1>11, <1>12, <1>14, <1>15, <1>16

\* What the invariant says of the struct timers.
LEMMA InvFacts ==
  ASSUME IInv
  PROVE  /\ timers \in Wheel /\ time \in [Timer -> Time]
         /\ Ladder(timers) /\ Sorted(timers) /\ Marked(timers)
         /\ timers.base \in Time /\ timers.base \in Nat /\ timers.level \subseteq Level
         /\ timers.where \in [Timer -> Place] /\ timers.first \in Time \cup {Never}
         /\ timers.first \in Nat /\ timers.base <= timers.first
         /\ \A t \in Timer : timers.where[t] # Nowhere =>
              timers.base <= time[t] /\ timers.first <= time[t]
  <1>1. timers \in Wheel /\ time \in [Timer -> Time]
        /\ Ladder(timers) /\ Sorted(timers) /\ Marked(timers) /\ timers.base <= timers.first
    BY DEF IInv, TypeOK, Wheel, InTime
  <1>2. /\ timers.base \in Time /\ timers.level \subseteq Level
        /\ timers.where \in [Timer -> Place] /\ timers.first \in Time \cup {Never}
    BY <1>1 DEF Wheel
  <1>3. timers.base \in Nat /\ timers.first \in Nat
    BY <1>2, Sizes
  <1>4. ASSUME NEW t \in Timer, timers.where[t] # Nowhere
        PROVE  timers.base <= time[t] /\ timers.first <= time[t]
    <2>1. time[t] \in Time /\ timers.where[t] \in Place /\ Right(timers, time[t], timers.where[t])
      BY <1>1, <1>2, <1>4 DEF Sorted
    <2> QED BY <1>1, <1>2, <1>4, <2>1, NotOverdue DEF Marked
  <1> QED BY <1>1, <1>2, <1>3, <1>4

\* The invariant holds after a step that leaves the times of timers alone.
LEMMA Kept ==
  ASSUME timers' \in Wheel, Ladder(timers'), Sorted(timers'), Marked(timers'),
         time \in [Timer -> Time], UNCHANGED time
  PROVE  Ladder(timers)' /\ Sorted(timers)' /\ Marked(timers)'
         /\ (timers \in Wheel)' /\ time' \in [Timer -> Time]
  BY DEF Ladder, Top, Sorted, Marked, Wheel, Right, Beyond, InBucket

\* A new struct timers satisfies the invariant.
LEMMA InitInv == Init => IInv
  <1> SUFFICES ASSUME Init PROVE IInv
    OBVIOUS
  <1>1. PICK start \in Time :
          /\ timers = [base |-> start, first |-> Never,
                       firsts |-> [l \in 0 .. Levels |-> Never],
                       level |-> {}, where |-> [t \in Timer |-> Nowhere]]
          /\ time = [t \in Timer |-> 0]
          /\ clock = start /\ now = NULL /\ ret = Void
    BY DEF Init
  <1>2. 0 \in Time /\ Nowhere \in Place /\ start \in Nat /\ Never \in Nat /\ start <= Never
    BY Sizes, Places DEF Time
  <1>3. TypeOK
    BY <1>1, <1>2 DEF TypeOK
  <1>4. Ladder(timers)
    <2>1. timers.level = 0 .. 0 - 1 /\ 0 \in 0 .. Levels
      BY <1>1, TimerAssumption
    <2> QED BY <2>1, TopFact
  <1>5. Sorted(timers) /\ Marked(timers)
    BY <1>1 DEF Sorted, Marked
  <1>6. InTime
    BY <1>1, <1>2 DEF InTime
  <1> QED BY <1>3, <1>4, <1>5, <1>6 DEF IInv

\* timer_addrel and timer_addmono.
LEMMA AddInv ==
  ASSUME IInv, NEW t \in Timer, NEW when \in Time, TimerAdd(t, when)
  PROVE  IInv'
  <1> DEFINE x == NotBefore(when)
             m == Min({timers.first, x})
             v == [timers EXCEPT !.first = m]
             p == PlaceOf(v, x)
             fp == Min({timers.firsts[p[1]], x})
  <1>1. /\ timers \in Wheel /\ time \in [Timer -> Time]
        /\ Ladder(timers) /\ Sorted(timers) /\ Marked(timers)
        /\ timers.base \in Time /\ timers.base \in Nat /\ timers.level \subseteq Level
        /\ timers.where \in [Timer -> Place] /\ timers.first \in Time \cup {Never}
        /\ timers.first \in Nat /\ timers.base <= timers.first
    BY InvFacts
  <1>2. x \in Time /\ x \in Nat /\ timers.base <= x
    BY <1>1, Sizes DEF NotBefore, Time
  <1>3. m \in {timers.first, x} /\ m <= timers.first /\ m <= x
    <2>1. {timers.first, x} \subseteq Nat /\ {timers.first, x} # {}
      BY <1>1, <1>2
    <2> HIDE DEF x
    <2> QED BY <2>1, MinFact
  <1>4. /\ time' = [time EXCEPT ![t] = x] /\ time'[t] = x
        /\ timers' = AddRaw(v, time', t)
        /\ ret' = Void /\ clock' = clock /\ now' = now /\ now = NULL
        /\ timers.where[t] = Nowhere
    BY <1>1, <1>2 DEF TimerAdd, Idle
  <1> HIDE DEF x, m
  <1>5. v = [base |-> timers.base, first |-> m, firsts |-> timers.firsts,
             level |-> timers.level, where |-> timers.where]
    BY <1>1 DEF Wheel
  <1>6. timers' = [v EXCEPT !.where[t] = p, !.firsts[p[1]] = Min({@, x})]
    BY <1>4 DEF AddRaw
  <1> HIDE DEF v
  <1>7. v.base = timers.base /\ v.first = m /\ v.firsts = timers.firsts
        /\ v.level = timers.level /\ v.where = timers.where
    BY <1>5
  <1>8. Ladder(v) /\ Top(v) = Top(timers) /\ \A y, q : Right(v, y, q) <=> Right(timers, y, q)
    BY <1>1, <1>7, RightShape
  <1>9. p \in Place /\ p # Nowhere /\ p[1] \in 0 .. Levels /\ Right(timers, x, p)
    BY <1>1, <1>2, <1>7, <1>8, PlaceOfFact
  <1> HIDE DEF p
  <1>10. timers.firsts \in [0 .. Levels -> Time \cup {Never}]
    BY <1>1 DEF Wheel
  <1>11. fp \in Time \cup {Never} /\ fp <= timers.firsts[p[1]] /\ fp <= x
         /\ timers.firsts[p[1]] \in Nat /\ fp \in Nat
    <2>1. timers.firsts[p[1]] \in Time \cup {Never}
      BY <1>9, <1>10
    <2>2. {timers.firsts[p[1]], x} \subseteq Nat /\ {timers.firsts[p[1]], x} # {}
      BY <1>2, <2>1, Sizes
    <2>3. fp \in {timers.firsts[p[1]], x} /\ fp <= timers.firsts[p[1]] /\ fp <= x
      BY <2>2, MinFact
    <2> QED BY <1>2, <2>1, <2>2, <2>3
  <1>12. timers' = [base |-> timers.base, first |-> m,
                    firsts |-> [timers.firsts EXCEPT ![p[1]] = fp],
                    level |-> timers.level, where |-> [timers.where EXCEPT ![t] = p]]
    BY <1>5, <1>6, <1>9, <1>10
  <1> HIDE DEF fp
  <1> DEFINE fi == [timers.firsts EXCEPT ![p[1]] = fp]
             wh == [timers.where EXCEPT ![t] = p]
  <1>13. fi \in [0 .. Levels -> Time \cup {Never}] /\ wh \in [Timer -> Place]
         /\ m \in Time \cup {Never} /\ m \in Nat
    BY <1>1, <1>2, <1>3, <1>9, <1>10, <1>11
  <1>14. /\ timers'.base = timers.base /\ timers'.first = m /\ timers'.firsts = fi
         /\ timers'.level = timers.level /\ timers'.where = wh
    BY <1>12
  <1>15. timers' \in Wheel /\ time' \in [Timer -> Time]
    <2>1. timers' = [base |-> timers.base, first |-> m, firsts |-> fi,
                     level |-> timers.level, where |-> wh]
      BY <1>12
    <2> HIDE DEF fi, wh
    <2>2. timers' \in Wheel
      BY <1>1, <1>13, <2>1 DEF Wheel
    <2>3. time' \in [Timer -> Time]
      BY <1>1, <1>2, <1>4
    <2> QED BY <2>2, <2>3
  <1>16. Top(timers') = Top(timers) /\ Ladder(timers')
         /\ \A y, q : Right(timers', y, q) <=> Right(timers, y, q)
    BY <1>1, <1>14, RightShape
  <1>17. ASSUME NEW u \in Timer, timers'.where[u] # Nowhere
         PROVE  /\ Right(timers', time'[u], timers'.where[u])
                /\ timers'.first <= time'[u] /\ timers'.firsts[timers'.where[u][1]] <= time'[u]
    <2>1. CASE u = t
      <3>1. timers'.where[u] = p /\ time'[u] = x /\ timers'.firsts[p[1]] = fp
        BY <1>1, <1>4, <1>9, <1>10, <1>14, <2>1
      <3> QED BY <1>3, <1>9, <1>11, <1>14, <1>16, <3>1
    <2>2. CASE u # t
      <3>1. timers'.where[u] = timers.where[u] /\ time'[u] = time[u] /\ time[u] \in Nat
        BY <1>1, <1>4, <1>14, <2>2, Sizes
      <3>2. /\ Right(timers, time[u], timers.where[u])
            /\ timers.first <= time[u] /\ timers.firsts[timers.where[u][1]] <= time[u]
        BY <1>1, <1>17, <3>1 DEF Sorted, Marked
      <3>3. timers.where[u][1] \in 0 .. Levels
        BY <1>1, <1>17, <3>1, Places, TimerAssumption DEF Level
      <3>4. timers.firsts[timers.where[u][1]] \in Nat /\ fi[timers.where[u][1]] \in Nat
        BY <1>10, <1>13, <3>3, Sizes
      <3>5. fi[timers.where[u][1]] <= timers.firsts[timers.where[u][1]]
        BY <1>10, <1>11, <3>3, <3>4
      <3>6. m <= time[u]
        BY <1>1, <1>3, <1>13, <3>1, <3>2
      <3> QED BY <1>14, <1>16, <3>1, <3>2, <3>4, <3>5, <3>6
    <2> QED BY <2>1, <2>2
  <1>18. Ladder(timers)' /\ Sorted(timers)' /\ Marked(timers)'
    BY <1>16, <1>17 DEF Ladder, Top, Sorted, Marked, Right, Beyond, InBucket
  <1>19. TypeOK'
    BY <1>4, <1>15 DEF IInv, TypeOK, Wheel
  <1>20. InTime'
    <2>1. timers.base <= m
      BY <1>1, <1>2, <1>3
    <2> QED BY <1>4, <1>14, <2>1 DEF IInv, InTime
  <1> QED BY <1>18, <1>19, <1>20 DEF IInv

\* A step that takes one timer off w, the wheel it begins with or one that
\* differs from it in nothing else.
LEMMA TakenOff ==
  ASSUME NEW w \in Wheel, Ladder(w), Sorted(w), Marked(w), time \in [Timer -> Time],
         NEW t \in Timer, timers' = [w EXCEPT !.where[t] = Nowhere],
         time' = [time EXCEPT ![t] = 0]
  PROVE  /\ timers' \in Wheel /\ time' \in [Timer -> Time]
         /\ timers'.base = w.base /\ timers'.first = w.first /\ timers'.level = w.level
         /\ timers'.where = [w.where EXCEPT ![t] = Nowhere]
         /\ Ladder(timers)' /\ Sorted(timers)' /\ Marked(timers)'
  <1> DEFINE wh == [w.where EXCEPT ![t] = Nowhere]
  <1>1. /\ w.base \in Time /\ w.level \subseteq Level /\ w.where \in [Timer -> Place]
        /\ w.firsts \in [0 .. Levels -> Time \cup {Never}] /\ w.first \in Time \cup {Never}
    BY DEF Wheel
  <1>2. timers' = [base |-> w.base, first |-> w.first, firsts |-> w.firsts,
                   level |-> w.level, where |-> wh]
    BY DEF Wheel
  <1>3. wh \in [Timer -> Place]
    BY <1>1, Places
  <1>4. \A u \in Timer : wh[u] # Nowhere => u # t /\ wh[u] = w.where[u]
    BY <1>1
  <1>5. wh = [w.where EXCEPT ![t] = Nowhere]
    OBVIOUS
  <1> HIDE DEF wh
  <1>6. timers' \in Wheel
    BY <1>1, <1>2, <1>3 DEF Wheel
  <1>7. /\ timers'.base = w.base /\ timers'.first = w.first /\ timers'.firsts = w.firsts
        /\ timers'.level = w.level /\ timers'.where = wh
    BY <1>2
  <1>8. 0 \in Time
    BY Sizes DEF Time
  <1>9. time' \in [Timer -> Time] /\ \A u \in Timer : u # t => time'[u] = time[u]
    BY <1>8
  <1>10. Ladder(timers') /\ \A x, p : Right(timers', x, p) <=> Right(w, x, p)
    BY <1>7, RightShape
  <1>11. ASSUME NEW u \in Timer, timers'.where[u] # Nowhere
         PROVE  /\ Right(timers', time'[u], timers'.where[u])
                /\ timers'.first <= time'[u] /\ timers'.firsts[timers'.where[u][1]] <= time'[u]
    <2>1. timers'.where[u] = w.where[u] /\ time'[u] = time[u] /\ w.where[u] # Nowhere
      BY <1>4, <1>7, <1>9, <1>11
    <2> QED BY <1>7, <1>10, <2>1 DEF Sorted, Marked
  <1>12. Ladder(timers)' /\ Sorted(timers)' /\ Marked(timers)'
    BY <1>10, <1>11 DEF Ladder, Top, Sorted, Marked, Right, Beyond, InBucket
  <1> QED BY <1>5, <1>6, <1>7, <1>9, <1>12

\* timer_del.
LEMMA DelInv ==
  ASSUME IInv, NEW t \in Timer, TimerDel(t)
  PROVE  IInv'
  <1>1. /\ timers \in Wheel /\ time \in [Timer -> Time] /\ timers.base <= timers.first
        /\ Ladder(timers) /\ Sorted(timers) /\ Marked(timers)
    BY InvFacts
  <1>2. /\ timers' = [timers EXCEPT !.where[t] = Nowhere] /\ time' = [time EXCEPT ![t] = 0]
        /\ ret' = Void /\ clock' = clock /\ now' = now /\ now = NULL
    BY DEF TimerDel, Idle
  <1>3. /\ timers' \in Wheel /\ time' \in [Timer -> Time]
        /\ timers'.base = timers.base /\ timers'.first = timers.first
        /\ timers'.level = timers.level
        /\ Ladder(timers)' /\ Sorted(timers)' /\ Marked(timers)'
    BY <1>1, <1>2, TakenOff
  <1>4. TypeOK'
    BY <1>2, <1>3 DEF IInv, TypeOK, Wheel
  <1>5. InTime'
    BY <1>2, <1>3 DEF IInv, InTime
  <1> QED BY <1>3, <1>4, <1>5 DEF IInv

\* update_first leaves a first that is not before base.
LEMMA FirstNotPast ==
  ASSUME NEW w \in Wheel, Ladder(w), Sorted(w), time \in [Timer -> Time],
         NEW u \in Wheel, u.where = w.where, Exact(u)
  PROVE  w.base <= u.first
  <1>1. w.base \in Time /\ w.level \subseteq Level /\ w.where \in [Timer -> Place]
    BY DEF Wheel
  <1>2. CASE u.first = Never
    BY <1>1, <1>2, Sizes DEF Time
  <1>3. CASE u.first # Never
    <2>1. PICK t \in Timer : u.where[t] # Nowhere /\ time[t] = u.first
      BY <1>3 DEF Exact
    <2>2. time[t] \in Time /\ w.where[t] \in Place /\ w.where[t] # Nowhere
          /\ Right(w, time[t], w.where[t])
      BY <1>1, <2>1 DEF Sorted
    <2> QED BY <1>1, <2>1, <2>2, NotOverdue
  <1> QED BY <1>2, <1>3

\* timer_earliest.
LEMMA EarliestInv ==
  ASSUME IInv, TimerEarliest
  PROVE  IInv' /\ Exact(timers') /\ timers'.where = timers.where /\ Marked(timers')
  <1>1. /\ timers \in Wheel /\ time \in [Timer -> Time]
        /\ Ladder(timers) /\ Sorted(timers) /\ Marked(timers)
    BY InvFacts
  <1>2. /\ timers' = UpdateFirst(timers) /\ now = NULL
        /\ ret' = <<"earliest", NULL, IF timers'.first = Never THEN NULL ELSE timers'.first>>
        /\ time' = time /\ clock' = clock /\ now' = now
    BY DEF TimerEarliest, Idle
  <1>3. /\ timers' \in Wheel /\ timers'.base = timers.base /\ timers'.level = timers.level
        /\ timers'.where = timers.where /\ Marked(timers') /\ Exact(timers')
    BY <1>1, <1>2, UpdateFirstFact
  <1>4. Ladder(timers') /\ Sorted(timers')
    BY <1>1, <1>3, RightShape DEF Sorted
  <1>5. Ladder(timers)' /\ Sorted(timers)' /\ Marked(timers)'
    BY <1>1, <1>2, <1>3, <1>4, Kept
  <1>6. ret' \in {"earliest"} \X {NULL} \X (Time \cup {NULL})
    <2>1. timers'.first \in Time \cup {Never}
      BY <1>3 DEF Wheel
    <2> QED BY <1>2, <2>1
  <1>7. TypeOK'
    BY <1>1, <1>2, <1>3, <1>6 DEF IInv, TypeOK, Wheel
  <1>8. InTime'
    <2>1. timers.base <= timers'.first
      BY <1>1, <1>3, FirstNotPast
    <2> QED BY <1>2, <1>3, <2>1 DEF IInv, InTime
  <1> QED BY <1>3, <1>5, <1>7, <1>8 DEF IInv

\* timers_expire returns: the time it was given counts.
LEMMA ReturnFact ==
  ASSUME clock \in Time, NEW when \in Time, NEW r \in Timer \cup {NULL}, Return(when, r)
  PROVE  /\ now' = NULL /\ ret' = <<"expire", when, r>>
         /\ ret' \in {"expire"} \X Time \X (Timer \cup {NULL})
         /\ clock' \in Time /\ clock' = (IF clock < when THEN when ELSE clock)
         /\ when <= clock' /\ clock <= clock'
  <1>1. clock \in Nat /\ when \in Nat
    BY DEF Time
  <1>2. clock' = Max({clock, when})
    BY DEF Return
  <1>3. Max({clock, when}) = IF clock < when THEN when ELSE clock
    BY <1>1 DEF Max
  <1> QED BY <1>1, <1>2, <1>3 DEF Return

\* timers_expire begins: level 0 is there, and no timer comes or goes.
LEMMA CallInv ==
  ASSUME IInv, NEW when \in Time, ExpireCall(when)
  PROVE  /\ IInv'
         /\ \A t \in Timer : timers'.where[t] = Nowhere <=> timers.where[t] = Nowhere
  <1>1. /\ timers \in Wheel /\ time \in [Timer -> Time] /\ timers.base <= timers.first
        /\ Ladder(timers) /\ Sorted(timers) /\ Marked(timers)
    BY InvFacts
  <1>2. /\ timers.base <= when
        /\ timers' = IF 0 \in timers.level THEN timers ELSE AddLevel(timers, 0)
        /\ now' = when /\ time' = time /\ clock' = clock /\ ret' = ret
    <2>1. timers.base \in Nat /\ when \in Nat
      BY InvFacts DEF Time
    <2> QED BY <2>1 DEF ExpireCall
  <1>3. /\ timers' \in Wheel /\ Ladder(timers') /\ Sorted(timers') /\ Marked(timers')
        /\ timers'.base = timers.base /\ timers'.first = timers.first /\ 0 \in timers'.level
        /\ \A t \in Timer : timers'.where[t] = Nowhere <=> timers.where[t] = Nowhere
    <2>1. CASE 0 \in timers.level
      BY <1>1, <1>2, <2>1
    <2>2. CASE 0 \notin timers.level
      BY <1>1, <1>2, <2>2, AddLevelZero
    <2> QED BY <2>1, <2>2
  <1>4. Ladder(timers)' /\ Sorted(timers)' /\ Marked(timers)'
    BY <1>1, <1>2, <1>3, Kept
  <1>5. TypeOK'
    BY <1>1, <1>2, <1>3 DEF IInv, TypeOK, Wheel
  <1>6. when # NULL
    BY TimeAssumption DEF Time
  <1>7. InTime'
    BY <1>1, <1>2, <1>3, <1>6 DEF InTime
  <1> QED BY <1>3, <1>4, <1>5, <1>7 DEF IInv

\* timers_expire with a time before base, or without timers.
LEMMA NothingInv ==
  ASSUME IInv, NEW when \in Time, ExpireNothing(when)
  PROVE  IInv' /\ \A t \in Timer : timers.where[t] # Nowhere => when < time[t]
  <1>1. /\ timers \in Wheel /\ time \in [Timer -> Time] /\ timers.base <= timers.first
        /\ Ladder(timers) /\ Sorted(timers) /\ Marked(timers) /\ timers.base \in Nat
        /\ \A t \in Timer : timers.where[t] # Nowhere => timers.base <= time[t]
    BY InvFacts
  <1>2. timers' = timers /\ time' = time /\ now = NULL /\ Return(when, NULL)
    BY DEF ExpireNothing, Idle
  <1>3. clock \in Time /\ timers.base <= clock
    BY <1>2 DEF IInv, TypeOK, InTime
  <1>4. /\ now' = NULL /\ clock' \in Time /\ clock <= clock'
        /\ ret' \in {"expire"} \X Time \X (Timer \cup {NULL})
    BY <1>2, <1>3, ReturnFact
  <1>5. Ladder(timers)' /\ Sorted(timers)' /\ Marked(timers)'
    BY <1>1, <1>2, Kept
  <1>6. TypeOK'
    BY <1>2, <1>4 DEF IInv, TypeOK
  <1>7. InTime'
    BY <1>1, <1>2, <1>3, <1>4 DEF InTime, Time
  <1>8. ASSUME NEW t \in Timer, timers.where[t] # Nowhere PROVE when < time[t]
    <2>1. time[t] \in Nat /\ when \in Nat /\ timers.base <= time[t]
      BY <1>1, <1>8, Sizes
    <2>2. CASE when < timers.base
      BY <1>1, <2>1, <2>2
    <2>3. CASE 0 \notin timers.level /\ On(timers, Far) = {}
      <3>1. timers.level = {}
        BY <1>1, <2>3, TimerAssumption DEF Ladder
      <3>2. timers.where[t] = Far
        BY <1>1, <1>8, <3>1 DEF Sorted, Right, InBucket
      <3> QED BY <2>3, <3>2 DEF On
    <2> QED BY <2>2, <2>3 DEF ExpireNothing
  <1> QED BY <1>5, <1>6, <1>7, <1>8 DEF IInv

\* timers_expire moves base to now when nothing is due.
LEMMA NoneInv ==
  ASSUME IInv, ExpireNone
  PROVE  /\ IInv' /\ now \in Time
         /\ \A t \in Timer : timers'.where[t] = Nowhere <=> timers.where[t] = Nowhere
         /\ \A t \in Timer : timers.where[t] # Nowhere => now < time[t]
  <1>1. /\ timers \in Wheel /\ time \in [Timer -> Time] /\ timers.first \in Nat
        /\ Ladder(timers) /\ Sorted(timers) /\ Marked(timers)
        /\ \A t \in Timer : timers.where[t] # Nowhere => timers.first <= time[t]
    BY InvFacts
  <1>2. /\ timers' = FastForward(timers, now) /\ time' = time /\ now # NULL
        /\ Return(now, NULL) /\ timers.first > now
    BY DEF ExpireNone, Idle
  <1>3. now \in Time /\ clock \in Time /\ timers.base <= now /\ 0 \in timers.level /\ now \in Nat
    BY <1>2, Sizes DEF IInv, TypeOK, InTime
  <1>4. ASSUME NEW t \in Timer, timers.where[t] # Nowhere PROVE now < time[t] /\ now <= time[t]
    <2>1. time[t] \in Nat /\ timers.first <= time[t]
      BY <1>1, <1>4, Sizes
    <2> QED BY <1>1, <1>2, <1>3, <2>1
  <1>5. /\ timers' \in Wheel /\ Ladder(timers') /\ Sorted(timers') /\ Marked(timers')
        /\ timers'.base = now /\ timers'.first = timers.first
        /\ \A t \in Timer : timers'.where[t] = Nowhere <=> timers.where[t] = Nowhere
    BY <1>1, <1>2, <1>3, <1>4, FastForwardFact
  <1>6. /\ now' = NULL /\ clock' \in Time /\ now <= clock'
        /\ ret' \in {"expire"} \X Time \X (Timer \cup {NULL})
    BY <1>2, <1>3, ReturnFact
  <1>7. Ladder(timers)' /\ Sorted(timers)' /\ Marked(timers)'
    BY <1>1, <1>2, <1>5, Kept
  <1>8. TypeOK'
    BY <1>1, <1>2, <1>5, <1>6 DEF TypeOK, Wheel
  <1>9. InTime'
    BY <1>1, <1>2, <1>3, <1>5, <1>6 DEF InTime
  <1> QED BY <1>3, <1>4, <1>5, <1>7, <1>8, <1>9 DEF IInv

\* timers_expire moves base to first when that is not after now.  A timer in
\* the bucket that base points to is due then, and if there is none every timer is later.
LEMMA ToFirst ==
  ASSUME IInv, now # NULL, timers.first <= now, NEW w, w = FastForward(timers, timers.first)
  PROVE  /\ w \in Wheel /\ Ladder(w) /\ Sorted(w) /\ Marked(w) /\ 0 \in w.level
         /\ w.base = timers.first /\ w.first = timers.first
         /\ timers.first \in Time /\ timers.first \in Nat /\ now \in Time /\ now \in Nat
         /\ clock \in Time
         /\ \A t \in Timer : w.where[t] = Nowhere <=> timers.where[t] = Nowhere
         /\ \A t \in Timer : w.where[t] # Nowhere => time[t] \in Nat /\ timers.first <= time[t]
         /\ \A t \in Current(w) : t \in Timer /\ w.where[t] # Nowhere /\ time[t] = timers.first
         /\ Current(w) = {} => \A t \in Timer : w.where[t] # Nowhere => timers.first < time[t]
  <1>1. /\ timers \in Wheel /\ time \in [Timer -> Time] /\ timers.first \in Nat
        /\ Ladder(timers) /\ Sorted(timers) /\ Marked(timers) /\ timers.base <= timers.first
        /\ timers.first \in Time \cup {Never}
        /\ \A t \in Timer : timers.where[t] # Nowhere => timers.first <= time[t]
    BY InvFacts
  <1>2. now \in Time /\ clock \in Time /\ timers.base <= now /\ 0 \in timers.level /\ now \in Nat
    BY Sizes DEF IInv, TypeOK, InTime
  <1>3. timers.first \in Time
    BY <1>1, <1>2, Sizes DEF Time
  <1>4. /\ w \in Wheel /\ Ladder(w) /\ Sorted(w) /\ Marked(w)
        /\ w.base = timers.first /\ w.first = timers.first /\ 0 \in w.level
        /\ \A t \in Timer : w.where[t] = Nowhere <=> timers.where[t] = Nowhere
    BY <1>1, <1>2, <1>3, FastForwardFact
  <1> DEFINE b == w.base
             i == b % PER_LEVEL
  <1>5. b \in Nat /\ b \in Time /\ PER_LEVEL \in Nat /\ PER_LEVEL >= 2 /\ w.level \subseteq Level
        /\ w.where \in [Timer -> Place] /\ b = timers.first
    BY <1>1, <1>3, <1>4, Spans DEF Wheel
  <1>6. <<0, i>>[1] = 0 /\ <<0, i>>[2] = i /\ <<0, i>> # Far /\ <<0, i>> # Nowhere
    BY TimerAssumption DEF Far, Nowhere
  <1>7. \A t \in Timer : w.where[t] # Nowhere => time[t] \in Nat /\ b <= time[t]
    BY <1>1, <1>4, <1>5, Sizes
  <1>8. ASSUME NEW t \in Timer, w.where[t] # Nowhere, w.where[t] # Far, w.where[t][1] = 0
        PROVE  w.where[t] = <<0, time[t] % PER_LEVEL>> /\ time[t] < b + PER_LEVEL
    <2>1. InBucket(w, time[t], 0, w.where[t][2]) /\ time[t] \in Nat
      BY <1>4, <1>7, <1>8 DEF Sorted, Right
    <2>2. \A x \in Nat : x \div 1 = x
      OBVIOUS
    <2>3. w.where[t][2] = time[t] % PER_LEVEL
      BY <2>1, <2>2, Spans DEF InBucket
    <2>4. w.where[t] = <<0, w.where[t][2]>>
      BY <1>5, <1>8, Places
    <2>5. time[t] < b + PER_LEVEL
      BY <1>5, <2>1 DEF InBucket
    <2> QED BY <2>3, <2>4, <2>5
  <1>9. ASSUME NEW t \in Current(w)
        PROVE  t \in Timer /\ w.where[t] # Nowhere /\ time[t] = timers.first
    <2>1. t \in Timer /\ w.where[t] = <<0, i>>
      BY DEF Current, On
    <2>2. <<0, i>> = <<0, time[t] % PER_LEVEL>> /\ time[t] < b + PER_LEVEL
          /\ time[t] \in Nat /\ b <= time[t]
      BY <1>6, <1>7, <1>8, <2>1
    <2>3. ASSUME NEW a \in Nat, NEW x \in Nat, NEW m \in Nat, m >= 1, a <= x, x < a + m,
                 (x % m) = (a % m)
          PROVE  x = a
      <3>1. /\ x = m * (x \div m) + (x % m) /\ a = m * (a \div m) + (a % m)
            /\ (x % m) \in Nat /\ x \div m \in Nat /\ a \div m \in Nat
            /\ a \div m <= x \div m
        BY <2>3
      <3>2. \A j, k \in Nat : m * j - m * k < m => j - k < 1
        BY <2>3
      <3>3. m * (x \div m) - m * (a \div m) < m
        BY <2>3, <3>1
      <3>4. x \div m = a \div m
        BY <3>1, <3>2, <3>3
      <3> QED BY <2>3, <3>1, <3>4
    <2>4. (time[t] % PER_LEVEL) = (b % PER_LEVEL) /\ PER_LEVEL >= 1
      BY <1>5, <2>2
    <2> HIDE DEF b
    <2>5. time[t] = b
      BY ONLY <1>5, <2>2, <2>3, <2>4
    <2> QED BY <1>5, <1>6, <2>1, <2>5
  <1>10. ASSUME Current(w) = {}, NEW t \in Timer, w.where[t] # Nowhere
         PROVE  timers.first < time[t]
    <2>1. time[t] \in Nat /\ b <= time[t] /\ time[t] \in Time /\ w.where[t] \in Place
          /\ Right(w, time[t], w.where[t])
      BY <1>1, <1>4, <1>5, <1>7, <1>10 DEF Sorted
    <2>2. CASE w.where[t][1] # 0
      <3>1. b \div PER_LEVEL < time[t] \div PER_LEVEL
        BY <1>4, <1>5, <1>10, <2>1, <2>2, NotOverdue
      <3>2. b < time[t]
        BY <1>5, <2>1, <3>1, Distances
      <3> QED BY <1>5, <3>2
    <2>3. CASE w.where[t][1] = 0
      <3>1. w.where[t] # Far
        BY <2>3, Places, TimerAssumption
      <3>2. w.where[t] = <<0, time[t] % PER_LEVEL>>
        BY <1>8, <1>10, <2>3, <3>1
      <3>3. w.where[t] # <<0, i>>
        BY <1>10 DEF Current, On
      <3>4. time[t] # b
        BY <3>2, <3>3
      <3> QED BY <1>5, <2>1, <3>4
    <2> QED BY <2>2, <2>3
  <1>11. \A t \in Timer : w.where[t] # Nowhere => time[t] \in Nat /\ timers.first <= time[t]
    BY <1>5, <1>7
  <1> HIDE DEF b, i
  <1> QED BY <1>1, <1>2, <1>3, <1>4, <1>9, <1>10, <1>11

\* timers_expire returns a timer: it is the earliest, and it is due.
LEMMA OneInv ==
  ASSUME IInv, ExpireOne
  PROVE  /\ IInv' /\ now \in Time
         /\ \E t \in Timer :
              /\ timers.where[t] # Nowhere /\ time[t] <= now
              /\ \A u \in Timer : timers.where[u] # Nowhere => time[t] <= time[u]
              /\ timers'.where[t] = Nowhere /\ Return(now, t)
              /\ \A u \in Timer : u # t =>
                   /\ timers'.where[u] = Nowhere <=> timers.where[u] = Nowhere
                   /\ time'[u] = time[u]
  <1> DEFINE w == FastForward(timers, timers.first)
  <1>1. now # NULL /\ timers.first <= now
    BY DEF ExpireOne, Idle
  <1>2. PICK t \in Current(w) : /\ timers' = [w EXCEPT !.where[t] = Nowhere]
                                /\ time' = [time EXCEPT ![t] = 0]
                                /\ Return(now, t)
    BY DEF ExpireOne
  <1>3. /\ w \in Wheel /\ Ladder(w) /\ Sorted(w) /\ Marked(w) /\ 0 \in w.level
        /\ w.base = timers.first /\ w.first = timers.first
        /\ timers.first \in Time /\ timers.first \in Nat /\ now \in Time /\ now \in Nat
        /\ clock \in Time
        /\ \A u \in Timer : w.where[u] = Nowhere <=> timers.where[u] = Nowhere
        /\ \A u \in Timer : w.where[u] # Nowhere => time[u] \in Nat /\ timers.first <= time[u]
        /\ \A u \in Current(w) : u \in Timer /\ w.where[u] # Nowhere /\ time[u] = timers.first
    BY <1>1, ToFirst
  <1> HIDE DEF w
  <1>4. time \in [Timer -> Time] /\ t \in Timer /\ time[t] = timers.first /\ w.where[t] # Nowhere
    BY <1>3, InvFacts
  <1>5. /\ timers' \in Wheel /\ time' \in [Timer -> Time]
        /\ timers'.base = w.base /\ timers'.first = w.first /\ timers'.level = w.level
        /\ timers'.where = [w.where EXCEPT ![t] = Nowhere]
        /\ Ladder(timers)' /\ Sorted(timers)' /\ Marked(timers)'
    BY <1>2, <1>3, <1>4, TakenOff
  <1>6. /\ now' = NULL /\ clock' \in Time /\ now <= clock'
        /\ ret' \in {"expire"} \X Time \X (Timer \cup {NULL})
    BY <1>2, <1>3, <1>4, ReturnFact
  <1>7. TypeOK'
    BY <1>5, <1>6 DEF TypeOK, Wheel
  <1>8. InTime'
    <2>1. timers.first <= clock'
      BY <1>1, <1>3, <1>6, Sizes
    <2> QED BY <1>3, <1>5, <1>6, <2>1 DEF InTime
  <1>9. w.where \in [Timer -> Place]
    BY <1>3 DEF Wheel
  <1>10. timers'.where[t] = Nowhere /\ \A u \in Timer : u # t =>
           /\ timers'.where[u] = Nowhere <=> timers.where[u] = Nowhere
           /\ time'[u] = time[u]
    BY <1>2, <1>3, <1>4, <1>5, <1>9
  <1>11. \A u \in Timer : timers.where[u] # Nowhere => time[t] <= time[u]
    BY <1>3, <1>4
  <1>12. timers.where[t] # Nowhere /\ time[t] <= now
    BY <1>1, <1>3, <1>4
  <1> QED BY <1>2, <1>3, <1>4, <1>5, <1>7, <1>8, <1>10, <1>11, <1>12 DEF IInv

\* timers_expire looks again after a deleted timer: what it then finds is
\* later, and without timers it returns.
LEMMA RetryInv ==
  ASSUME IInv, ExpireRetry
  PROVE  /\ IInv' /\ now \in Time /\ time' = time
         /\ \A t \in Timer : timers'.where[t] = Nowhere <=> timers.where[t] = Nowhere
         /\ timers.first < timers'.first
         /\ timers'.first = Never =>
              Return(now, NULL) /\ \A t \in Timer : timers.where[t] = Nowhere
         /\ timers'.first # Never => UNCHANGED <<clock, now, ret>>
  <1> DEFINE w == FastForward(timers, timers.first)
  <1>1. /\ now # NULL /\ timers.first <= now /\ Current(w) = {} /\ timers' = UpdateFirst(w)
        /\ time' = time
        /\ IF timers'.first = Never THEN Return(now, NULL) ELSE UNCHANGED <<clock, now, ret>>
    BY DEF ExpireRetry, Idle
  <1>2. /\ w \in Wheel /\ Ladder(w) /\ Sorted(w) /\ Marked(w) /\ 0 \in w.level
        /\ w.base = timers.first /\ w.first = timers.first
        /\ timers.first \in Time /\ timers.first \in Nat /\ now \in Time /\ now \in Nat
        /\ clock \in Time
        /\ \A t \in Timer : w.where[t] = Nowhere <=> timers.where[t] = Nowhere
        /\ \A t \in Timer : w.where[t] # Nowhere => timers.first < time[t]
    BY <1>1, ToFirst
  <1> HIDE DEF w
  <1>3. time \in [Timer -> Time]
    BY InvFacts
  <1>4. /\ timers' \in Wheel /\ timers'.base = w.base /\ timers'.level = w.level
        /\ timers'.where = w.where /\ Marked(timers') /\ Exact(timers')
    BY <1>1, <1>2, <1>3, UpdateFirstFact
  <1>5. Ladder(timers') /\ Sorted(timers')
    BY <1>2, <1>4, RightShape DEF Sorted
  <1>6. Ladder(timers)' /\ Sorted(timers)' /\ Marked(timers)'
    BY <1>1, <1>3, <1>4, <1>5, Kept
  <1>7. timers'.first \in Time \cup {Never} /\ timers'.first \in Nat
    BY <1>4, Sizes DEF Wheel
  <1>8. timers.first < timers'.first
    <2>1. CASE timers'.first = Never
      BY <1>2, <2>1, Sizes DEF Time
    <2>2. CASE timers'.first # Never
      BY <1>2, <1>4, <2>2 DEF Exact
    <2> QED BY <2>1, <2>2
  <1>9. CASE timers'.first = Never
    <2>1. Return(now, NULL)
      BY <1>1, <1>9
    <2>2. /\ now' = NULL /\ clock' \in Time /\ now <= clock'
          /\ ret' \in {"expire"} \X Time \X (Timer \cup {NULL})
      BY <1>2, <2>1, ReturnFact
    <2>3. TypeOK'
      BY <1>1, <1>3, <1>4, <2>2 DEF TypeOK, Wheel
    <2>4. InTime'
      <3>1. timers.first <= clock'
        BY <1>1, <1>2, <2>2, Sizes
      <3> QED BY <1>2, <1>4, <1>7, <1>8, <2>2, <3>1 DEF InTime
    <2>5. ASSUME NEW t \in Timer PROVE timers.where[t] = Nowhere
      <3> SUFFICES ASSUME timers.where[t] # Nowhere PROVE FALSE
        OBVIOUS
      <3>1. Never <= time[t] /\ time[t] \in Time
        BY <1>2, <1>3, <1>4, <1>9 DEF Marked
      <3> QED BY <3>1, Sizes DEF Time
    <2> QED BY <1>1, <1>2, <1>4, <1>6, <1>8, <1>9, <2>1, <2>3, <2>4, <2>5 DEF IInv
  <1>10. CASE timers'.first # Never
    <2>1. UNCHANGED <<clock, now, ret>>
      BY <1>1, <1>10
    <2>2. TypeOK'
      BY <1>1, <1>3, <1>4, <2>1 DEF IInv, TypeOK, Wheel
    <2>3. InTime'
      BY <1>1, <1>2, <1>4, <1>7, <1>8, <2>1 DEF InTime
    <2> QED BY <1>1, <1>2, <1>4, <1>6, <1>8, <1>10, <2>1, <2>2, <2>3 DEF IInv
  <1> QED BY <1>9, <1>10

\* Every step keeps the invariant.
LEMMA StepInv == IInv /\ [Next]_vars => IInv'
  <1> SUFFICES ASSUME IInv, [Next]_vars PROVE IInv'
    OBVIOUS
  <1>1. CASE UNCHANGED vars
    BY <1>1 DEF vars, IInv, TypeOK, Ladder, Top, Sorted, Marked, Right, Beyond, InBucket, InTime
  <1>2. CASE \E t \in Timer, when \in Time : TimerAdd(t, when)
    BY <1>2, AddInv
  <1>3. CASE \E t \in Timer : TimerDel(t)
    BY <1>3, DelInv
  <1>4. CASE \E when \in Time : ExpireCall(when)
    BY <1>4, CallInv
  <1>5. CASE \E when \in Time : ExpireNothing(when)
    BY <1>5, NothingInv
  <1>6. CASE TimerEarliest
    BY <1>6, EarliestInv
  <1>7. CASE ExpireNone
    BY <1>7, NoneInv
  <1>8. CASE ExpireOne
    BY <1>8, OneInv
  <1>9. CASE ExpireRetry
    BY <1>9, RetryInv
  <1> QED BY <1>1, <1>2, <1>3, <1>4, <1>5, <1>6, <1>7, <1>8, <1>9 DEF Next

\* Between any two steps, timers_expire's included, base has passed no timer,
\* each timer is in its bucket, and the cached minima are lower bounds.
THEOREM WheelInductive == Spec => []IInv
  BY InitInv, StepInv, PTL DEF Spec

\* The fields of struct timers and struct timer have their types, and base
\* and first never leave the range of the times that were asked for.
THEOREM WheelTypeOK == Spec => []TypeOK
  <1>1. IInv => TypeOK
    BY DEF IInv
  <1> QED BY <1>1, WheelInductive, PTL

\* timers_check never aborts: after any calls, each timer is in the one
\* bucket that covers its time, and no watermark is later than a timer.
THEOREM WheelTimersCheck == Spec => []TimersCheck
  <1>1. ASSUME IInv PROVE TimersCheck
    <2> DEFINE w == timers
               top == Top(timers)
    <2>1. /\ timers \in Wheel /\ time \in [Timer -> Time]
          /\ Ladder(timers) /\ Sorted(timers) /\ Marked(timers)
          /\ timers.base \in Time /\ timers.base \in Nat /\ timers.level \subseteq Level
          /\ timers.where \in [Timer -> Place] /\ timers.first \in Nat
      BY <1>1, InvFacts
    <2>2. top \in 0 .. Levels /\ w.level = 0 .. top - 1
      BY <2>1 DEF Ladder
    <2>3. timers.firsts \in [0 .. Levels -> Time \cup {Never}]
      BY <2>1 DEF Wheel
    <2> SUFFICES ASSUME NEW t \in Timer
                 PROVE  LET p == w.where[t]
                            l == p[1]
                        IN  /\ p # Nowhere => time[t] >= w.first /\ time[t] >= w.firsts[l]
                            /\ p = Far =>
                                 time[t] >= (w.base \div Span(top)) * Span(top) + Span(top) - 1
                            /\ p \notin {Far, Nowhere} =>
                                 /\ l < top
                                 /\ IF l = 0
                                    THEN /\ time[t] \in w.base .. w.base + PER_LEVEL - 1
                                         /\ time[t] % PER_LEVEL = p[2]
                                    ELSE /\ (time[t] \div Span(l)) - (w.base \div Span(l))
                                              \in 1 .. PER_LEVEL
                                         /\ (time[t] \div Span(l)) % PER_LEVEL = p[2]
      BY DEF TimersCheck
    <2> SUFFICES ASSUME w.where[t] # Nowhere
                 PROVE  /\ time[t] >= w.first /\ time[t] >= w.firsts[w.where[t][1]]
                        /\ w.where[t] = Far =>
                             time[t] >= (w.base \div Span(top)) * Span(top) + Span(top) - 1
                        /\ w.where[t] # Far =>
                             /\ w.where[t][1] < top
                             /\ IF w.where[t][1] = 0
                                THEN /\ time[t] \in w.base .. w.base + PER_LEVEL - 1
                                     /\ time[t] % PER_LEVEL = w.where[t][2]
                                ELSE /\ (time[t] \div Span(w.where[t][1]))
                                          - (w.base \div Span(w.where[t][1])) \in 1 .. PER_LEVEL
                                     /\ (time[t] \div Span(w.where[t][1])) % PER_LEVEL
                                          = w.where[t][2]
      BY Places, Zenon
    <2>4. time[t] \in Nat /\ Right(w, time[t], w.where[t]) /\ w.where[t] \in Place
      BY <2>1, Sizes DEF Sorted
    <2>5. time[t] >= w.first /\ time[t] >= w.firsts[w.where[t][1]]
      <3>1. w.where[t][1] \in 0 .. Levels
        BY <2>4, Places, TimerAssumption DEF Level
      <3>2. w.firsts[w.where[t][1]] \in Nat
        BY <2>3, <3>1, Sizes
      <3>3. w.first <= time[t] /\ w.firsts[w.where[t][1]] <= time[t]
        BY <2>1 DEF Marked
      <3> QED BY <2>1, <2>4, <3>2, <3>3
    <2>6. ASSUME w.where[t] = Far
          PROVE  time[t] >= (w.base \div Span(top)) * Span(top) + Span(top) - 1
      <3>1. Beyond(w, time[t])
        BY <2>4, <2>6 DEF Right
      <3>2. Span(top) \in Nat /\ Span(top) >= 1
        BY <2>2, Spans
      <3>3. CASE top = 0
        <4>1. Span(top) = 1
          BY <3>3, Spans
        <4> QED BY <2>1, <2>4, <3>1, <4>1 DEF Beyond
      <3>4. CASE top # 0
        <4>1. w.base \div Span(top) < time[t] \div Span(top)
          BY <3>1, <3>4 DEF Beyond
        <4>2. \A a, x, s \in Nat : s >= 1 /\ a \div s < x \div s => x >= (a \div s) * s + s
          <5> SUFFICES ASSUME NEW a \in Nat, NEW x \in Nat, NEW s \in Nat, s >= 1,
                              a \div s < x \div s
                       PROVE  x >= (a \div s) * s + s
            OBVIOUS
          <5>1. a \div s \in Nat /\ x \div s \in Nat /\ (x \div s) * s <= x
            OBVIOUS
          <5>2. \A j, k \in Nat : j < k => k * s >= j * s + s
            OBVIOUS
          <5>3. (x \div s) * s >= (a \div s) * s + s
            BY <5>1, <5>2
          <5> QED BY <5>1, <5>3
        <4>3. time[t] >= (w.base \div Span(top)) * Span(top) + Span(top)
          BY <2>1, <2>4, <3>2, <4>1, <4>2
        <4>4. (w.base \div Span(top)) * Span(top) \in Nat
          BY <2>1, <3>2
        <4> QED BY <2>4, <3>2, <4>3, <4>4
      <3> QED BY <3>3, <3>4
    <2>7. ASSUME w.where[t] # Far
          PROVE  /\ w.where[t][1] < top
                 /\ w.where[t][2] = (time[t] \div Span(w.where[t][1])) % PER_LEVEL
                 /\ w.where[t][1] = 0 => time[t] \in w.base .. w.base + PER_LEVEL - 1
                 /\ w.where[t][1] # 0 =>
                      (time[t] \div Span(w.where[t][1]))
                        - (w.base \div Span(w.where[t][1])) \in 1 .. PER_LEVEL
      BY <2>2, <2>4, <2>7 DEF Right, InBucket
    <2>8. w.where[t] # Far /\ w.where[t][1] = 0 => w.where[t][2] = time[t] % PER_LEVEL
      <3>1. time[t] \div 1 = time[t]
        BY <2>4
      <3> QED BY <2>7, <3>1, Spans
    <2> HIDE DEF w, top
    <2> QED BY <2>5, <2>6, <2>7, <2>8
  <1> QED BY <1>1, WheelInductive, PTL

\* The loop of timers_expire ends: every turn that does not return leaves a
\* later time to look at.
THEOREM WheelRetryAdvances == Spec => RetryAdvances
  <1>1. ASSUME IInv, [Next]_vars
        PROVE  [now # NULL /\ now' # NULL => timers'.first > timers.first]_vars
    <2> SUFFICES ASSUME now # NULL, now' # NULL, ~(UNCHANGED vars)
                 PROVE  timers'.first > timers.first
      OBVIOUS
    <2>1. timers.first \in Nat /\ clock \in Time
      BY <1>1, InvFacts DEF IInv, TypeOK
    <2>2. ExpireRetry
      BY <1>1 DEF Next, TimerAdd, TimerDel, ExpireCall, ExpireNothing, TimerEarliest,
                  ExpireNone, ExpireOne, Return, Idle
    <2>3. timers.first < timers'.first /\ IInv'
      BY <1>1, <2>2, RetryInv
    <2>4. timers'.first \in Nat
      <3>1. (timers.first \in Time \cup {Never})'
        BY <2>3 DEF IInv, TypeOK
      <3> QED BY <3>1, Sizes
    <2> QED BY <2>1, <2>3, <2>4
  <1> QED BY <1>1, WheelInductive, PTL DEF Spec, RetryAdvances

-----------------------------------------------------------------------------
(* The wheel implements a set of timers *)

\* When each timer is due, as the abstract specification has it.
Due == [t \in Timer |-> IF timers.where[t] = Nowhere THEN NULL ELSE time[t]]

\* A timer is pending when it is on a list.
LEMMA PendingFact ==
  ASSUME IInv
  PROVE  /\ Abstract!Pending = {t \in Timer : timers.where[t] # Nowhere}
         /\ \A t \in Timer : timers.where[t] # Nowhere => Due[t] = time[t]
         /\ \A t \in Timer : Abstract!First(t) <=>
              /\ timers.where[t] # Nowhere
              /\ \A u \in Timer : timers.where[u] # Nowhere => time[t] <= time[u]
  <1>1. time \in [Timer -> Time] /\ NULL \notin Time
    BY InvFacts, TimeAssumption DEF Time
  <1>2. \A t \in Timer : time[t] # NULL
    BY <1>1
  <1>3. \A t \in Timer : Due[t] # NULL <=> timers.where[t] # Nowhere
    BY <1>2 DEF Due
  <1>4. \A t \in Timer : timers.where[t] # Nowhere => Due[t] = time[t]
    BY DEF Due
  <1>5. Abstract!Pending = {t \in Timer : timers.where[t] # Nowhere}
    BY <1>3 DEF Abstract!Pending, Due
  <1>6. \A t : Abstract!First(t) <=>
          t \in Abstract!Pending /\ \A u \in Abstract!Pending : Due[t] <= Due[u]
    BY DEF Abstract!First, Due
  <1> QED BY <1>4, <1>5, <1>6

\* The abstract timers do not change in a step that moves none on or off a list.
LEMMA DueSame ==
  ASSUME time' = time,
         \A t \in Timer : timers'.where[t] = Nowhere <=> timers.where[t] = Nowhere
  PROVE  Due' = Due
  BY DEF Due

\* The time of one timer is all that changes.
LEMMA DueUpdate ==
  ASSUME NEW t \in Timer, NEW d,
         IF timers'.where[t] = Nowhere THEN d = NULL ELSE d = time'[t],
         \A u \in Timer : u # t =>
           /\ timers'.where[u] = Nowhere <=> timers.where[u] = Nowhere
           /\ time'[u] = time[u]
  PROVE  Due' = [Due EXCEPT ![t] = d]
  <1>1. Due'[t] = d
    BY DEF Due
  <1>2. \A u \in Timer : u # t => Due'[u] = Due[u]
    BY DEF Due
  <1>3. Due' = [u \in Timer |-> Due'[u]]
    BY DEF Due
  <1>4. [Due EXCEPT ![t] = d] = [u \in Timer |-> IF u = t THEN d ELSE Due[u]]
    BY DEF Due
  <1> HIDE DEF Due
  <1> QED BY <1>1, <1>2, <1>3, <1>4

\* timer_addmono adds the timer; a time in the past becomes base, which is
\* not after the time that timers_expire was last given.
LEMMA AddImplements ==
  ASSUME IInv, NEW t \in Timer, NEW when \in Time, TimerAdd(t, when)
  PROVE  Abstract!Add(t, when)
  <1> DEFINE x == NotBefore(when)
  <1>1. /\ timers \in Wheel /\ time \in [Timer -> Time] /\ timers.base \in Nat
        /\ timers.where \in [Timer -> Place] /\ Ladder(timers) /\ timers.base \in Time
        /\ timers.level \subseteq Level
    BY InvFacts
  <1>2. /\ time' = [time EXCEPT ![t] = x] /\ time'[t] = x
        /\ timers' = AddRaw([timers EXCEPT !.first = Min({@, x})], time', t)
        /\ ret' = Void /\ clock' = clock /\ now = NULL /\ timers.where[t] = Nowhere
    BY <1>1 DEF TimerAdd, Idle
  <1>3. timers.base <= clock /\ clock \in Nat /\ when \in Nat
    BY <1>2, Sizes DEF IInv, InTime, TypeOK
  <1>4. x \in {when} \cup (when .. clock) /\ x \in Time /\ timers.base <= x
    BY <1>1, <1>3 DEF NotBefore
  <1> HIDE DEF x
  <1> DEFINE v == [timers EXCEPT !.first = Min({@, x})]
             p == PlaceOf(v, x)
  <1>5. v.base = timers.base /\ v.level = timers.level /\ v.where = timers.where
    BY <1>1 DEF Wheel
  <1>6. p # Nowhere
    <2>1. Ladder(v)
      BY <1>1, <1>5, RightShape
    <2> HIDE DEF v
    <2> QED BY <1>1, <1>4, <1>5, <2>1, PlaceOfFact
  <1>7. timers'.where = [timers.where EXCEPT ![t] = p]
    <2>1. timers' = [v EXCEPT !.where[t] = p, !.firsts[p[1]] = Min({@, x})]
      BY <1>2 DEF AddRaw
    <2>2. v = [base |-> timers.base, first |-> v.first, firsts |-> timers.firsts,
               level |-> timers.level, where |-> timers.where]
      BY <1>1 DEF Wheel
    <2> HIDE DEF v, p
    <2> QED BY <2>1, <2>2
  <1> HIDE DEF v, p
  <1>8. timers'.where[t] # Nowhere /\ \A u \in Timer : u # t => timers'.where[u] = timers.where[u]
    BY <1>1, <1>6, <1>7
  <1>9. \A u \in Timer : u # t => time'[u] = time[u]
    BY <1>1, <1>2
  <1>10. Due' = [Due EXCEPT ![t] = x]
    <2>1. IF timers'.where[t] = Nowhere THEN x = NULL ELSE x = time'[t]
      BY <1>2, <1>8
    <2>2. \A u \in Timer : u # t =>
            /\ timers'.where[u] = Nowhere <=> timers.where[u] = Nowhere
            /\ time'[u] = time[u]
      BY <1>8, <1>9
    <2> QED BY ONLY <2>1, <2>2, DueUpdate
  <1>11. t \notin Abstract!Pending
    BY <1>2, PendingFact
  <1>12. \E d \in {when} \cup (when .. clock) : Due' = [Due EXCEPT ![t] = d]
    BY <1>4, <1>10
  <1> QED BY <1>2, <1>11, <1>12 DEF Abstract!Add, Due, Void, Abstract!Void

\* timer_del takes it off.
LEMMA DelImplements ==
  ASSUME IInv, NEW t \in Timer, TimerDel(t)
  PROVE  Abstract!Del(t)
  <1>1. timers \in Wheel /\ time \in [Timer -> Time] /\ timers.where \in [Timer -> Place]
    BY InvFacts
  <1>2. /\ timers' = [timers EXCEPT !.where[t] = Nowhere] /\ time' = [time EXCEPT ![t] = 0]
        /\ ret' = Void /\ clock' = clock /\ timers.where[t] # Nowhere
    BY DEF TimerDel
  <1>3. timers'.where = [timers.where EXCEPT ![t] = Nowhere]
    BY <1>1, <1>2 DEF Wheel
  <1>4. timers'.where[t] = Nowhere /\ \A u \in Timer : u # t => timers'.where[u] = timers.where[u]
    BY <1>1, <1>3
  <1>5. \A u \in Timer : u # t => time'[u] = time[u]
    BY <1>1, <1>2
  <1>6. Due' = [Due EXCEPT ![t] = NULL]
    BY <1>4, <1>5, DueUpdate
  <1>7. t \in Abstract!Pending
    BY <1>2, PendingFact
  <1> QED BY <1>2, <1>6, <1>7 DEF Abstract!Del, Due, Void, Abstract!Void

\* timer_earliest returns the least time.
LEMMA EarliestImplements ==
  ASSUME IInv, TimerEarliest
  PROVE  Abstract!Earliest
  <1>1. Exact(timers') /\ timers'.where = timers.where /\ Marked(timers') /\ IInv'
    BY EarliestInv
  <1>2. /\ ret' = <<"earliest", NULL, IF timers'.first = Never THEN NULL ELSE timers'.first>>
        /\ time' = time /\ clock' = clock
    BY DEF TimerEarliest
  <1>3. Due' = Due
    BY <1>1, <1>2, DueSame
  <1>4. time \in [Timer -> Time]
    BY InvFacts
  <1>5. CASE timers'.first = Never
    <2>1. ASSUME NEW t \in Timer PROVE timers.where[t] = Nowhere
      <3> SUFFICES ASSUME timers.where[t] # Nowhere PROVE FALSE
        OBVIOUS
      <3>1. Never <= time[t] /\ time[t] \in Time
        BY <1>1, <1>4, <1>5 DEF Marked
      <3> QED BY <3>1, Sizes DEF Time
    <2>2. Abstract!Pending = {}
      BY <2>1, PendingFact
    <2>3. ret' = <<"earliest", NULL, NULL>>
      BY <1>2, <1>5
    <2> QED BY <1>2, <1>3, <2>2, <2>3 DEF Abstract!Earliest, Due
  <1>6. CASE timers'.first # Never
    <2>1. PICK t \in Timer : timers.where[t] # Nowhere /\ time[t] = timers'.first
      BY <1>1, <1>6 DEF Exact
    <2>2. Abstract!First(t)
      BY <1>1, <2>1, PendingFact DEF Marked
    <2>3. ret' = <<"earliest", NULL, Due[t]>>
      BY <1>2, <1>6, <2>1, PendingFact
    <2>4. \E u \in Timer : Abstract!First(u) /\ ret' = <<"earliest", NULL, Due[u]>>
      BY <2>2, <2>3
    <2> QED BY <1>2, <1>3, <2>4 DEF Abstract!Earliest, Due
  <1> QED BY <1>5, <1>6

\* NULL from timers_expire means that nothing was due.
LEMMA NullImplements ==
  ASSUME IInv, NEW when \in Time, Return(when, NULL), time' = time,
         \A t \in Timer : timers'.where[t] = Nowhere <=> timers.where[t] = Nowhere,
         \A t \in Timer : timers.where[t] # Nowhere => when < time[t]
  PROVE  Abstract!ExpireNone(when)
  <1>1. Due' = Due
    BY DueSame
  <1>2. clock \in Time
    BY DEF IInv, TypeOK
  <1>3. ret' = <<"expire", when, NULL>> /\ clock' = (IF clock < when THEN when ELSE clock)
    BY <1>2, ReturnFact
  <1>4. \A t \in Abstract!Pending : Due[t] > when
    <2> SUFFICES ASSUME NEW t \in Abstract!Pending PROVE Due[t] > when
      OBVIOUS
    <2>1. t \in Timer /\ Due[t] = time[t] /\ when < time[t]
      BY PendingFact
    <2>2. time[t] \in Nat /\ when \in Nat
      BY <2>1, InvFacts, Sizes
    <2> QED BY <2>1, <2>2
  <1> QED BY <1>1, <1>3, <1>4 DEF Abstract!ExpireNone, Abstract!Later, Due

\* A timer from timers_expire is due, and none is earlier.
LEMMA OneImplements ==
  ASSUME IInv, ExpireOne, NEW n \in Time, n = now
  PROVE  Abstract!Expire(n)
  <1>1. PICK t \in Timer :
          /\ timers.where[t] # Nowhere /\ time[t] <= now
          /\ \A u \in Timer : timers.where[u] # Nowhere => time[t] <= time[u]
          /\ timers'.where[t] = Nowhere /\ Return(now, t)
          /\ \A u \in Timer : u # t =>
               /\ timers'.where[u] = Nowhere <=> timers.where[u] = Nowhere
               /\ time'[u] = time[u]
    BY OneInv
  <1>2. now \in Time /\ clock \in Time
    BY OneInv DEF IInv, TypeOK
  <1>3. Abstract!First(t) /\ Due[t] <= now
    BY <1>1, PendingFact
  <1>4. Due' = [Due EXCEPT ![t] = NULL]
    BY <1>1, DueUpdate
  <1>5. ret' = <<"expire", now, t>> /\ clock' = (IF clock < now THEN now ELSE clock)
    BY <1>1, <1>2, ReturnFact
  <1>6. \E u \in Timer : /\ Abstract!First(u) /\ Due[u] <= now
                         /\ Due' = [Due EXCEPT ![u] = NULL]
                         /\ ret' = <<"expire", now, u>>
    BY <1>3, <1>4, <1>5
  <1> QED BY <1>2, <1>5, <1>6 DEF Abstract!Expire, Abstract!Later, Due

\* The wheel is a set of timers: timer_earliest returns the least time, and
\* timers_expire returns the due timers, the earliest first, and NULL only if
\* none is due.
THEOREM WheelImplementsTimerSet == Spec => ImplementsTimerSet
  <1>1. Init => Abstract!Init
    <2> SUFFICES ASSUME Init PROVE Abstract!Init
      OBVIOUS
    <2>1. \A t \in Timer : timers.where[t] = Nowhere
      BY DEF Init
    <2>2. Due = [t \in Timer |-> NULL]
      BY <2>1 DEF Due
    <2>3. clock \in Time /\ ret = Void
      BY DEF Init
    <2> QED BY <2>2, <2>3 DEF Abstract!Init, Abstract!Time, Time, Due, Void, Abstract!Void
  <1>2. IInv /\ [Next]_vars => [Abstract!Next]_(Abstract!vars)
    <2> SUFFICES ASSUME IInv, [Next]_vars PROVE [Abstract!Next]_(Abstract!vars)
      OBVIOUS
    <2>1. Abstract!Time = Time
      BY DEF Abstract!Time, Time
    <2>2. CASE UNCHANGED vars
      <3>1. Due' = Due
        BY <2>2, DueSame DEF vars
      <3> QED BY <2>2, <3>1 DEF vars, Abstract!vars, Due
    <2>3. CASE \E t \in Timer, when \in Time : TimerAdd(t, when)
      BY <2>1, <2>3, AddImplements DEF Abstract!Next
    <2>4. CASE \E t \in Timer : TimerDel(t)
      BY <2>4, DelImplements DEF Abstract!Next
    <2>5. CASE \E when \in Time : ExpireCall(when)
      <3>1. PICK when \in Time : ExpireCall(when)
        BY <2>5
      <3>2. \A t \in Timer : timers'.where[t] = Nowhere <=> timers.where[t] = Nowhere
        BY <3>1, CallInv
      <3>3. time' = time /\ clock' = clock /\ ret' = ret
        BY <3>1 DEF ExpireCall
      <3>4. Due' = Due
        BY <3>2, <3>3, DueSame
      <3> QED BY <3>3, <3>4 DEF Abstract!vars, Due
    <2>6. CASE \E when \in Time : ExpireNothing(when)
      <3>1. PICK when \in Time : ExpireNothing(when)
        BY <2>6
      <3>2. timers' = timers /\ time' = time /\ Return(when, NULL)
        BY <3>1 DEF ExpireNothing
      <3>3. \A t \in Timer : timers.where[t] # Nowhere => when < time[t]
        BY <3>1, NothingInv
      <3>4. Abstract!ExpireNone(when)
        BY <3>2, <3>3, NullImplements
      <3> QED BY <2>1, <3>4 DEF Abstract!Next
    <2>7. CASE TimerEarliest
      BY <2>7, EarliestImplements DEF Abstract!Next
    <2>8. CASE ExpireNone
      <3>1. /\ now \in Time
            /\ \A t \in Timer : timers'.where[t] = Nowhere <=> timers.where[t] = Nowhere
            /\ \A t \in Timer : timers.where[t] # Nowhere => now < time[t]
        BY <2>8, NoneInv
      <3>2. time' = time /\ Return(now, NULL)
        BY <2>8 DEF ExpireNone
      <3>3. Abstract!ExpireNone(now)
        BY <3>1, <3>2, NullImplements
      <3> QED BY <2>1, <3>1, <3>3 DEF Abstract!Next
    <2>9. CASE ExpireOne
      <3>1. PICK n \in Time : n = now
        BY <2>9, OneInv
      <3>2. Abstract!Expire(n)
        BY <2>9, <3>1, OneImplements
      <3> QED BY <2>1, <3>2 DEF Abstract!Next
    <2>10. CASE ExpireRetry
      <3>1. /\ now \in Time /\ time' = time
            /\ \A t \in Timer : timers'.where[t] = Nowhere <=> timers.where[t] = Nowhere
            /\ timers'.first = Never =>
                 Return(now, NULL) /\ \A t \in Timer : timers.where[t] = Nowhere
            /\ timers'.first # Never => UNCHANGED <<clock, now, ret>>
        BY <2>10, RetryInv
      <3>2. CASE timers'.first = Never
        <4>1. Abstract!ExpireNone(now)
          BY <3>1, <3>2, NullImplements
        <4> QED BY <2>1, <3>1, <4>1 DEF Abstract!Next
      <3>3. CASE timers'.first # Never
        <4>1. Due' = Due
          BY <3>1, DueSame
        <4> QED BY <3>1, <3>3, <4>1 DEF Abstract!vars, Due
      <3> QED BY <3>2, <3>3
    <2> QED BY <2>2, <2>3, <2>4, <2>5, <2>6, <2>7, <2>8, <2>9, <2>10 DEF Next
  <1> QED BY <1>1, <1>2, WheelInductive, PTL DEF Spec, ImplementsTimerSet, Abstract!Spec
=============================================================================
