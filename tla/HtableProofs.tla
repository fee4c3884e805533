---------------------------- MODULE HtableProofs ----------------------------
(***************************************************************************)
(* Proofs about Htable, for words of any width, any pointers and hashes    *)
(* and tables of any size.                                                 *)
(***************************************************************************)
EXTENDS HtableInv, NumProofs, FiniteSetTheorems

-----------------------------------------------------------------------------
(* Sizes and places *)

\* The shifts are powers of two.
LEMMA Pow2Fact ==
  /\ Pow2[0] = 1
  /\ \A n \in 1 .. MaxBits : Pow2[n] = 2 * Pow2[n - 1]
  /\ \A n \in 0 .. MaxBits : Pow2[n] \in Nat /\ Pow2[n] >= 1
  <1>1. MaxBits \in Nat
    BY HtableAssumption
  <1> DEFINE step == [n \in 1 .. MaxBits |-> [v \in Nat |-> 2 * v]]
  <1>2. PICK g : Unfolds(g, Nat, 1, step, MaxBits)
    <2>1. step \in [1 .. MaxBits -> [Nat -> Nat]]
      OBVIOUS
    <2> HIDE DEF step
    <2> QED BY <1>1, <2>1, Recursion
  <1>3. g \in [0 .. MaxBits -> Nat] /\ g[0] = 1 /\ \A n \in 1 .. MaxBits : g[n] = 2 * g[n - 1]
    <2> HIDE DEF step
    <2>1. g \in [0 .. MaxBits -> Nat] /\ g[0] = 1
      BY <1>2 DEF Unfolds
    <2>2. ASSUME NEW n \in 1 .. MaxBits PROVE g[n] = 2 * g[n - 1]
      <3>1. g[n] = step[n][g[n - 1]]
        BY <1>2 DEF Unfolds
      <3>2. g[n - 1] \in Nat
        BY <1>1, <2>1
      <3> QED BY <3>1, <3>2 DEF step
    <2> QED BY <2>1, <2>2
  <1>4. g = [n \in 0 .. MaxBits |-> IF n = 0 THEN 1 ELSE 2 * g[n - 1]]
    BY <1>1, <1>3
  <1>5. Pow2 = [n \in 0 .. MaxBits |-> IF n = 0 THEN 1 ELSE 2 * Pow2[n - 1]]
    BY <1>4 DEF Pow2
  <1>6. Pow2[0] = 1 /\ \A n \in 1 .. MaxBits : Pow2[n] = 2 * Pow2[n - 1]
    BY <1>1, <1>5
  <1> DEFINE S == {n \in 0 .. MaxBits : Pow2[n] \in Nat /\ Pow2[n] >= 1}
  <1>7. 0 \in S
    BY <1>1, <1>6
  <1>8. ASSUME NEW n \in 0 .. MaxBits - 1, n \in S PROVE n + 1 \in S
    <2>1. n + 1 \in 1 .. MaxBits /\ (n + 1) - 1 = n
      BY <1>1
    <2>2. Pow2[n + 1] = 2 * Pow2[n]
      BY <1>6, <2>1
    <2> QED BY <1>8, <2>1, <2>2
  <1>9. \A n \in 0 .. MaxBits : n \in S
    <2> HIDE DEF S
    <2> QED BY <1>1, <1>7, <1>8, InductionTo
  <1> QED BY <1>6, <1>9

\* The lowest n bits are a number below 1 << n.
LEMMA LowFact ==
  ASSUME NEW v, NEW n \in 0 .. MaxBits
  PROVE  Low(v, n) \in 0 .. Pow2[n] - 1
  <1> DEFINE add(b) == IF b - 1 \in v THEN Pow2[b - 1] ELSE 0
             D == [b \in 0 .. n |-> 0 .. Pow2[b] - 1]
             step == [b \in 1 .. n |-> [x \in Nat |-> x + add(b)]]
             num == CHOOSE f : f = [b \in 0 .. n |-> IF b = 0 THEN 0 ELSE f[b - 1] + add(b)]
  <1>1. MaxBits \in Nat /\ n \in Nat
    BY HtableAssumption
  <1>2. \A b \in 0 .. n : Pow2[b] \in Nat /\ Pow2[b] >= 1
    BY <1>1, Pow2Fact
  <1>3. ASSUME NEW b \in 1 .. n, NEW x \in 0 .. Pow2[b - 1] - 1
        PROVE  /\ add(b) \in Nat
               /\ x + add(b) \in 0 .. Pow2[b] - 1
    <2>1. Pow2[b] = 2 * Pow2[b - 1]
      BY <1>1, Pow2Fact
    <2>2. Pow2[b - 1] \in Nat
      BY <1>1, <1>2
    <2>3. add(b) = 0 \/ add(b) = Pow2[b - 1]
      OBVIOUS
    <2> HIDE DEF add
    <2> QED BY <2>1, <2>2, <2>3
  <1> HIDE DEF add
  <1>4. PICK g : Loops(g, Nat, D, 0, step, n)
    <2>1. D \in [0 .. n -> SUBSET Nat] /\ 0 \in D[0]
      BY <1>1, <1>2
    <2>2. ASSUME NEW b \in 1 .. n, NEW x \in D[b - 1] PROVE step[b][x] \in D[b]
      <3>1. b \in 0 .. n /\ b - 1 \in 0 .. n
        BY <1>1
      <3>2. x \in 0 .. Pow2[b - 1] - 1 /\ x \in Nat
        BY <1>2, <3>1
      <3>3. step[b][x] = x + add(b)
        BY <3>2
      <3> QED BY <1>3, <3>1, <3>2, <3>3
    <2> HIDE DEF D, step
    <2>3. Turns(D, step, n)
      BY <2>2 DEF Turns
    <2> HIDE DEF D, step
    <2> QED BY <1>1, <2>1, <2>3, Iteration
  <1>4a. /\ g \in [0 .. n -> Nat] /\ g[0] = 0
         /\ \A b \in 1 .. n : g[b] = step[b][g[b - 1]]
         /\ \A b \in 0 .. n : g[b] \in D[b]
    <2> HIDE DEF D, step
    <2> QED BY <1>4 DEF Loops
  <1>5. g = [b \in 0 .. n |-> IF b = 0 THEN 0 ELSE g[b - 1] + add(b)]
    <2>1. ASSUME NEW b \in 1 .. n PROVE g[b] = g[b - 1] + add(b)
      <3>1. b - 1 \in 0 .. n /\ g[b - 1] \in Nat
        BY <1>1, <1>4a
      <3> QED BY <1>4a, <3>1
    <2> HIDE DEF step, D
    <2> QED BY <1>1, <1>4a, <2>1
  <1>6. num = [b \in 0 .. n |-> IF b = 0 THEN 0 ELSE num[b - 1] + add(b)]
    <2> HIDE DEF step, D
    <2> QED BY <1>5
  <1>7. Low(v, n) = num[n]
    BY DEF Low, add
  <1> HIDE DEF num, step
  <1> DEFINE S == {b \in 0 .. n : num[b] = g[b]}
  <1>8. 0 \in S
    BY <1>1, <1>4a, <1>6
  <1>9. ASSUME NEW b \in 0 .. n - 1, b \in S PROVE b + 1 \in S
    <2>1. b + 1 \in 0 .. n /\ b + 1 # 0 /\ (b + 1) - 1 = b
      BY <1>1
    <2>2. num[b + 1] = num[b] + add(b + 1)
      BY <1>6, <2>1
    <2>3. g[b + 1] = g[b] + add(b + 1)
      BY <1>5, <2>1
    <2> QED BY <1>9, <2>1, <2>2, <2>3
  <1>10. \A b \in 0 .. n : b \in S
    <2> HIDE DEF S
    <2> QED BY <1>1, <1>8, <1>9, InductionTo
  <1>11. num[n] = g[n] /\ g[n] \in D[n]
    <2>1. n \in 0 .. n
      BY <1>1
    <2>2. n \in S
      BY <1>10, <2>1
    <2>3. num[n] = g[n]
      BY <2>2
    <2>4. g[n] \in D[n]
      <3> HIDE DEF D, S
      <3> QED BY ONLY <1>4a, <2>1
    <2> QED BY <2>3, <2>4
  <1>12. D[n] = 0 .. Pow2[n] - 1
    BY <1>1
  <1> QED BY <1>7, <1>11, <1>12

\* The remainder of less than twice the divisor.
LEMMA ModOnce ==
  ASSUME NEW S \in Nat, NEW a \in 0 .. 2 * S - 1, S >= 1
  PROVE  (a % S) = IF a < S THEN a ELSE a - S
  <1>1. /\ (a % S) \in 0 .. S - 1
        /\ a = S * (a \div S) + (a % S)
        /\ (a \div S) \in Int
    OBVIOUS
  <1> DEFINE q == a \div S
             r == a % S
  <1>2. q \in Int /\ r \in 0 .. S - 1 /\ a = S * q + r
    BY <1>1
  <1> HIDE DEF q, r
  <1>3. CASE q <= -1
    <2>1. S * q <= S * (-1)
      BY <1>2, <1>3
    <2> QED BY <1>2, <2>1
  <1>4. CASE q >= 2
    <2>1. S * q >= S * 2
      BY <1>2, <1>4
    <2> QED BY <1>2, <2>1
  <1>5. CASE q = 0
    BY <1>2, <1>5 DEF r
  <1>6. CASE q = 1
    BY <1>2, <1>6 DEF r
  <1> QED BY <1>2, <1>3, <1>4, <1>5, <1>6

\* The size of a table.
LEMMA Sizes ==
  ASSUME NEW t, Words(t)
  PROVE  /\ Size(t) \in Nat /\ Size(t) >= 1
         /\ Buckets(t) = 0 .. Size(t) - 1 /\ Buckets(t) \subseteq Nat
         /\ DOMAIN t.table = Buckets(t)
  BY Pow2Fact DEF Words, Size, Buckets

\* The bucket k places after that of h.
LEMMA ProbeFact ==
  ASSUME NEW t, Words(t), NEW h, NEW k \in Buckets(t)
  PROVE  /\ HashBucket(t, h) \in Buckets(t) /\ Probe(t, h, k) \in Buckets(t)
         /\ Probe(t, h, k) = IF HashBucket(t, h) + k < Size(t) THEN HashBucket(t, h) + k
                             ELSE HashBucket(t, h) + k - Size(t)
         /\ ((HashBucket(t, h) + k) % Size(t)) = Probe(t, h, k)
  <1>1. HashBucket(t, h) \in Buckets(t)
    BY LowFact DEF HashBucket, Buckets, Size, Words
  <1> DEFINE S == Size(t)
             a == HashBucket(t, h)
  <1>2. S \in Nat /\ S >= 1 /\ a \in 0 .. S - 1 /\ k \in 0 .. S - 1
    BY <1>1, Sizes
  <1>3. Probe(t, h, k) = (a + k) % S
    BY DEF Probe
  <1> HIDE DEF a, S
  <1>4. a + k \in 0 .. 2 * S - 1
    BY <1>2
  <1>5. ((a + k) % S) = IF a + k < S THEN a + k ELSE a + k - S
    <2> DEFINE s == a + k
    <2>1. s \in 0 .. 2 * S - 1
      BY <1>4
    <2> HIDE DEF s
    <2>2. (s % S) = IF s < S THEN s ELSE s - S
      BY <1>2, <2>1, ModOnce
    <2> QED BY <1>2, <2>2 DEF s
  <1>6. Probe(t, h, k) \in 0 .. S - 1
    BY <1>2, <1>3, <1>5
  <1>7. Buckets(t) = 0 .. S - 1
    BY Sizes DEF S
  <1>8. Probe(t, h, k) = IF a + k < S THEN a + k ELSE a + k - S
    BY <1>3, <1>5
  <1> QED BY <1>1, <1>3, <1>6, <1>7, <1>8 DEF a, S

\* The buckets after that of h are all buckets, each once.
LEMMA ProbeOnto ==
  ASSUME NEW t, Words(t), NEW h
  PROVE  /\ \A i \in Buckets(t) : \E k \in Buckets(t) : Probe(t, h, k) = i
         /\ \A j, k \in Buckets(t) : Probe(t, h, j) = Probe(t, h, k) => j = k
  <1> DEFINE S == Size(t)
             a == HashBucket(t, h)
  <1>1. S \in Nat /\ S >= 1 /\ Buckets(t) = 0 .. S - 1
    BY Sizes
  <1>2. 0 \in Buckets(t)
    BY <1>1
  <1>3. a \in 0 .. S - 1
    BY <1>1, <1>2, ProbeFact
  <1>4. \A k \in 0 .. S - 1 : Probe(t, h, k) = IF a + k < S THEN a + k ELSE a + k - S
    BY <1>1, ProbeFact
  <1> HIDE DEF a, S
  <1>5. ASSUME NEW i \in 0 .. S - 1 PROVE \E k \in 0 .. S - 1 : Probe(t, h, k) = i
    <2>1. CASE i >= a
      <3>1. i - a \in 0 .. S - 1 /\ Probe(t, h, i - a) = i
        BY <1>1, <1>3, <1>4, <2>1
      <3> QED BY <3>1
    <2>2. CASE i < a
      <3>1. i - a + S \in 0 .. S - 1 /\ Probe(t, h, i - a + S) = i
        BY <1>1, <1>3, <1>4, <2>2
      <3> QED BY <3>1
    <2> QED BY <1>1, <1>3, <2>1, <2>2
  <1>6. ASSUME NEW j \in 0 .. S - 1, NEW k \in 0 .. S - 1, Probe(t, h, j) = Probe(t, h, k)
        PROVE  j = k
    BY <1>1, <1>3, <1>4, <1>6
  <1> QED BY <1>1, <1>5, <1>6

\* The least of a set of numbers.
LEMMA MinIn ==
  ASSUME NEW T, T \subseteq Nat, T # {}
  PROVE  Min(T) \in T /\ \A y \in T : Min(T) <= y
  BY LeastNumber DEF Min

\* The greatest bit of a word.
LEMMA MaxIn ==
  ASSUME NEW T, T \subseteq Bit, T # {}
  PROVE  Max(T) \in T
  <1>1. W - 1 \in Nat /\ Bit = 0 .. W - 1
    BY HtableAssumption DEF Bit
  <1>2. \E x \in T : \A y \in T : y <= x
    BY <1>1, GreatestNumber
  <1>3. \E x \in T : \A y \in T : x >= y
    BY <1>1, <1>2
  <1> QED BY <1>3 DEF Max

-----------------------------------------------------------------------------
(* Words *)

\* A word is valid if it has a bit other than the lowest.
LEMMA ValidBit ==
  ASSUME NEW e \in Word
  PROVE  Valid(e) <=> \E b \in e : b # 0
  BY DEF Valid, Empty, Deleted

\* What is decoded has the common bits, and what is encoded is decoded.
LEMMA Decode ==
  ASSUME NEW t, Words(t)
  PROVE  /\ \A e \in Word : /\ Raw(t, e) \in Word /\ Raw(t, e) \cap t.mask = t.common
                            /\ Extra(t, e) \subseteq t.mask
                            /\ e = HVal(t, Raw(t, e), Extra(t, e))
         /\ \A p \in Word : \A x \in SUBSET t.mask :
              /\ HVal(t, p, x) \in Word /\ Extra(t, HVal(t, p, x)) = x
              /\ p \cap t.mask = t.common => Raw(t, HVal(t, p, x)) = p
  <1>1. t.mask \subseteq Bit /\ t.common \subseteq t.mask
    BY DEF Words, Word
  <1>2. ASSUME NEW e \in Word
        PROVE  /\ Raw(t, e) \in Word /\ Raw(t, e) \cap t.mask = t.common
               /\ Extra(t, e) \subseteq t.mask
               /\ e = HVal(t, Raw(t, e), Extra(t, e))
    BY <1>1 DEF Raw, Extra, HVal, Word
  <1>3. ASSUME NEW p \in Word, NEW x \in SUBSET t.mask
        PROVE  /\ HVal(t, p, x) \in Word /\ Extra(t, HVal(t, p, x)) = x
               /\ p \cap t.mask = t.common => Raw(t, HVal(t, p, x)) = p
    BY <1>1 DEF Raw, Extra, HVal, Word
  <1> QED BY <1>2, <1>3

\* The bits of the hash are among those that were taken out.
LEMMA MarkMask ==
  ASSUME NEW t, Words(t), NEW h, NEW k
  PROVE  Mark(t, h, k) \subseteq t.mask
  BY DEF Words, Mark, HashBits

\* u is t after the bits d were given back.
GivesBack(t, u, d) ==
  /\ u.bits = t.bits /\ u.mask = t.mask \ d /\ u.common = t.common \ d
  /\ PerfectMask(u) = PerfectMask(t) \ d

\* A bucket that is fixed up has the same pointer, and fewer bits of the hash.
LEMMA FixUpFact ==
  ASSUME NEW t, Words(t), NEW d, d \subseteq t.mask, NEW e \in Word
  PROVE  /\ FixUp(t, d, e) \in Word
         /\ Raw(t, FixUp(t, d, e)) = Raw(t, e)
         /\ \A u : GivesBack(t, u, d) => /\ Raw(u, FixUp(t, d, e)) = Raw(t, e)
                                         /\ Extra(u, FixUp(t, d, e)) = Extra(t, e) \ d
                                         /\ \A h, k : Mark(u, h, k) = Mark(t, h, k) \ d
  <1>1. t.mask \subseteq Bit /\ t.common \subseteq t.mask
    BY DEF Words, Word
  <1>2. FixUp(t, d, e) \in Word /\ Raw(t, FixUp(t, d, e)) = Raw(t, e)
    BY <1>1 DEF FixUp, Raw, Word
  <1>3. ASSUME NEW u, GivesBack(t, u, d)
        PROVE  /\ Raw(u, FixUp(t, d, e)) = Raw(t, e)
               /\ Extra(u, FixUp(t, d, e)) = Extra(t, e) \ d
    BY <1>1, <1>3 DEF FixUp, Raw, Extra, GivesBack
  <1>4. ASSUME NEW u, GivesBack(t, u, d), NEW h, NEW k
        PROVE  Mark(u, h, k) = Mark(t, h, k) \ d
    <2> DEFINE x == Xor(h, Shr(h, t.bits))
    <2>1. HashBits(u, h) = (x \cap (t.mask \ d)) \ (PerfectMask(t) \ d)
      BY <1>4 DEF GivesBack, HashBits
    <2>2. HashBits(t, h) = (x \cap t.mask) \ PerfectMask(t)
      BY DEF HashBits
    <2> HIDE DEF x
    <2>3. PerfectMask(u) = PerfectMask(t) \ d
      BY <1>4 DEF GivesBack
    <2> QED BY <2>1, <2>2, <2>3 DEF Mark
  <1> QED BY <1>2, <1>3, <1>4

-----------------------------------------------------------------------------
(* fixup_table_common *)

\* The pointers in the table were added.
Known(t) == \A i \in Used(t) : Raw(t, t.table[i]) \in Ptr

Lost(t, d) == {i \in Used(t) : ~Valid(FixUp(t, d, t.table[i]))}

\* A pointer whose bucket would look invalid has another bit to be exposed.
LEMMA AnotherBitFact ==
  ASSUME NEW t, Words(t), NEW d, d \subseteq t.mask, NEW p \in Ptr, p \cap t.mask = t.common,
         \A b \in p : b \in t.mask \ d \/ b = 0
  PROVE  /\ AnotherBit(t, d, p) \in t.mask \ d
         /\ AnotherBit(t, d, p) \in p /\ AnotherBit(t, d, p) # 0
  <1> DEFINE T == (p \cap (t.mask \ d)) \ {0}
  <1>1. p \in Word /\ Valid(p)
    BY HtableAssumption
  <1>2. PICK b \in p : b # 0
    BY <1>1, ValidBit
  <1>3. T \subseteq Bit /\ b \in T
    BY <1>2 DEF Words, Word
  <1>4. Max(T) \in T
    <2> HIDE DEF T
    <2> QED BY <1>3, MaxIn
  <1> QED BY <1>4 DEF AnotherBit

\* A turn of fixup_table_common exposes one more bit, or is the last.
LEMMA ExposeFact ==
  ASSUME NEW t, Words(t), Known(t), NEW d, d \subseteq t.mask
  PROVE  /\ Lost(t, d) = {} => Expose(t, d) = d
         /\ Lost(t, d) # {} => \E b \in t.mask \ d : Expose(t, d) = d \cup {b}
  <1>1. CASE Lost(t, d) = {}
    BY <1>1 DEF Expose, Lost
  <1>2. CASE Lost(t, d) # {}
    <2> DEFINE i == Min(Lost(t, d))
               e == t.table[i]
               p == Raw(t, FixUp(t, d, e))
    <2>1. Lost(t, d) \subseteq Nat
      BY Sizes DEF Lost, Used
    <2>2. i \in Lost(t, d)
      BY <1>2, <2>1, MinIn
    <2>3. i \in Used(t) /\ i \in Buckets(t) /\ ~Valid(FixUp(t, d, e))
      BY <2>2 DEF Lost, Used
    <2>4. Expose(t, d) = d \cup {AnotherBit(t, d, p)}
      BY <1>2 DEF Expose, Lost
    <2> HIDE DEF i
    <2>5. e \in Word
      BY <2>3 DEF Words
    <2>6. Raw(t, e) \in Ptr
      BY <2>3 DEF Known
    <2> HIDE DEF e
    <2>7. p = Raw(t, e) /\ p \in Ptr /\ FixUp(t, d, e) \in Word
      BY <2>5, <2>6, FixUpFact
    <2>8. p \cap t.mask = t.common
      BY <2>5, <2>7, Decode
    <2>9. ASSUME NEW b \in p PROVE b \in t.mask \ d \/ b = 0
      <3>1. SUFFICES ASSUME b # 0, b \notin t.mask \ d PROVE b \in FixUp(t, d, e)
        BY <2>3, <2>7, ValidBit
      <3>2. b \in (e \ t.mask) \cup t.common
        BY <2>7 DEF Raw
      <3> QED BY <3>1, <3>2 DEF FixUp, Words
    <2> HIDE DEF p
    <2>10. AnotherBit(t, d, p) \in t.mask \ d
      BY <2>7, <2>8, <2>9, AnotherBitFact
    <2> QED BY <1>2, <2>4, <2>10
  <1> QED BY <1>1, <1>2

\* fixup_table_common ends with a maskdiff that leaves every entry valid.
LEMMA ExposedFact ==
  ASSUME NEW t, Words(t), Known(t), NEW d, d \subseteq t.mask
  PROVE  /\ d \subseteq Exposed(t, d) /\ Exposed(t, d) \subseteq t.mask
         /\ Lost(t, Exposed(t, d)) = {}
  <1> DEFINE U == SUBSET t.mask
             A == [n \in 0 .. W |->
                    {c \in U : d \subseteq c /\ (Lost(t, c) = {} \/ Cardinality(c) >= n)}]
             step == [n \in 1 .. W |-> [c \in U |-> Expose(t, c)]]
             f == CHOOSE e : e = [n \in 0 .. W |-> IF n = 0 THEN d ELSE Expose(t, e[n - 1])]
  <1>1. W \in Nat /\ Bit = 0 .. W - 1 /\ t.mask \subseteq Bit
    BY HtableAssumption DEF Words, Word, Bit
  <1>2. IsFiniteSet(Bit) /\ Cardinality(Bit) = W
    BY <1>1, FS_Interval
  <1>3. ASSUME NEW c \in U
        PROVE  IsFiniteSet(c) /\ Cardinality(c) \in Nat /\ Cardinality(c) <= W
    <2>1. c \subseteq Bit
      BY <1>1
    <2> QED BY <1>2, <2>1, FS_Subset, FS_CardinalityType
  <1>4. ASSUME NEW n \in 1 .. W, NEW c \in A[n - 1]
        PROVE  c \in U /\ Expose(t, c) \in A[n]
    <2>1. n \in 0 .. W /\ n - 1 \in 0 .. W /\ n \in Nat
      BY <1>1
    <2>2. c \in U /\ d \subseteq c /\ (Lost(t, c) = {} \/ Cardinality(c) >= n - 1)
      BY <2>1
    <2>3. CASE Lost(t, c) = {}
      BY <2>1, <2>2, <2>3, ExposeFact
    <2>4. CASE Lost(t, c) # {}
      <3>1. PICK b \in t.mask \ c : Expose(t, c) = c \cup {b}
        BY <2>2, <2>4, ExposeFact
      <3>2. Cardinality(c \cup {b}) = Cardinality(c) + 1
        BY <1>3, <2>2, <3>1, FS_AddElement
      <3>3. Cardinality(c) \in Nat
        BY <1>3, <2>2
      <3>4. Cardinality(c \cup {b}) >= n
        BY <2>1, <2>2, <2>4, <3>2, <3>3
      <3>5. c \cup {b} \in U /\ d \subseteq c \cup {b}
        BY <2>2, <3>1
      <3> QED BY <2>1, <2>2, <3>1, <3>4, <3>5
    <2> QED BY <2>3, <2>4
  <1>5. PICK g : Loops(g, U, A, d, step, W)
    <2>1. A \in [0 .. W -> SUBSET U]
      OBVIOUS
    <2>2. d \in A[0]
      <3>1. 0 \in 0 .. W /\ Cardinality(d) >= 0
        BY <1>1, <1>3
      <3> QED BY <3>1
    <2>3. Turns(A, step, W)
      <3>1. ASSUME NEW n \in 1 .. W, NEW c \in A[n - 1] PROVE step[n][c] = Expose(t, c)
        <4>1. c \in U
          BY <1>4
        <4> HIDE DEF A
        <4> QED BY <4>1
      <3> HIDE DEF A, step
      <3> QED BY <1>4, <3>1 DEF Turns
    <2> HIDE DEF A, step, U
    <2> QED BY <1>1, <2>1, <2>2, <2>3, Iteration
  <1>6. g \in [0 .. W -> U] /\ g[0] = d /\ \A n \in 0 .. W : g[n] \in A[n]
    <2> HIDE DEF A, step, U
    <2> QED BY <1>5 DEF Loops
  <1>7. ASSUME NEW n \in 1 .. W PROVE g[n] = Expose(t, g[n - 1])
    <2>1. g[n] = step[n][g[n - 1]]
      <3> HIDE DEF A, step, U
      <3> QED BY <1>5 DEF Loops
    <2>2. n - 1 \in 0 .. W
      BY <1>1
    <2>3. g[n - 1] \in U
      <3> HIDE DEF U
      <3> QED BY <1>6, <2>2
    <2> HIDE DEF U
    <2> QED BY <2>1, <2>3
  <1>8. g = [n \in 0 .. W |-> IF n = 0 THEN d ELSE Expose(t, g[n - 1])]
    <2> HIDE DEF A, step, U
    <2> QED BY <1>1, <1>6, <1>7
  <1>9. f = [n \in 0 .. W |-> IF n = 0 THEN d ELSE Expose(t, f[n - 1])]
    <2> HIDE DEF A, step, U
    <2> QED BY <1>8
  <1>10. Exposed(t, d) = f[W]
    BY DEF Exposed
  <1> HIDE DEF f, step, A, U
  <1> DEFINE S == {n \in 0 .. W : f[n] = g[n]}
  <1>11. 0 \in S
    BY <1>1, <1>6, <1>9
  <1>12. ASSUME NEW n \in 0 .. W - 1, n \in S PROVE n + 1 \in S
    <2>1. n + 1 \in 0 .. W /\ n + 1 # 0 /\ (n + 1) - 1 = n /\ n + 1 \in 1 .. W
      BY <1>1
    <2>2. f[n + 1] = Expose(t, f[n])
      BY <1>9, <2>1
    <2>3. g[n + 1] = Expose(t, g[n])
      BY <1>7, <2>1
    <2> QED BY <1>12, <2>1, <2>2, <2>3
  <1>13. \A n \in 0 .. W : n \in S
    <2> HIDE DEF S
    <2> QED BY <1>1, <1>11, <1>12, InductionTo
  <1>14. W \in 0 .. W
    BY <1>1
  <1> DEFINE c == f[W]
  <1>15. c \in A[W]
    BY <1>6, <1>13, <1>14
  <1>16. c \in U /\ d \subseteq c /\ (Lost(t, c) = {} \/ Cardinality(c) >= W)
    BY <1>14, <1>15 DEF A
  <1>17. c \subseteq t.mask
    BY <1>16 DEF U
  <1>18. Lost(t, c) = {}
    <2>1. SUFFICES ASSUME Lost(t, c) # {} PROVE FALSE
      OBVIOUS
    <2>2. PICK b \in t.mask \ c : TRUE
      BY <1>17, <2>1, ExposeFact
    <2>3. c \cup {b} \in U
      BY <1>17, <2>2 DEF U
    <2>4. Cardinality(c \cup {b}) = Cardinality(c) + 1
      BY <1>3, <1>16, <2>2, FS_AddElement
    <2>5. Cardinality(c \cup {b}) <= W /\ Cardinality(c) \in Nat
      BY <1>3, <1>16, <2>3
    <2> QED BY <1>1, <1>16, <2>1, <2>4, <2>5
  <1> QED BY <1>10, <1>16, <1>17, <1>18

\* u has the size and the counters of t.
Keeps(t, u) ==
  /\ u.bits = t.bits /\ u.elems = t.elems /\ u.deleted = t.deleted
  /\ u.locked = t.locked /\ u.heap = t.heap

\* fixup_table_common with the bits d: the same pointers are in the same
\* buckets.
Fixed(t, u, d) ==
  /\ Words(u) /\ Keeps(t, u) /\ GivesBack(t, u, d)
  /\ Used(u) = Used(t)
  /\ \A i \in Buckets(t) \ Used(t) : u.table[i] = t.table[i]
  /\ \A i \in Used(t) : /\ Raw(u, u.table[i]) = Raw(t, t.table[i])
                        /\ Extra(u, u.table[i]) = Extra(t, t.table[i]) \ d

\* fixup_table_common keeps the pointers, whatever bits it has to give back.
LEMMA FixTableFact ==
  ASSUME NEW t, Words(t), Known(t), NEW m, m \subseteq t.mask
  PROVE  \E d : m \subseteq d /\ d \subseteq t.mask /\ Fixed(t, FixTable(t, m), d)
  <1> DEFINE d == Exposed(t, m)
             u == FixTable(t, m)
  <1>1. m \subseteq d /\ d \subseteq t.mask /\ Lost(t, d) = {}
    BY ExposedFact
  <1>2. u = [t EXCEPT !.table = [i \in Buckets(t) |->
                                  IF Valid(t.table[i]) THEN FixUp(t, d, t.table[i])
                                  ELSE t.table[i]],
                      !.mask = t.mask \ d,
                      !.common = t.common \ d,
                      !.perfect = IF PerfectMask(t) \cap d # {} THEN NO_PERFECT_BIT
                                  ELSE t.perfect]
    BY DEF FixTable, Words
  <1> HIDE DEF d, u
  <1>3. /\ t = [bits |-> t.bits, perfect |-> t.perfect, elems |-> t.elems,
                deleted |-> t.deleted, locked |-> t.locked, mask |-> t.mask,
                common |-> t.common, table |-> t.table, heap |-> t.heap]
        /\ t.bits \in 0 .. MaxBits /\ t.perfect \in Bit /\ t.heap \in BOOLEAN
        /\ t.elems \in Nat /\ t.deleted \in Nat /\ t.locked \in Nat
        /\ t.table \in [Buckets(t) -> Word]
        /\ t.mask \in Word /\ t.common \subseteq t.mask /\ PerfectMask(t) \subseteq t.mask
    BY DEF Words
  <1> DEFINE tb == [i \in Buckets(t) |-> IF Valid(t.table[i]) THEN FixUp(t, d, t.table[i])
                                         ELSE t.table[i]]
             pf == IF PerfectMask(t) \cap d # {} THEN NO_PERFECT_BIT ELSE t.perfect
  <1>4. u = [bits |-> t.bits, perfect |-> pf, elems |-> t.elems,
             deleted |-> t.deleted, locked |-> t.locked, mask |-> t.mask \ d,
             common |-> t.common \ d, table |-> tb, heap |-> t.heap]
    BY <1>2, <1>3
  <1>5. /\ tb \in [Buckets(t) -> Word]
        /\ \A i \in Used(t) : tb[i] = FixUp(t, d, t.table[i]) /\ Valid(tb[i])
        /\ \A i \in Buckets(t) \ Used(t) : tb[i] = t.table[i] /\ ~Valid(tb[i])
    <2>1. ASSUME NEW i \in Buckets(t) PROVE t.table[i] \in Word /\ tb[i] \in Word
      <3>1. t.table[i] \in Word
        BY <1>3
      <3>2. FixUp(t, d, t.table[i]) \in Word
        BY <1>1, <3>1, FixUpFact
      <3> QED BY <3>1, <3>2
    <2>2. \A i \in Used(t) : tb[i] = FixUp(t, d, t.table[i]) /\ Valid(tb[i])
      BY <1>1 DEF Used, Lost
    <2>3. \A i \in Buckets(t) \ Used(t) : tb[i] = t.table[i] /\ ~Valid(tb[i])
      BY DEF Used
    <2> QED BY <2>1, <2>2, <2>3
  <1>6. pf \in Bit /\ ({pf + 1} \cap Bit) = PerfectMask(t) \ d
    <2>1. W - 1 \in Bit /\ (W - 1) + 1 \notin Bit
      BY HtableAssumption DEF Bit
    <2>2. CASE PerfectMask(t) \cap d # {}
      <3>1. pf = W - 1
        BY <2>2 DEF NO_PERFECT_BIT
      <3>2. PerfectMask(t) \ d = {}
        BY <2>2 DEF PerfectMask
      <3> HIDE DEF pf
      <3> QED BY <2>1, <3>1, <3>2
    <2>3. CASE PerfectMask(t) \cap d = {}
      <3>1. pf = t.perfect /\ PerfectMask(t) \ d = PerfectMask(t)
        BY <2>3
      <3> HIDE DEF pf
      <3> QED BY <1>3, <3>1 DEF PerfectMask
    <2> QED BY <2>2, <2>3
  <1> HIDE DEF tb, pf
  <1>7. /\ u.bits = t.bits /\ u.perfect = pf /\ u.elems = t.elems /\ u.deleted = t.deleted
        /\ u.locked = t.locked /\ u.mask = t.mask \ d /\ u.common = t.common \ d
        /\ u.table = tb /\ u.heap = t.heap
    BY <1>4
  <1>8. GivesBack(t, u, d) /\ Keeps(t, u)
    BY <1>6, <1>7 DEF GivesBack, Keeps, PerfectMask
  <1>9. Buckets(u) = Buckets(t)
    BY <1>7 DEF Buckets, Size
  <1>10. u = [bits |-> u.bits, perfect |-> u.perfect, elems |-> u.elems,
              deleted |-> u.deleted, locked |-> u.locked, mask |-> u.mask,
              common |-> u.common, table |-> u.table, heap |-> u.heap]
    BY <1>4, <1>7
  <1>11. u.mask \in Word /\ u.common \subseteq u.mask /\ PerfectMask(u) \subseteq u.mask
    BY <1>3, <1>7, <1>8 DEF GivesBack, Word
  <1>12. Words(u)
    BY <1>3, <1>5, <1>6, <1>7, <1>9, <1>10, <1>11 DEF Words
  <1>13. Used(u) = Used(t)
    BY <1>5, <1>7, <1>9 DEF Used
  <1>14. ASSUME NEW i \in Used(t)
         PROVE  /\ Raw(u, u.table[i]) = Raw(t, t.table[i])
                /\ Extra(u, u.table[i]) = Extra(t, t.table[i]) \ d
    <2>1. t.table[i] \in Word
      BY <1>3 DEF Used
    <2>2. u.table[i] = FixUp(t, d, t.table[i])
      BY <1>5, <1>7
    <2> DEFINE e == t.table[i]
    <2>3. e \in Word
      BY <2>1
    <2> HIDE DEF e
    <2>4. \A v : GivesBack(t, v, d) => /\ Raw(v, FixUp(t, d, e)) = Raw(t, e)
                                       /\ Extra(v, FixUp(t, d, e)) = Extra(t, e) \ d
      BY <1>1, <2>3, FixUpFact
    <2>5. Raw(u, FixUp(t, d, e)) = Raw(t, e) /\ Extra(u, FixUp(t, d, e)) = Extra(t, e) \ d
      BY <1>8, <2>4
    <2> QED BY <2>2, <2>5 DEF e
  <1>15. \A i \in Buckets(t) \ Used(t) : u.table[i] = t.table[i]
    BY <1>5, <1>7
  <1>16. Fixed(t, u, d)
    BY <1>8, <1>12, <1>13, <1>14, <1>15 DEF Fixed
  <1> QED BY <1>1, <1>16 DEF u

-----------------------------------------------------------------------------
(* ht_add *)

\* u differs from t in its buckets only.
Alike(t, u) ==
  Keeps(t, u) /\ u.mask = t.mask /\ u.common = t.common /\ u.perfect = t.perfect

\* Then it is read in the same way.
LEMMA AlikeOps ==
  ASSUME NEW t, NEW u, Alike(t, u)
  PROVE  /\ Buckets(u) = Buckets(t) /\ Size(u) = Size(t) /\ PerfectMask(u) = PerfectMask(t)
         /\ \A e : Raw(u, e) = Raw(t, e) /\ Extra(u, e) = Extra(t, e)
         /\ \A h, k : Probe(u, h, k) = Probe(t, h, k) /\ Mark(u, h, k) = Mark(t, h, k)
  BY DEF Alike, Keeps, Buckets, Size, PerfectMask, Raw, Extra, Probe, HashBucket,
     Mark, HashBits

\* One bucket is written.
Put(t, i, e) == [t EXCEPT !.table[i] = e]

\* That changes nothing else.
LEMMA PutFact ==
  ASSUME NEW t, Words(t), NEW i \in Buckets(t), NEW e \in Word, NEW u, u = Put(t, i, e)
  PROVE  /\ Words(u) /\ Alike(t, u)
         /\ u.table[i] = e /\ \A j \in Buckets(t) : j # i => u.table[j] = t.table[j]
         /\ Used(u) = (IF Valid(e) THEN Used(t) \cup {i} ELSE Used(t) \ {i})
  <1>1. /\ t = [bits |-> t.bits, perfect |-> t.perfect, elems |-> t.elems,
                deleted |-> t.deleted, locked |-> t.locked, mask |-> t.mask,
                common |-> t.common, table |-> t.table, heap |-> t.heap]
        /\ t.bits \in 0 .. MaxBits /\ t.perfect \in Bit /\ t.heap \in BOOLEAN
        /\ t.elems \in Nat /\ t.deleted \in Nat /\ t.locked \in Nat
        /\ t.table \in [Buckets(t) -> Word]
        /\ t.mask \in Word /\ t.common \subseteq t.mask /\ PerfectMask(t) \subseteq t.mask
    BY DEF Words
  <1> DEFINE tb == [t.table EXCEPT ![i] = e]
  <1>2. u = [bits |-> t.bits, perfect |-> t.perfect, elems |-> t.elems,
             deleted |-> t.deleted, locked |-> t.locked, mask |-> t.mask,
             common |-> t.common, table |-> tb, heap |-> t.heap]
    BY <1>1 DEF Put
  <1>3. /\ tb \in [Buckets(t) -> Word] /\ tb[i] = e
        /\ \A j \in Buckets(t) : j # i => tb[j] = t.table[j]
    BY <1>1
  <1> HIDE DEF tb
  <1>4. u.table = tb /\ Alike(t, u)
    BY <1>2 DEF Alike, Keeps
  <1>5. Buckets(u) = Buckets(t) /\ PerfectMask(u) = PerfectMask(t)
    BY <1>4, AlikeOps
  <1>6. Words(u)
    <2>1. u = [bits |-> u.bits, perfect |-> u.perfect, elems |-> u.elems,
               deleted |-> u.deleted, locked |-> u.locked, mask |-> u.mask,
               common |-> u.common, table |-> u.table, heap |-> u.heap]
      BY <1>2
    <2> QED BY <1>1, <1>3, <1>4, <1>5, <2>1 DEF Words, Alike, Keeps
  <1>7. Used(u) = (IF Valid(e) THEN Used(t) \cup {i} ELSE Used(t) \ {i})
    <2>1. ASSUME NEW j \in Buckets(t)
          PROVE  j \in Used(u) <=> IF j = i THEN Valid(e) ELSE j \in Used(t)
      BY <1>3, <1>4, <1>5 DEF Used
    <2>2. Used(u) \subseteq Buckets(t) /\ Used(t) \subseteq Buckets(t)
      BY <1>5 DEF Used
    <2> QED BY <2>1, <2>2
  <1> QED BY <1>3, <1>4, <1>6, <1>7

\* The bucket that ht_add takes is the first after that of the hash that has
\* no entry.
LEMMA DistanceFact ==
  ASSUME NEW t, Words(t), NEW h, Used(t) # Buckets(t)
  PROVE  /\ Distance(t, h) \in Buckets(t)
         /\ Probe(t, h, Distance(t, h)) \in Buckets(t) \ Used(t)
         /\ \A j \in Buckets(t) : j < Distance(t, h) => Probe(t, h, j) \in Used(t)
         /\ \A k \in Buckets(t) : Probe(t, h, k) \notin Used(t) => Distance(t, h) <= k
  <1> DEFINE T == {k \in Buckets(t) : Probe(t, h, k) \notin Used(t)}
  <1>1. \A k \in Buckets(t) : Probe(t, h, k) \in Buckets(t)
    BY ProbeFact
  <1>2. Distance(t, h) = Min(T)
    <2>1. T = {k \in Buckets(t) : ~Valid(t.table[(HashBucket(t, h) + k) % Size(t)])}
      BY <1>1 DEF Used, Probe
    <2> HIDE DEF T
    <2> QED BY <2>1 DEF Distance
  <1>3. T # {}
    <2>1. PICK i \in Buckets(t) : i \notin Used(t)
      BY DEF Used
    <2>2. PICK k \in Buckets(t) : Probe(t, h, k) = i
      BY ProbeOnto
    <2> QED BY <2>1, <2>2
  <1>4. T \subseteq Nat
    BY Sizes
  <1>5. Min(T) \in T /\ \A y \in T : Min(T) <= y
    <2> HIDE DEF T
    <2> QED BY <1>3, <1>4, MinIn
  <1>6. ASSUME NEW j \in Buckets(t), j < Min(T) PROVE Probe(t, h, j) \in Used(t)
    <2>1. SUFFICES ASSUME Probe(t, h, j) \notin Used(t) PROVE FALSE
      OBVIOUS
    <2>2. j \in T
      BY <2>1
    <2>3. Min(T) <= j
      <3> HIDE DEF T
      <3> QED BY <1>5, <2>2
    <2>4. Min(T) \in Nat /\ j \in Nat
      <3> HIDE DEF T
      <3> QED BY <1>4, <1>5, <2>2
    <2> HIDE DEF T
    <2> QED BY <1>6, <2>3, <2>4
  <1>7. Min(T) \in Buckets(t) /\ Probe(t, h, Min(T)) \notin Used(t)
    BY <1>5
  <1>8. \A k \in Buckets(t) : Probe(t, h, k) \notin Used(t) => Min(T) <= k
    <2> DEFINE m == Min(T)
    <2>1. \A y \in T : m <= y
      BY <1>5
    <2> HIDE DEF m
    <2>2. \A k \in Buckets(t) : Probe(t, h, k) \notin Used(t) => m <= k
      BY <2>1
    <2> QED BY <2>2 DEF m
  <1> HIDE DEF T
  <1> QED BY <1>1, <1>2, <1>6, <1>7, <1>8

\* What ht_add writes is decoded to the pointer, with the bits lookup expects.
LEMMA EntryFact ==
  ASSUME NEW t, Words(t), NEW p \in Ptr, p \cap t.mask = t.common, NEW h
  PROVE  /\ Entry(t, p, h) \in Word /\ Raw(t, Entry(t, p, h)) = p
         /\ Extra(t, Entry(t, p, h)) = Mark(t, h, Distance(t, h))
         /\ \A b \in p \ t.mask : b \in Entry(t, p, h)
  <1>1. Entry(t, p, h) = HVal(t, p, Mark(t, h, Distance(t, h)))
    BY DEF Entry, Mark
  <1>2. Mark(t, h, Distance(t, h)) \in SUBSET t.mask
    BY MarkMask
  <1>3. p \in Word
    BY HtableAssumption
  <1>4. \A b \in p \ t.mask : b \in HVal(t, p, Mark(t, h, Distance(t, h)))
    BY DEF HVal
  <1> QED BY <1>1, <1>2, <1>3, <1>4, Decode

\* Every entry can be found once bucket s is taken.
ChainBut(t, s) ==
  \A i \in Used(t) : \E k \in Buckets(t) :
    /\ At(t, i, k)
    /\ \A j \in 0 .. k - 1 :
         LET x == Probe(t, hash[Raw(t, t.table[i])], j) IN t.table[x] # Empty \/ x = s

\* An entry that can be found was added.
LEMMA ChainKnown ==
  ASSUME NEW t, NEW s, Chain(t) \/ ChainBut(t, s)
  PROVE  Known(t)
  BY DEF Chain, ChainBut, At, Known

\* Fixing up the table leaves entries where they are found.
LEMMA FixedChain ==
  ASSUME NEW t, Words(t), NEW d, d \subseteq t.mask, NEW u, Fixed(t, u, d)
  PROVE  /\ \A s : ChainBut(t, s) => ChainBut(u, s)
         /\ Chain(t) => Chain(u)
         /\ Buckets(u) = Buckets(t)
         /\ \A h, k : Probe(u, h, k) = Probe(t, h, k)
  <1>1. Buckets(u) = Buckets(t) /\ (\A h, k : Probe(u, h, k) = Probe(t, h, k))
    BY DEF Fixed, Keeps, Buckets, Probe, Size, HashBucket
  <1>2. \A h, k : Mark(u, h, k) = Mark(t, h, k) \ d
    <2>1. Empty \in Word
      BY DEF Empty, Word
    <2>2. GivesBack(t, u, d)
      BY DEF Fixed
    <2> QED BY <2>1, <2>2, FixUpFact
  <1>3. ASSUME NEW i \in Used(t), NEW k, At(t, i, k) PROVE At(u, i, k)
    <2>1. /\ Raw(u, u.table[i]) = Raw(t, t.table[i])
          /\ Extra(u, u.table[i]) = Extra(t, t.table[i]) \ d
      BY DEF Fixed
    <2> QED BY <1>1, <1>2, <1>3, <2>1 DEF At
  <1>4. ASSUME NEW x \in Buckets(t), t.table[x] # Empty PROVE u.table[x] # Empty
    <2>1. CASE x \in Used(t)
      BY <2>1 DEF Fixed, Used, Valid
    <2>2. CASE x \notin Used(t)
      BY <1>4, <2>2 DEF Fixed
    <2> QED BY <2>1, <2>2
  <1>5. \A i \in Used(t) : Raw(u, u.table[i]) = Raw(t, t.table[i])
    BY DEF Fixed
  <1>6. Used(u) = Used(t)
    BY DEF Fixed
  <1>7. \A k \in Buckets(t) : \A j \in 0 .. k - 1 : j \in Buckets(t)
    BY Sizes
  <1>8. \A h : \A j \in Buckets(t) : Probe(t, h, j) \in Buckets(t)
    BY ProbeFact
  <1>9. ASSUME NEW s, ChainBut(t, s) PROVE ChainBut(u, s)
    <2>1. SUFFICES ASSUME NEW i \in Used(t)
                   PROVE  \E k \in Buckets(u) :
                            /\ At(u, i, k)
                            /\ \A j \in 0 .. k - 1 :
                                 LET x == Probe(u, hash[Raw(u, u.table[i])], j)
                                 IN u.table[x] # Empty \/ x = s
      BY <1>6 DEF ChainBut
    <2> DEFINE h == hash[Raw(t, t.table[i])]
    <2>2. PICK k \in Buckets(t) :
            /\ At(t, i, k)
            /\ \A j \in 0 .. k - 1 : t.table[Probe(t, h, j)] # Empty \/ Probe(t, h, j) = s
      BY <1>9 DEF ChainBut
    <2>3. h = hash[Raw(u, u.table[i])]
      BY <1>5
    <2> HIDE DEF h
    <2>4. ASSUME NEW j \in 0 .. k - 1
          PROVE  u.table[Probe(u, h, j)] # Empty \/ Probe(u, h, j) = s
      BY <1>1, <1>4, <1>7, <1>8, <2>2
    <2>5. At(u, i, k)
      BY <1>3, <2>2
    <2> QED BY <1>1, <2>3, <2>4, <2>5
  <1>10. ASSUME Chain(t) PROVE Chain(u)
    <2>1. SUFFICES ASSUME NEW i \in Used(t)
                   PROVE  \E k \in Buckets(u) : At(u, i, k) /\ Path(u, Raw(u, u.table[i]), k)
      BY <1>6 DEF Chain
    <2> DEFINE h == hash[Raw(t, t.table[i])]
    <2>2. PICK k \in Buckets(t) :
            At(t, i, k) /\ \A j \in 0 .. k - 1 : t.table[Probe(t, h, j)] # Empty
      BY <1>10 DEF Chain, Path
    <2>3. h = hash[Raw(u, u.table[i])]
      BY <1>5
    <2> HIDE DEF h
    <2>4. ASSUME NEW j \in 0 .. k - 1 PROVE u.table[Probe(u, h, j)] # Empty
      BY <1>1, <1>4, <1>7, <1>8, <2>2
    <2>5. At(u, i, k)
      BY <1>3, <2>2
    <2> QED BY <1>1, <2>3, <2>4, <2>5 DEF Path
  <1> QED BY <1>1, <1>9, <1>10

\* ht_add of an entry that is valid.
LEMMA PlaceFact ==
  ASSUME NEW t, Words(t), Used(t) # Buckets(t), NEW p \in Ptr, p \cap t.mask = t.common,
         NEW s, s = Probe(t, hash[p], Distance(t, hash[p])), ChainBut(t, s),
         Valid(Entry(t, p, hash[p])), NEW u, u = Place(t, p, hash[p])
  PROVE  Chain(u)
  <1> DEFINE h == hash[p]
             d == Distance(t, h)
             e == Entry(t, p, h)
  <1>1. /\ d \in Buckets(t) /\ s \in Buckets(t) \ Used(t)
        /\ \A j \in Buckets(t) : j < d => Probe(t, h, j) \in Used(t)
    BY DistanceFact
  <1>2. e \in Word /\ Raw(t, e) = p /\ Extra(t, e) = Mark(t, h, d)
    BY EntryFact
  <1>3. u = Put(t, s, e)
    BY DEF Place, Put
  <1>4. /\ Words(u) /\ Alike(t, u) /\ u.table[s] = e /\ Used(u) = Used(t) \cup {s}
        /\ \A j \in Buckets(t) : j # s => u.table[j] = t.table[j]
    <2>1. Valid(e)
      OBVIOUS
    <2> HIDE DEF e, d, h
    <2>2. s \in Buckets(t) /\ e \in Word
      BY <1>1, <1>2
    <2>3. /\ Words(u) /\ Alike(t, u) /\ u.table[s] = e
          /\ \A j \in Buckets(t) : j # s => u.table[j] = t.table[j]
          /\ Used(u) = (IF Valid(e) THEN Used(t) \cup {s} ELSE Used(t) \ {s})
      BY ONLY <1>3, <2>2, Words(t), PutFact
    <2> QED BY <2>1, <2>3
  <1>5. e # Empty /\ s = Probe(t, h, d)
    BY DEF Valid
  <1> HIDE DEF e, d
  <1>6. /\ Buckets(u) = Buckets(t)
        /\ \A x : Raw(u, x) = Raw(t, x) /\ Extra(u, x) = Extra(t, x)
        /\ \A g, k : Probe(u, g, k) = Probe(t, g, k) /\ Mark(u, g, k) = Mark(t, g, k)
    BY <1>4, AlikeOps
  <1>7. \A k \in Buckets(t) : \A j \in 0 .. k - 1 : j \in Buckets(t) /\ j < k
    BY Sizes
  <1>8. \A g : \A j \in Buckets(t) : Probe(t, g, j) \in Buckets(t)
    BY ProbeFact
  <1>9. SUFFICES ASSUME NEW i \in Used(u)
                 PROVE  \E k \in Buckets(t) :
                          At(u, i, k) /\ \A j \in 0 .. k - 1 :
                            u.table[Probe(t, hash[Raw(u, u.table[i])], j)] # Empty
    BY <1>6 DEF Chain, Path
  <1>10. CASE i = s
    <2>1. Raw(u, u.table[i]) = p
      BY <1>2, <1>4, <1>6, <1>10
    <2>2. At(u, i, d)
      BY <1>2, <1>4, <1>5, <1>6, <1>10, <2>1 DEF At
    <2>3. ASSUME NEW j \in 0 .. d - 1 PROVE u.table[Probe(t, h, j)] # Empty
      <3>1. Probe(t, h, j) \in Used(t) /\ Probe(t, h, j) \in Buckets(t)
        BY <1>1, <1>7, <1>8
      <3>2. u.table[Probe(t, h, j)] = t.table[Probe(t, h, j)]
        BY <1>1, <1>4, <3>1
      <3> QED BY <3>1, <3>2 DEF Used, Valid
    <2> QED BY <1>1, <2>1, <2>2, <2>3
  <1>11. CASE i # s
    <2>1. i \in Used(t) /\ i \in Buckets(t)
      BY <1>4, <1>11 DEF Used
    <2>2. u.table[i] = t.table[i]
      BY <1>4, <1>11, <2>1
    <2> DEFINE g == hash[Raw(t, t.table[i])]
    <2>3. PICK k \in Buckets(t) :
            /\ At(t, i, k)
            /\ \A j \in 0 .. k - 1 : t.table[Probe(t, g, j)] # Empty \/ Probe(t, g, j) = s
      BY <2>1 DEF ChainBut
    <2>4. At(u, i, k)
      BY <1>6, <2>2, <2>3 DEF At
    <2>5. g = hash[Raw(u, u.table[i])]
      BY <1>6, <2>2
    <2> HIDE DEF g
    <2>6. ASSUME NEW j \in 0 .. k - 1 PROVE u.table[Probe(t, g, j)] # Empty
      BY <1>4, <1>5, <1>7, <1>8, <2>3
    <2> QED BY <2>4, <2>5, <2>6
  <1> QED BY <1>10, <1>11

\* u is t with p in another bucket, if some bits of the mask were given back.
Added(t, u, p) ==
  /\ Words(u) /\ Chain(u) /\ Keeps(t, u)
  /\ \E d : d \subseteq t.mask /\ GivesBack(t, u, d)
  /\ \E s \in Buckets(t) \ Used(t) :
       /\ Used(u) = Used(t) \cup {s} /\ Raw(u, u.table[s]) = p
       /\ \A i \in Used(t) : Raw(u, u.table[i]) = Raw(t, t.table[i])
       /\ \A i \in Buckets(t) : i \notin Used(u) => u.table[i] = t.table[i]

\* A bucket that is not taken stays out of the way.
LEMMA ChainChainBut ==
  ASSUME NEW t, Chain(t), NEW s
  PROVE  ChainBut(t, s)
  BY DEF Chain, ChainBut, Path

\* ht_add puts the pointer where lookup finds it, and the others stay where
\* they are, also if it has to give back bits first.
LEMMA HtAddFact ==
  ASSUME NEW t, Words(t), Chain(t), Used(t) # Buckets(t),
         NEW p \in Ptr, p \cap t.mask = t.common
  PROVE  Added(t, HtAdd(t, p, hash[p]), p)
  <1> DEFINE h == hash[p]
             d == Distance(t, h)
             s == Probe(t, h, d)
             e == Entry(t, p, h)
             v == Place(t, p, h)
  <1>1. d \in Buckets(t) /\ s \in Buckets(t) /\ s \notin Used(t)
    BY DistanceFact
  <1>2. e \in Word /\ Raw(t, e) = p /\ \A b \in p \ t.mask : b \in e
    BY EntryFact
  <1>3. v = Put(t, s, e)
    BY DEF Place, Put
  <1>4. /\ Words(v) /\ Alike(t, v) /\ v.table[s] = e
        /\ \A j \in Buckets(t) : j # s => v.table[j] = t.table[j]
        /\ Used(v) = (IF Valid(e) THEN Used(t) \cup {s} ELSE Used(t) \ {s})
    <2> HIDE DEF e, s, v
    <2> QED BY ONLY <1>1, <1>2, <1>3, Words(t), PutFact
  <1>5. /\ Buckets(v) = Buckets(t)
        /\ \A x : Raw(v, x) = Raw(t, x) /\ Extra(v, x) = Extra(t, x)
        /\ \A g, k : Probe(v, g, k) = Probe(t, g, k) /\ Mark(v, g, k) = Mark(t, g, k)
    <2> HIDE DEF v
    <2> QED BY <1>4, AlikeOps
  <1>6. Used(t) \subseteq Buckets(t)
    BY DEF Used
  <1>7. \A i \in Used(t) : v.table[i] = t.table[i]
    BY <1>1, <1>4, <1>6
  <1>8. ChainBut(t, s)
    BY ChainChainBut
  <1>9. CASE Valid(e)
    <2>1. HtAdd(t, p, h) = v
      BY <1>9 DEF HtAdd
    <2>2. Chain(v)
      BY <1>8, <1>9, PlaceFact
    <2>3. GivesBack(t, v, {})
      <3>1. PerfectMask(v) = PerfectMask(t)
        BY <1>4 DEF Alike, PerfectMask
      <3> QED BY <1>4, <3>1 DEF GivesBack, Alike, Keeps
    <2>4. Used(v) = Used(t) \cup {s}
      BY <1>4, <1>9
    <2>5. Keeps(t, v)
      BY <1>4 DEF Alike
    <2>6. Raw(v, v.table[s]) = p
      BY <1>2, <1>4, <1>5
    <2>7. \A i \in Used(t) : Raw(v, v.table[i]) = Raw(t, t.table[i])
      BY <1>5, <1>7
    <2>8. \A i \in Buckets(t) : i \notin Used(v) => v.table[i] = t.table[i]
      BY <1>4, <2>4
    <2>9. Words(v)
      BY <1>4
    <2> HIDE DEF v, e, s, d
    <2> QED BY <1>1, <2>1, <2>2, <2>3, <2>4, <2>5, <2>6, <2>7, <2>8, <2>9 DEF Added
  <1>10. CASE ~Valid(e)
    <2> DEFINE b == AnotherBit(t, {}, p)
               w == FixTable(v, {b})
               u == Place(w, p, h)
    <2>1. HtAdd(t, p, h) = u
      BY <1>10 DEF HtAdd
    <2>2. b \in t.mask /\ b \in p /\ b # 0
      <3>1. \A c \in p : c \in t.mask \/ c = 0
        BY <1>2, <1>10, ValidBit
      <3>2. {} \subseteq t.mask /\ \A c \in p : c \in t.mask \ {} \/ c = 0
        BY <3>1
      <3>3. b \in t.mask \ {} /\ b \in p /\ b # 0
        BY <3>2, AnotherBitFact
      <3> QED BY <3>3
    <2>3. Used(v) = Used(t)
      BY <1>1, <1>4, <1>10
    <2> HIDE DEF e
    <2>4. ChainBut(v, s)
      <3>1. SUFFICES ASSUME NEW i \in Used(t)
                     PROVE  \E k \in Buckets(v) :
                              /\ At(v, i, k)
                              /\ \A j \in 0 .. k - 1 :
                                   LET x == Probe(v, hash[Raw(v, v.table[i])], j)
                                   IN v.table[x] # Empty \/ x = s
        BY <2>3 DEF ChainBut
      <3> DEFINE g == hash[Raw(t, t.table[i])]
      <3>2. PICK k \in Buckets(t) :
              At(t, i, k) /\ \A j \in 0 .. k - 1 : t.table[Probe(t, g, j)] # Empty
        BY DEF Chain, Path
      <3>3. v.table[i] = t.table[i] /\ g = hash[Raw(v, v.table[i])]
        BY <1>5, <1>7
      <3> HIDE DEF g, v, s
      <3>4. At(v, i, k)
        BY <1>5, <3>2, <3>3 DEF At
      <3>5. ASSUME NEW j \in 0 .. k - 1
            PROVE  v.table[Probe(v, g, j)] # Empty \/ Probe(v, g, j) = s
        <4>1. j \in Buckets(t)
          BY Sizes
        <4>2. Probe(t, g, j) \in Buckets(t)
          BY <4>1, ProbeFact
        <4> QED BY <1>4, <1>5, <3>2, <4>2
      <3> QED BY <1>5, <3>3, <3>4, <3>5
    <2>5. PICK m : {b} \subseteq m /\ m \subseteq v.mask /\ Fixed(v, w, m)
      <3>1. Known(v)
        BY <2>4, ChainKnown
      <3>2. {b} \subseteq v.mask
        BY <1>4, <2>2 DEF Alike
      <3> HIDE DEF v, b
      <3> QED BY <1>4, <3>1, <3>2, FixTableFact
    <2> HIDE DEF v, w, b, s
    <2>6. /\ Words(w) /\ Keeps(v, w) /\ GivesBack(v, w, m) /\ Used(w) = Used(t)
          /\ \A i \in Buckets(t) \ Used(t) : w.table[i] = v.table[i]
          /\ \A i \in Used(t) : Raw(w, w.table[i]) = Raw(v, v.table[i])
      BY <1>5, <2>3, <2>5 DEF Fixed
    <2>7. /\ ChainBut(w, s) /\ Buckets(w) = Buckets(t)
          /\ \A g, k : Probe(w, g, k) = Probe(t, g, k)
      BY <1>4, <1>5, <2>4, <2>5, FixedChain
    <2>8. Distance(w, h) = d
      <3>1. ASSUME NEW x, Words(x), Buckets(x) = Buckets(t), Used(x) = Used(t),
                   \A g, k : Probe(x, g, k) = Probe(t, g, k)
            PROVE  Distance(x, h) = Min({k \in Buckets(t) : Probe(t, h, k) \notin Used(t)})
        <4>1. \A k \in Buckets(x) : Probe(x, h, k) \in Buckets(x)
          BY <3>1, ProbeFact
        <4>2. {k \in Buckets(x) : ~Valid(x.table[(HashBucket(x, h) + k) % Size(x)])}
                = {k \in Buckets(t) : Probe(t, h, k) \notin Used(t)}
          <5>1. \A k \in Buckets(x) : Probe(x, h, k) \notin Used(x)
                  <=> ~Valid(x.table[(HashBucket(x, h) + k) % Size(x)])
            BY <4>1 DEF Used, Probe
          <5> QED BY <3>1, <5>1
        <4> QED BY <4>2 DEF Distance
      <3>2. Distance(t, h) = Min({k \in Buckets(t) : Probe(t, h, k) \notin Used(t)})
        BY <3>1
      <3> QED BY <2>6, <2>7, <3>1, <3>2
    <2>9. Probe(w, h, Distance(w, h)) = s
      BY <2>7, <2>8 DEF s
    <2>10. p \cap w.mask = w.common
      BY <1>4, <2>6 DEF Alike, GivesBack
    <2> DEFINE c == Entry(w, p, h)
    <2>11. c \in Word /\ Raw(w, c) = p /\ Valid(c)
      <3>1. c \in Word /\ Raw(w, c) = p /\ \A x \in p \ w.mask : x \in c
        BY <2>6, <2>10, EntryFact
      <3>2. b \in p \ w.mask
        BY <2>2, <2>5, <2>6 DEF GivesBack
      <3> HIDE DEF c
      <3> QED BY <2>2, <3>1, <3>2, ValidBit
    <2>12. u = Put(w, s, c)
      BY <2>9 DEF Place, Put
    <2>13. Chain(u)
      <3>1. Used(w) # Buckets(w)
        BY <2>6, <2>7
      <3> QED BY <2>6, <2>7, <2>9, <2>10, <2>11, <3>1, PlaceFact
    <2> HIDE DEF c, u
    <2>14. /\ Words(u) /\ Alike(w, u) /\ u.table[s] = c
           /\ \A j \in Buckets(w) : j # s => u.table[j] = w.table[j]
           /\ Used(u) = (IF Valid(c) THEN Used(w) \cup {s} ELSE Used(w) \ {s})
      <3>1. s \in Buckets(w) /\ c \in Word /\ Words(w)
        BY <1>1, <2>6, <2>7, <2>11
      <3> QED BY ONLY <2>12, <3>1, PutFact
    <2>15. Used(u) = Used(t) \cup {s}
      BY <2>6, <2>11, <2>14
    <2>16. \A x : Raw(u, x) = Raw(w, x)
      BY <2>14, AlikeOps
    <2>17. Raw(u, u.table[s]) = p
      BY <2>11, <2>14, <2>16
    <2>18. ASSUME NEW i \in Used(t) PROVE Raw(u, u.table[i]) = Raw(t, t.table[i])
      <3>1. i # s /\ i \in Buckets(w)
        BY <1>1, <1>6, <2>7
      <3>2. u.table[i] = w.table[i]
        BY <2>14, <3>1
      <3>3. Raw(w, w.table[i]) = Raw(v, v.table[i])
        BY <2>6
      <3>4. Raw(v, v.table[i]) = Raw(t, t.table[i])
        BY <1>5, <1>7
      <3> QED BY <2>16, <3>2, <3>3, <3>4
    <2>19. ASSUME NEW i \in Buckets(t), i \notin Used(u) PROVE u.table[i] = t.table[i]
      <3>1. i # s /\ i \notin Used(t)
        BY <2>15, <2>19
      <3> QED BY <1>4, <2>6, <2>7, <2>14, <3>1
    <2>20. Keeps(t, u)
      BY <1>4, <2>6, <2>14 DEF Alike, Keeps
    <2>21. m \subseteq t.mask /\ GivesBack(t, u, m)
      <3>1. PerfectMask(u) = PerfectMask(w) /\ PerfectMask(v) = PerfectMask(t)
        BY <1>4, <2>14 DEF Alike, PerfectMask
      <3> QED BY <1>4, <2>5, <2>6, <2>14, <3>1 DEF Alike, GivesBack, Keeps
    <2>22. Added(t, u, p)
      BY <1>1, <2>13, <2>14, <2>15, <2>17, <2>18, <2>19, <2>20, <2>21 DEF Added
    <2> QED BY <2>1, <2>22
  <1> QED BY <1>9, <1>10

-----------------------------------------------------------------------------
(* Counting *)

\* The buckets with a pointer of Q.
Hits(t, Q) == {i \in Used(t) : Raw(t, t.table[i]) \in Q}

\* There are finitely many buckets.
LEMMA BucketsFinite ==
  ASSUME NEW t, Words(t)
  PROVE  /\ IsFiniteSet(Buckets(t)) /\ Cardinality(Buckets(t)) = Size(t)
         /\ \A T \in SUBSET Buckets(t) : /\ IsFiniteSet(T) /\ Cardinality(T) \in Nat
                                         /\ Cardinality(T) <= Size(t)
  <1>1. Size(t) \in Nat /\ Buckets(t) = 0 .. Size(t) - 1
    BY Sizes
  <1>2. IsFiniteSet(Buckets(t)) /\ Cardinality(Buckets(t)) = Size(t)
    BY <1>1, FS_Interval
  <1>3. ASSUME NEW T \in SUBSET Buckets(t)
        PROVE  IsFiniteSet(T) /\ Cardinality(T) \in Nat /\ Cardinality(T) <= Size(t)
    BY <1>2, FS_Subset, FS_CardinalityType
  <1> QED BY <1>2, <1>3

\* ht_add adds one entry, and perhaps takes away a deleted marker.
LEMMA AddedCounts ==
  ASSUME NEW t, Words(t), NEW p, NEW u, Added(t, u, p)
  PROVE  /\ Cardinality(Used(u)) = Cardinality(Used(t)) + 1
         /\ \A Q : Cardinality(Hits(u, Q)) = Cardinality(Hits(t, Q)) + (IF p \in Q THEN 1 ELSE 0)
         /\ Markers(u) \subseteq Markers(t)
         /\ Buckets(u) = Buckets(t) /\ Size(u) = Size(t)
  <1>1. PICK s \in Buckets(t) \ Used(t) :
          /\ Used(u) = Used(t) \cup {s} /\ Raw(u, u.table[s]) = p
          /\ \A i \in Used(t) : Raw(u, u.table[i]) = Raw(t, t.table[i])
          /\ \A i \in Buckets(t) : i \notin Used(u) => u.table[i] = t.table[i]
    BY DEF Added
  <1>2. Buckets(u) = Buckets(t) /\ Size(u) = Size(t)
    BY DEF Added, Keeps, Buckets, Size
  <1>3. Used(t) \subseteq Buckets(t) /\ IsFiniteSet(Used(t))
    BY BucketsFinite DEF Used
  <1>4. Cardinality(Used(u)) = Cardinality(Used(t)) + 1
    BY <1>1, <1>3, FS_AddElement
  <1>5. ASSUME NEW Q
        PROVE  Cardinality(Hits(u, Q)) = Cardinality(Hits(t, Q)) + (IF p \in Q THEN 1 ELSE 0)
    <2>1. Hits(t, Q) \subseteq Used(t)
      BY DEF Hits
    <2>2. IsFiniteSet(Hits(t, Q)) /\ s \notin Hits(t, Q) /\ Cardinality(Hits(t, Q)) \in Nat
      BY <1>1, <1>3, <2>1, FS_Subset, FS_CardinalityType
    <2>3. Hits(u, Q) = IF p \in Q THEN Hits(t, Q) \cup {s} ELSE Hits(t, Q)
      BY <1>1 DEF Hits
    <2>4. CASE p \in Q
      BY <2>2, <2>3, <2>4, FS_AddElement
    <2>5. CASE p \notin Q
      BY <2>2, <2>3, <2>5
    <2> QED BY <2>4, <2>5
  <1>6. Markers(u) \subseteq Markers(t)
    <2>1. ASSUME NEW i \in Markers(u) PROVE i \in Markers(t)
      <3>1. i \in Buckets(t) /\ u.table[i] = Deleted
        BY <1>2 DEF Markers
      <3>2. i \notin Used(u)
        BY <3>1 DEF Used, Valid
      <3> QED BY <1>1, <3>1, <3>2 DEF Markers
    <2> QED BY <2>1
  <1> QED BY <1>2, <1>4, <1>5, <1>6

\* There is an empty bucket.
LEMMA Room ==
  ASSUME NEW t, Words(t), Counted(t), t.elems + t.deleted <= Max7(t)
  PROVE  /\ \E i \in Buckets(t) : t.table[i] = Empty
         /\ Used(t) # Buckets(t)
  <1>1. \E i \in Buckets(t) : t.table[i] = Empty
    <2> SUFFICES ASSUME \A i \in Buckets(t) : t.table[i] # Empty PROVE FALSE
      OBVIOUS
    <2>1. Buckets(t) = Used(t) \cup Markers(t) /\ Used(t) \cap Markers(t) = {}
      BY DEF Used, Markers, Valid
    <2>2. /\ IsFiniteSet(Used(t)) /\ IsFiniteSet(Markers(t))
          /\ Cardinality(Used(t)) \in Nat /\ Cardinality(Markers(t)) \in Nat
      BY <2>1, BucketsFinite
    <2>3. Cardinality(Used(t) \cup Markers(t))
            = Cardinality(Used(t)) + Cardinality(Markers(t)) - Cardinality(Used(t) \cap Markers(t))
      BY <2>2, FS_Union
    <2>4. Cardinality(Used(t) \cap Markers(t)) = 0
      BY <2>1, FS_EmptySet
    <2>5. Size(t) = Cardinality(Used(t)) + Cardinality(Markers(t))
      <3>1. Cardinality(Buckets(t)) = Size(t)
        BY BucketsFinite
      <3>2. Cardinality(Buckets(t)) = Cardinality(Used(t) \cup Markers(t))
        BY <2>1
      <3> QED BY ONLY <2>2, <2>3, <2>4, <3>1, <3>2
    <2>6. t.elems \in Nat /\ t.deleted \in Nat
      BY DEF Words
    <2>7. Size(t) <= Max7(t)
      BY <2>2, <2>5, <2>6 DEF Counted, Max7
    <2>8. Max7(t) < Size(t)
      <3> DEFINE n == Size(t)
      <3>1. n \in Nat /\ n >= 1
        BY Sizes
      <3> HIDE DEF n
      <3>2. (7 * n) \div 8 < n
        BY <3>1
      <3> QED BY <3>2 DEF n, Max7
    <2>9. Size(t) \in Nat /\ Max7(t) \in Int
      BY Sizes DEF Max7
    <2> QED BY <2>7, <2>8, <2>9
  <1>2. Used(t) # Buckets(t)
    BY <1>1 DEF Used, Valid
  <1> QED BY <1>1, <1>2

-----------------------------------------------------------------------------
(* htable_add *)

\* The same pointers are in the same buckets, and p can be added to them.
Updated(t, u, p) ==
  /\ Words(u) /\ Chain(u) /\ Keeps(t, u) /\ p \cap u.mask = u.common
  /\ Used(u) = Used(t) /\ Buckets(u) = Buckets(t)
  /\ \A i \in Used(t) : Raw(u, u.table[i]) = Raw(t, t.table[i])
  /\ \A i \in Buckets(t) \ Used(t) : u.table[i] = t.table[i]

\* update_common makes p fit.
LEMMA UpdateFact ==
  ASSUME NEW t, Words(t), Chain(t), Counted(t), NEW p \in Ptr
  PROVE  Updated(t, UpdateCommon(t, p), p)
  <1> DEFINE u == UpdateCommon(t, p)
  <1>1. p \in Word
    BY HtableAssumption
  <1>2. CASE p \cap t.mask = t.common
    <2>1. u = t
      BY <1>2 DEF UpdateCommon
    <2> QED BY <1>2, <2>1 DEF Updated, Keeps
  <1>3. CASE p \cap t.mask # t.common /\ t.elems = 0
    <2> DEFINE w == [t EXCEPT !.mask = Bit, !.common = p, !.perfect = 0]
    <2>1. u = w
      BY <1>3 DEF UpdateCommon
    <2>2. /\ t = [bits |-> t.bits, perfect |-> t.perfect, elems |-> t.elems,
                  deleted |-> t.deleted, locked |-> t.locked, mask |-> t.mask,
                  common |-> t.common, table |-> t.table, heap |-> t.heap]
          /\ t.bits \in 0 .. MaxBits /\ t.heap \in BOOLEAN
          /\ t.elems \in Nat /\ t.deleted \in Nat /\ t.locked \in Nat
          /\ t.table \in [Buckets(t) -> Word]
      BY DEF Words
    <2>3. w = [bits |-> t.bits, perfect |-> 0, elems |-> t.elems,
               deleted |-> t.deleted, locked |-> t.locked, mask |-> Bit,
               common |-> p, table |-> t.table, heap |-> t.heap]
      <3>1. w = [t EXCEPT !.mask = Bit, !.common = p, !.perfect = 0]
        OBVIOUS
      <3> HIDE DEF w
      <3> QED BY <2>2, <3>1
    <2> HIDE DEF w
    <2>4. /\ w.bits = t.bits /\ w.perfect = 0 /\ w.elems = t.elems /\ w.deleted = t.deleted
          /\ w.locked = t.locked /\ w.mask = Bit /\ w.common = p /\ w.table = t.table
          /\ w.heap = t.heap
      BY <2>3
    <2>5. Buckets(w) = Buckets(t) /\ Used(w) = Used(t)
      BY <2>4 DEF Buckets, Size, Used
    <2>6. Used(t) = {}
      <3>1. Used(t) \in SUBSET Buckets(t)
        BY DEF Used
      <3>2. IsFiniteSet(Used(t))
        BY <3>1, BucketsFinite
      <3>3. Cardinality(Used(t)) = 0
        BY <1>3 DEF Counted
      <3> QED BY <3>2, <3>3, FS_EmptySet
    <2>7. 0 \in Bit /\ Bit \in Word /\ p \subseteq Bit
      BY <1>1, HtableAssumption DEF Bit, Word
    <2>8. PerfectMask(w) \subseteq w.mask
      BY <2>4 DEF PerfectMask
    <2>9. Words(w)
      BY <2>2, <2>3, <2>4, <2>5, <2>7, <2>8 DEF Words
    <2>10. Chain(w)
      BY <2>5, <2>6 DEF Chain
    <2>11. p \cap w.mask = w.common
      BY <2>4, <2>7
    <2>12. Updated(t, w, p)
      BY <2>4, <2>5, <2>6, <2>9, <2>10, <2>11 DEF Updated, Keeps
    <2> QED BY <2>1, <2>12
  <1>4. CASE p \cap t.mask # t.common /\ t.elems # 0
    <2> DEFINE m == Xor(t.common, p \cap t.mask)
               w == FixTable(t, m)
    <2>1. u = w
      BY <1>4 DEF UpdateCommon
    <2>2. m \subseteq t.mask
      BY DEF Xor, Words
    <2>3. Known(t)
      BY ChainKnown
    <2>4. PICK d : m \subseteq d /\ d \subseteq t.mask /\ Fixed(t, w, d)
      <3> HIDE DEF m
      <3> QED BY <2>2, <2>3, FixTableFact
    <2> HIDE DEF w
    <2>5. Chain(w) /\ Buckets(w) = Buckets(t)
      BY <2>4, FixedChain
    <2>6. p \cap w.mask = w.common
      <3>1. w.mask = t.mask \ d /\ w.common = t.common \ d
        BY <2>4 DEF Fixed, GivesBack
      <3>2. t.common \subseteq t.mask
        BY DEF Words
      <3> QED BY <2>4, <3>1, <3>2 DEF Xor
    <2>7. Updated(t, w, p)
      BY <2>4, <2>5, <2>6 DEF Updated, Fixed
    <2> QED BY <2>1, <2>7
  <1> QED BY <1>2, <1>3, <1>4

\* t with other counters.
Retold(t, e, d, l, hp) ==
  [bits |-> t.bits, perfect |-> t.perfect, elems |-> e, deleted |-> d, locked |-> l,
   mask |-> t.mask, common |-> t.common, table |-> t.table, heap |-> hp]

\* w is t with its own counters.
Recounted(t, w) ==
  /\ w = Retold(t, w.elems, w.deleted, w.locked, w.heap)
  /\ w.elems \in Nat /\ w.deleted \in Nat /\ w.locked \in Nat /\ w.heap \in BOOLEAN

\* The buckets of w are those of t.
Reread(t, w) ==
  /\ Used(w) = Used(t) /\ Buckets(w) = Buckets(t) /\ Max7(w) = Max7(t)
  /\ Markers(w) = Markers(t) /\ (\A Q : Hits(w, Q) = Hits(t, Q))
  /\ Chain(t) => Chain(w)
  /\ w.bits = t.bits /\ w.table = t.table
  /\ w.mask = t.mask /\ w.common = t.common /\ w.perfect = t.perfect
  /\ \A x : Raw(w, x) = Raw(t, x)

\* Counters have no part in what the buckets hold.
LEMMA RetoldFact ==
  ASSUME NEW t, Words(t), NEW w, Recounted(t, w)
  PROVE  Words(w) /\ Reread(t, w)
  <1>1. /\ w.bits = t.bits /\ w.table = t.table
        /\ w.mask = t.mask /\ w.common = t.common /\ w.perfect = t.perfect
    BY DEF Retold, Recounted
  <1>2. Buckets(w) = Buckets(t) /\ Size(w) = Size(t) /\ PerfectMask(w) = PerfectMask(t)
    BY <1>1 DEF Buckets, Size, PerfectMask
  <1>3. /\ Used(w) = Used(t) /\ Markers(w) = Markers(t) /\ Max7(w) = Max7(t)
    BY <1>1, <1>2 DEF Used, Markers, Max7
  <1>4. \A x : Raw(w, x) = Raw(t, x) /\ Extra(w, x) = Extra(t, x)
    BY <1>1 DEF Raw, Extra
  <1>5. \A h, k : Probe(w, h, k) = Probe(t, h, k) /\ Mark(w, h, k) = Mark(t, h, k)
    BY <1>1, <1>2 DEF Probe, HashBucket, Mark, HashBits
  <1>6. Words(w)
    <2>1. /\ t.bits \in 0 .. MaxBits /\ t.perfect \in Bit
          /\ t.table \in [Buckets(t) -> Word]
          /\ t.mask \in Word /\ t.common \subseteq t.mask /\ PerfectMask(t) \subseteq t.mask
      BY DEF Words
    <2>2. w = [bits |-> w.bits, perfect |-> w.perfect, elems |-> w.elems,
               deleted |-> w.deleted, locked |-> w.locked, mask |-> w.mask,
               common |-> w.common, table |-> w.table, heap |-> w.heap]
      BY <1>1 DEF Retold, Recounted
    <2> QED BY <1>1, <1>2, <2>1, <2>2 DEF Words, Recounted
  <1>7. \A Q : Hits(w, Q) = Hits(t, Q)
    BY <1>1, <1>3, <1>4 DEF Hits
  <1>8. ASSUME Chain(t) PROVE Chain(w)
    BY <1>1, <1>2, <1>3, <1>4, <1>5, <1>8 DEF Chain, At, Path
  <1> QED BY <1>1, <1>2, <1>3, <1>4, <1>6, <1>7, <1>8 DEF Reread

\* The counters that the calls write.
LEMMA Excepts ==
  ASSUME NEW t, Words(t)
  PROVE  /\ \A e : [t EXCEPT !.elems = e] = Retold(t, e, t.deleted, t.locked, t.heap)
         /\ \A d : [t EXCEPT !.deleted = d] = Retold(t, t.elems, d, t.locked, t.heap)
         /\ \A l : [t EXCEPT !.locked = l] = Retold(t, t.elems, t.deleted, l, t.heap)
  <1>1. t = [bits |-> t.bits, perfect |-> t.perfect, elems |-> t.elems,
             deleted |-> t.deleted, locked |-> t.locked, mask |-> t.mask,
             common |-> t.common, table |-> t.table, heap |-> t.heap]
    BY DEF Words
  <1>2. ASSUME NEW e, NEW u, u = [t EXCEPT !.elems = e]
        PROVE  u = Retold(t, e, t.deleted, t.locked, t.heap)
    BY <1>1, <1>2 DEF Retold
  <1>3. ASSUME NEW e, NEW u, u = [t EXCEPT !.deleted = e]
        PROVE  u = Retold(t, t.elems, e, t.locked, t.heap)
    BY <1>1, <1>3 DEF Retold
  <1>4. ASSUME NEW e, NEW u, u = [t EXCEPT !.locked = e]
        PROVE  u = Retold(t, t.elems, t.deleted, e, t.heap)
    BY <1>1, <1>4 DEF Retold
  <1> QED BY <1>2, <1>3, <1>4

\* What htable_copy writes.
LEMMA ExceptsCopy ==
  ASSUME NEW t, Words(t), NEW l, NEW hp, NEW u, u = [t EXCEPT !.locked = l, !.heap = hp]
  PROVE  u = Retold(t, t.elems, t.deleted, l, hp)
  <1>1. t = [bits |-> t.bits, perfect |-> t.perfect, elems |-> t.elems,
             deleted |-> t.deleted, locked |-> t.locked, mask |-> t.mask,
             common |-> t.common, table |-> t.table, heap |-> t.heap]
    BY DEF Words
  <1> QED BY <1>1 DEF Retold

\* update_common changes no count.
LEMMA UpdatedCounts ==
  ASSUME NEW t, Words(t), NEW u, NEW p, Updated(t, u, p)
  PROVE  /\ Markers(u) = Markers(t) /\ (\A Q : Hits(u, Q) = Hits(t, Q))
         /\ Counted(t) => Counted(u)
         /\ Max7(u) = Max7(t)
  <1>1. /\ Used(u) = Used(t) /\ Buckets(u) = Buckets(t) /\ Keeps(t, u)
        /\ \A i \in Used(t) : Raw(u, u.table[i]) = Raw(t, t.table[i])
        /\ \A i \in Buckets(t) \ Used(t) : u.table[i] = t.table[i]
    BY DEF Updated
  <1>2. Markers(u) = Markers(t)
    <2>1. ASSUME NEW i \in Buckets(t) PROVE u.table[i] = Deleted <=> t.table[i] = Deleted
      <3>1. CASE i \in Used(t)
        BY <1>1, <3>1 DEF Used, Valid
      <3>2. CASE i \notin Used(t)
        BY <1>1, <3>2
      <3> QED BY <3>1, <3>2
    <2> QED BY <1>1, <2>1 DEF Markers
  <1>3. \A Q : Hits(u, Q) = Hits(t, Q)
    BY <1>1 DEF Hits
  <1>4. Max7(u) = Max7(t)
    BY <1>1 DEF Max7, Size, Keeps
  <1>5. ASSUME Counted(t) PROVE Counted(u)
    BY <1>1, <1>2, <1>5 DEF Counted, Keeps
  <1> QED BY <1>2, <1>3, <1>4, <1>5

\* w is t with p added.
Grown(t, w, p) ==
  /\ Sound(w)
  /\ w.elems = t.elems + 1 /\ w.locked = t.locked /\ w.bits = t.bits /\ w.heap = t.heap
  /\ \A Q : Cardinality(Hits(w, Q)) = Cardinality(Hits(t, Q)) + (IF p \in Q THEN 1 ELSE 0)

\* The rest of htable_add adds p to a table that has room for it.
LEMMA AddToFact ==
  ASSUME NEW t, Words(t), Chain(t), Counted(t), ~t.heap => t.bits = 0,
         t.elems + 1 + t.deleted <= Max7(t), NEW p \in Ptr
  PROVE  Grown(t, [HtAdd(UpdateCommon(t, p), p, hash[p]) EXCEPT !.elems = @ + 1], p)
  <1> DEFINE u == UpdateCommon(t, p)
             v == HtAdd(u, p, hash[p])
             w == [v EXCEPT !.elems = v.elems + 1]
  <1>1. Updated(t, u, p)
    BY UpdateFact
  <1> HIDE DEF u
  <1>2. Words(u) /\ Chain(u) /\ Keeps(t, u) /\ p \cap u.mask = u.common
    BY <1>1 DEF Updated
  <1>3. /\ Markers(u) = Markers(t) /\ (\A Q : Hits(u, Q) = Hits(t, Q))
        /\ Counted(u) /\ Max7(u) = Max7(t)
    BY <1>1, UpdatedCounts
  <1>4. /\ t.elems \in Nat /\ t.deleted \in Nat /\ t.locked \in Nat /\ Max7(t) \in Int
        /\ t.heap \in BOOLEAN
    BY Sizes DEF Words, Max7
  <1>5. u.elems + u.deleted <= Max7(u)
    BY <1>2, <1>3, <1>4 DEF Keeps
  <1>6. Used(u) # Buckets(u)
    BY <1>2, <1>3, <1>5, Room
  <1>7. Added(u, v, p)
    BY <1>2, <1>6, HtAddFact
  <1> HIDE DEF v
  <1>8. Words(v) /\ Chain(v) /\ Keeps(u, v)
    BY <1>7 DEF Added
  <1>9. /\ Cardinality(Used(v)) = Cardinality(Used(u)) + 1
        /\ \A Q : Cardinality(Hits(v, Q)) = Cardinality(Hits(u, Q)) + (IF p \in Q THEN 1 ELSE 0)
        /\ Markers(v) \subseteq Markers(u)
        /\ Buckets(v) = Buckets(u) /\ Size(v) = Size(u)
    BY <1>2, <1>7, AddedCounts
  <1>10. /\ v.elems = t.elems /\ v.deleted = t.deleted /\ v.locked = t.locked
         /\ v.heap = t.heap /\ v.bits = t.bits
    BY <1>2, <1>8 DEF Keeps
  <1>11. w = Retold(v, v.elems + 1, v.deleted, v.locked, v.heap)
    BY <1>8, Excepts
  <1> HIDE DEF w
  <1>12. v.elems + 1 \in Nat
    BY <1>4, <1>10
  <1>13. v.deleted \in Nat /\ v.locked \in Nat /\ v.heap \in BOOLEAN
    BY <1>4, <1>10
  <1>14. /\ Words(w) /\ Used(w) = Used(v) /\ Max7(w) = Max7(v)
         /\ Markers(w) = Markers(v) /\ (\A Q : Hits(w, Q) = Hits(v, Q))
         /\ Chain(w)
         /\ w.elems = v.elems + 1 /\ w.deleted = v.deleted /\ w.locked = v.locked
         /\ w.heap = v.heap /\ w.bits = v.bits
    <2>1. /\ w.elems = v.elems + 1 /\ w.deleted = v.deleted /\ w.locked = v.locked
          /\ w.heap = v.heap
      BY <1>11 DEF Retold
    <2>2. Recounted(v, w)
      BY <1>11, <1>12, <1>13, <2>1 DEF Recounted
    <2>3. Words(w) /\ Reread(v, w)
      BY <1>8, <2>2, RetoldFact
    <2> QED BY <1>8, <2>1, <2>3 DEF Reread
  <1>15. Max7(v) = Max7(t)
    BY <1>10 DEF Max7, Size
  <1>16. Counted(w)
    <2>1. Markers(u) \in SUBSET Buckets(u)
      BY DEF Markers
    <2>2. IsFiniteSet(Markers(u)) /\ Cardinality(Markers(u)) \in Nat
      BY <1>2, <2>1, BucketsFinite
    <2>3. Cardinality(Markers(v)) <= Cardinality(Markers(u)) /\ IsFiniteSet(Markers(v))
      BY <1>9, <2>2, FS_Subset
    <2>4. Cardinality(Markers(v)) \in Nat
      BY <2>3, FS_CardinalityType
    <2>5. Cardinality(Used(u)) = t.elems /\ Cardinality(Markers(u)) <= t.deleted
      BY <1>2, <1>3 DEF Counted, Keeps
    <2>6. Cardinality(Used(w)) = w.elems
      BY <1>9, <1>10, <1>14, <2>5
    <2>7. Cardinality(Markers(w)) <= w.deleted
      BY <1>4, <1>10, <1>14, <2>2, <2>3, <2>4, <2>5
    <2> QED BY <2>6, <2>7 DEF Counted
  <1>17. w.elems + w.deleted <= Max7(w)
    BY <1>4, <1>10, <1>14, <1>15
  <1>18. Sound(w)
    BY <1>10, <1>14, <1>16, <1>17 DEF Sound
  <1>19. \A Q : Cardinality(Hits(w, Q)) = Cardinality(Hits(t, Q)) + (IF p \in Q THEN 1 ELSE 0)
    BY <1>3, <1>9, <1>14
  <1>20. Grown(t, w, p)
    BY <1>10, <1>14, <1>18, <1>19 DEF Grown
  <1> QED BY <1>20 DEF u, v, w

-----------------------------------------------------------------------------
(* rehash_table *)

\* How far bucket i is from the one that rehash_table starts with.
Pos(t, s, i) == IF i >= s THEN i - s ELSE i - s + Size(t)

\* rehash_table visits the buckets in that order.
LEMMA PosFact ==
  ASSUME NEW t, Words(t), NEW s \in Buckets(t)
  PROVE  /\ \A i \in Buckets(t) : Pos(t, s, i) \in Buckets(t)
         /\ \A i, j \in Buckets(t) : Pos(t, s, i) = Pos(t, s, j) => i = j
         /\ Pos(t, s, s) = 0
         /\ \A n \in 1 .. Size(t) : /\ ((s + n - 1) % Size(t)) \in Buckets(t)
                                    /\ Pos(t, s, (s + n - 1) % Size(t)) = n - 1
  <1> DEFINE S == Size(t)
  <1>1. S \in Nat /\ S >= 1 /\ Buckets(t) = 0 .. S - 1
    BY Sizes
  <1>2. \A i : Pos(t, s, i) = IF i >= s THEN i - s ELSE i - s + S
    BY DEF Pos
  <1>3. ASSUME NEW n \in 1 .. S
        PROVE  ((s + n - 1) % S) \in Buckets(t) /\ Pos(t, s, (s + n - 1) % S) = n - 1
    <2> DEFINE a == s + n - 1
    <2>1. a \in 0 .. 2 * S - 1 /\ s \in 0 .. S - 1
      <3> HIDE DEF S
      <3> QED BY <1>1
    <2> HIDE DEF S
    <2>2. (a % S) = IF a < S THEN a ELSE a - S
      <3> HIDE DEF a
      <3> QED BY ONLY <1>1, <2>1, ModOnce
    <2>3. CASE a < S
      <3>1. (a % S) = a
        BY <2>2, <2>3
      <3>2. a \in 0 .. S - 1 /\ a >= s /\ a - s = n - 1
        BY <1>1, <2>1, <2>3
      <3> HIDE DEF a
      <3>3. (a % S) \in Buckets(t) /\ Pos(t, s, a % S) = n - 1
        BY <1>1, <1>2, <3>1, <3>2
      <3> QED BY <3>3 DEF a
    <2>4. CASE ~(a < S)
      <3>1. (a % S) = a - S
        BY <2>2, <2>4
      <3>2. a - S \in 0 .. S - 1 /\ ~(a - S >= s) /\ a - S - s + S = n - 1
        BY <1>1, <2>1, <2>4
      <3> HIDE DEF a
      <3>3. (a % S) \in Buckets(t) /\ Pos(t, s, a % S) = n - 1
        BY <1>1, <1>2, <3>1, <3>2
      <3> QED BY <3>3 DEF a
    <2> QED BY <2>3, <2>4
  <1> HIDE DEF S
  <1>4. \A i \in Buckets(t) : Pos(t, s, i) \in Buckets(t)
    BY <1>1, <1>2
  <1>5. \A i, j \in Buckets(t) : Pos(t, s, i) = Pos(t, s, j) => i = j
    BY <1>1, <1>2
  <1>6. Pos(t, s, s) = 0
    BY <1>1, <1>2
  <1> QED BY <1>3, <1>4, <1>5, <1>6 DEF S

\* The buckets before one that is found without passing the start.
LEMMA PosProbe ==
  ASSUME NEW t, Words(t), NEW s \in Buckets(t), NEW h, NEW k \in Buckets(t),
         k < Pos(t, s, Probe(t, h, k)), NEW j \in 0 .. k
  PROVE  /\ Probe(t, h, j) \in Buckets(t)
         /\ Pos(t, s, Probe(t, h, j)) = Pos(t, s, Probe(t, h, k)) - k + j
  <1> DEFINE S == Size(t)
             a == HashBucket(t, h)
  <1>1. S \in Nat /\ S >= 1 /\ Buckets(t) = 0 .. S - 1
    BY Sizes
  <1>2. \A i : Pos(t, s, i) = IF i >= s THEN i - s ELSE i - s + S
    BY DEF Pos
  <1>3. j \in Buckets(t)
    <2> HIDE DEF S
    <2> QED BY <1>1
  <1>4. /\ a \in Buckets(t) /\ Probe(t, h, j) \in Buckets(t)
        /\ Probe(t, h, j) = IF a + j < S THEN a + j ELSE a + j - S
        /\ Probe(t, h, k) = IF a + k < S THEN a + k ELSE a + k - S
    BY <1>3, ProbeFact
  <1> DEFINE x == Probe(t, h, j)
             y == Probe(t, h, k)
  <1>5. /\ x = IF a + j < S THEN a + j ELSE a + j - S
        /\ y = IF a + k < S THEN a + k ELSE a + k - S
        /\ k < Pos(t, s, y)
    BY <1>4
  <1> HIDE DEF S, a, x, y
  <1>6. a \in 0 .. S - 1 /\ s \in 0 .. S - 1 /\ k \in 0 .. S - 1 /\ j \in 0 .. k
    BY <1>1, <1>4
  <1>7. Pos(t, s, x) = Pos(t, s, y) - k + j
    BY ONLY <1>1, <1>2, <1>5, <1>6
  <1> QED BY <1>4, <1>7 DEF x, y

\* Entry i of u can be found, if rehash_table has come to it in its turn n.
Placed(t, s, n, u, i) ==
  \E k \in Buckets(t) :
    /\ At(u, i, k) /\ k < Pos(t, s, i)
    /\ Pos(t, s, i) < n => Path(u, Raw(u, u.table[i]), k)

\* u is t after n turns of rehash_table.
Sifted(t, s, n, u) ==
  /\ Words(u) /\ Alike(t, u)
  /\ \A i \in Used(u) : Placed(t, s, n, u, i)
  /\ \A i \in Buckets(t) : Pos(t, s, i) < n => u.table[i] # Deleted
  /\ \A Q : Cardinality(Hits(u, Q)) = Cardinality(Hits(t, Q))

\* A turn at bucket i leaves the other entries found.
LEMMA SiftOthers ==
  ASSUME NEW t, Words(t), NEW s \in Buckets(t), NEW n \in Nat, NEW i \in Buckets(t),
         Pos(t, s, i) = n, NEW u, Sifted(t, s, n, u), NEW v, Words(v), Alike(t, v),
         \A y \in Buckets(t) : y # i /\ u.table[y] # Empty => v.table[y] # Empty,
         NEW x \in Used(u), x # i, v.table[x] = u.table[x]
  PROVE  Placed(t, s, n + 1, v, x)
  <1>1. Words(u) /\ Alike(t, u)
    BY DEF Sifted
  <1>2. /\ Buckets(u) = Buckets(t)
        /\ \A e : Raw(u, e) = Raw(t, e) /\ Extra(u, e) = Extra(t, e)
        /\ \A h, k : Probe(u, h, k) = Probe(t, h, k) /\ Mark(u, h, k) = Mark(t, h, k)
    BY <1>1, AlikeOps
  <1>3. /\ Buckets(v) = Buckets(t)
        /\ \A e : Raw(v, e) = Raw(t, e) /\ Extra(v, e) = Extra(t, e)
        /\ \A h, k : Probe(v, h, k) = Probe(t, h, k) /\ Mark(v, h, k) = Mark(t, h, k)
    BY AlikeOps
  <1>4. PICK k \in Buckets(t) :
          /\ At(u, x, k) /\ k < Pos(t, s, x)
          /\ Pos(t, s, x) < n => Path(u, Raw(u, u.table[x]), k)
    BY DEF Sifted, Placed
  <1> DEFINE q == Raw(u, u.table[x])
             h == hash[q]
  <1>5. q = Raw(v, v.table[x])
    BY <1>2, <1>3
  <1>6. At(v, x, k)
    BY <1>2, <1>3, <1>4, <1>5 DEF At
  <1>7. ASSUME Pos(t, s, x) < n + 1 PROVE Path(v, Raw(v, v.table[x]), k)
    <2>1. x \in Buckets(t) /\ Pos(t, s, x) \in Buckets(t) /\ Pos(t, s, x) # n
      BY <1>2, PosFact DEF Used
    <2>2. Pos(t, s, x) < n /\ Pos(t, s, x) \in Nat
      BY <1>7, <2>1, Sizes
    <2>3. Path(u, q, k) /\ x = Probe(t, h, k)
      BY <1>2, <1>4, <2>2 DEF At
    <2>4. ASSUME NEW j \in 0 .. k - 1 PROVE v.table[Probe(v, h, j)] # Empty
      <3> DEFINE y == Probe(t, h, j)
      <3>1. k \in Nat /\ j \in 0 .. k /\ j < k /\ j \in Nat
        BY Sizes
      <3>2. y \in Buckets(t) /\ Pos(t, s, y) = Pos(t, s, x) - k + j
        <4>1. k < Pos(t, s, Probe(t, h, k))
          BY <1>4, <2>3
        <4> HIDE DEF h
        <4>2. y \in Buckets(t) /\ Pos(t, s, y) = Pos(t, s, Probe(t, h, k)) - k + j
          BY ONLY Words(t), s \in Buckets(t), k \in Buckets(t), <3>1, <4>1, PosProbe
        <4> QED BY <2>3, <4>2
      <3>3. y # i
        BY <2>2, <3>1, <3>2
      <3>4. u.table[y] # Empty
        BY <1>2, <2>3 DEF Path
      <3> QED BY <1>3, <3>2, <3>3, <3>4
    <2> QED BY <1>5, <2>4 DEF Path
  <1> QED BY <1>4, <1>6, <1>7 DEF Placed

\* Counting without bucket i.
LEMMA PutEmptyHits ==
  ASSUME NEW u, Words(u), NEW i \in Buckets(u), NEW c, c = Put(u, i, Empty)
  PROVE  \A Q : Hits(c, Q) = Hits(u, Q) \ {i}
  <1>1. Empty \in Word /\ ~Valid(Empty)
    BY DEF Empty, Word, Valid
  <1>2. /\ Alike(u, c) /\ (\A j \in Buckets(u) : j # i => c.table[j] = u.table[j])
        /\ Used(c) = Used(u) \ {i}
    BY <1>1, PutFact
  <1>3. \A e : Raw(c, e) = Raw(u, e)
    BY <1>2, AlikeOps
  <1>4. Used(u) \subseteq Buckets(u)
    BY DEF Used
  <1> QED BY <1>2, <1>3, <1>4 DEF Hits

\* An entry that is put back at once is put no further, and is valid.
LEMMA PutBack ==
  ASSUME NEW u, Words(u), NEW i \in Used(u), NEW k \in Buckets(u), At(u, i, k),
         NEW c, c = Put(u, i, Empty), NEW p, p = Raw(u, u.table[i]), NEW h, h = hash[p]
  PROVE  /\ Distance(c, h) \in 0 .. k
         /\ Valid(Entry(c, p, h)) /\ Entry(c, p, h) \in Word
         /\ Raw(c, Entry(c, p, h)) = p
         /\ Extra(c, Entry(c, p, h)) = Mark(c, h, Distance(c, h))
         /\ Probe(c, h, Distance(c, h)) \in Buckets(u) \ Used(c)
         /\ \A j \in 0 .. Distance(c, h) - 1 : Probe(c, h, j) \in Used(c)
  <1> DEFINE e == u.table[i]
             d == Distance(c, h)
             f == Entry(c, p, h)
  <1>1. Empty \in Word /\ ~Valid(Empty)
    BY DEF Empty, Word, Valid
  <1>2. i \in Buckets(u) /\ Valid(e) /\ e \in Word
    BY DEF Used, Words
  <1>3. Words(c) /\ Alike(u, c) /\ Used(c) = Used(u) \ {i}
    BY <1>1, <1>2, PutFact
  <1>4. /\ Buckets(c) = Buckets(u) /\ PerfectMask(c) = PerfectMask(u)
        /\ \A x : Raw(c, x) = Raw(u, x) /\ Extra(c, x) = Extra(u, x)
        /\ \A g, j : Probe(c, g, j) = Probe(u, g, j) /\ Mark(c, g, j) = Mark(u, g, j)
    BY <1>3, AlikeOps
  <1>5. p \in Ptr /\ i = Probe(u, h, k) /\ Extra(u, e) = Mark(u, h, k)
    BY DEF At
  <1>6. Used(c) # Buckets(c)
    BY <1>2, <1>3, <1>4
  <1>7. /\ d \in Buckets(c) /\ Probe(c, h, d) \in Buckets(c) \ Used(c)
        /\ \A j \in Buckets(c) : j < d => Probe(c, h, j) \in Used(c)
        /\ \A j \in Buckets(c) : Probe(c, h, j) \notin Used(c) => d <= j
    BY <1>3, <1>6, DistanceFact
  <1>8. Buckets(u) = 0 .. Size(u) - 1 /\ Size(u) \in Nat
    BY Sizes
  <1>9. d <= k
    BY <1>3, <1>4, <1>5, <1>7
  <1>10. d \in 0 .. k
    BY <1>4, <1>7, <1>8, <1>9
  <1>11. \A j \in 0 .. d - 1 : Probe(c, h, j) \in Used(c)
    BY <1>4, <1>7, <1>8
  <1>12. p \cap c.mask = c.common
    BY <1>2, <1>3, Decode DEF Alike
  <1>13. /\ f \in Word /\ Raw(c, f) = p /\ Extra(c, f) = Mark(c, h, d)
         /\ \A b \in p \ c.mask : b \in f
    BY <1>3, <1>5, <1>12, EntryFact
  <1>14. Mark(u, h, k) \subseteq Mark(c, h, d)
    <2>1. k = 0 => d = 0
      BY <1>10
    <2> QED BY <1>4, <2>1 DEF Mark
  <1>15. \A b \in e : b \in f
    <2>1. c.mask = u.mask
      BY <1>3 DEF Alike
    <2> HIDE DEF f, d, e
    <2>2. ASSUME NEW b \in e, b \in u.mask PROVE b \in f
      BY <1>5, <1>13, <1>14, <2>1, <2>2 DEF Extra
    <2>3. ASSUME NEW b \in e, b \notin u.mask PROVE b \in f
      BY <1>13, <2>1, <2>3 DEF Raw, e
    <2> QED BY <2>2, <2>3
  <1>16. Valid(f)
    BY <1>2, <1>13, <1>15, ValidBit
  <1> QED BY <1>4, <1>7, <1>10, <1>11, <1>13, <1>16

\* Turn n + 1 of rehash_table.
LEMMA RehashStep ==
  ASSUME NEW t, Words(t), NEW s \in Buckets(t), NEW n \in Nat, NEW i \in Buckets(t),
         Pos(t, s, i) = n, NEW u, Sifted(t, s, n, u)
  PROVE  Sifted(t, s, n + 1, RehashBucket(u, i, PerfectMask(t)))
  <1> DEFINE e == u.table[i]
             c == Put(u, i, Empty)
             P == PerfectMask(t)
  <1>1. /\ Words(u) /\ Alike(t, u)
        /\ \A x \in Used(u) : Placed(t, s, n, u, x)
        /\ \A x \in Buckets(t) : Pos(t, s, x) < n => u.table[x] # Deleted
        /\ \A Q : Cardinality(Hits(u, Q)) = Cardinality(Hits(t, Q))
    BY DEF Sifted
  <1>2. /\ Buckets(u) = Buckets(t) /\ PerfectMask(u) = PerfectMask(t)
        /\ \A x : Raw(u, x) = Raw(t, x) /\ Extra(u, x) = Extra(t, x)
        /\ \A g, j : Probe(u, g, j) = Probe(t, g, j) /\ Mark(u, g, j) = Mark(t, g, j)
    BY <1>1, AlikeOps
  <1>3. ASSUME NEW x \in Buckets(t), Pos(t, s, x) < n + 1 PROVE x = i \/ Pos(t, s, x) < n
    <2>1. Pos(t, s, x) \in Nat
      BY PosFact, Sizes
    <2>2. Pos(t, s, x) = n => x = i
      BY PosFact
    <2> QED BY <1>3, <2>1, <2>2
  <1>4. Used(u) \subseteq Buckets(t)
    BY <1>2 DEF Used
  <1>5. Empty \in Word /\ ~Valid(Empty) /\ Empty # Deleted
    BY DEF Empty, Word, Valid, Deleted
  <1>6. /\ Words(c) /\ Alike(u, c) /\ Used(c) = Used(u) \ {i} /\ c.table[i] = Empty
        /\ \A j \in Buckets(t) : j # i => c.table[j] = u.table[j]
    <2>1. i \in Buckets(u)
      BY <1>2
    <2> HIDE DEF c
    <2>2. c = Put(u, i, Empty)
      BY DEF c
    <2> QED BY <1>1, <1>2, <1>5, <2>1, <2>2, PutFact
  <1>7. \A Q : Hits(c, Q) = Hits(u, Q) \ {i}
    <2>1. c = Put(u, i, Empty) /\ i \in Buckets(u)
      BY <1>2
    <2> HIDE DEF c
    <2> QED BY <1>1, <2>1, PutEmptyHits
  <1>8. CASE e = Empty \/ (Valid(e) /\ e \cap P # {})
    <2>1. RehashBucket(u, i, P) = u
      <3>1. e # Deleted
        BY <1>5, <1>8 DEF Valid
      <3> QED BY <1>8, <3>1 DEF RehashBucket
    <2>2. ASSUME NEW x \in Used(u), x # i PROVE Placed(t, s, n + 1, u, x)
      BY <1>1, <2>2, SiftOthers
    <2>3. ASSUME i \in Used(u) PROVE Placed(t, s, n + 1, u, i)
      <3>1. PICK k \in Buckets(t) : At(u, i, k) /\ k < Pos(t, s, i)
        BY <1>1, <2>3 DEF Placed
      <3>2. Valid(e) /\ e \cap P # {}
        BY <1>5, <1>8, <2>3 DEF Used
      <3>3. k = 0
        <4>1. Extra(u, e) = Mark(u, hash[Raw(u, e)], k)
          BY <3>1 DEF At
        <4>2. P \subseteq u.mask
          BY <1>1, <1>2 DEF Words
        <4>3. PICK b \in P : b \in Extra(u, e)
          BY <3>2, <4>2 DEF Extra
        <4>4. b \notin HashBits(u, hash[Raw(u, e)])
          BY <1>2, <4>3 DEF HashBits
        <4> QED BY <4>1, <4>3, <4>4 DEF Mark
      <3>4. Path(u, Raw(u, u.table[i]), 0)
        BY DEF Path
      <3> QED BY <3>1, <3>3, <3>4 DEF Placed
    <2>4. ASSUME NEW x \in Buckets(t), Pos(t, s, x) < n + 1 PROVE u.table[x] # Deleted
      BY <1>1, <1>3, <1>5, <1>8, <2>4 DEF Valid
    <2>5. Sifted(t, s, n + 1, u)
      BY <1>1, <2>2, <2>3, <2>4 DEF Sifted
    <2> QED BY <2>1, <2>5
  <1>9. CASE e = Deleted
    <2>1. RehashBucket(u, i, P) = c
      BY <1>5, <1>9 DEF RehashBucket, Put, Valid
    <2>2. i \notin Used(u)
      BY <1>9 DEF Used, Valid
    <2>3. Alike(t, c)
      BY <1>1, <1>6 DEF Alike, Keeps
    <2>4. ASSUME NEW x \in Used(u) PROVE Placed(t, s, n + 1, c, x)
      <3>1. x # i /\ c.table[x] = u.table[x]
        BY <1>4, <1>6, <2>2
      <3>2. \A y \in Buckets(t) : y # i /\ u.table[y] # Empty => c.table[y] # Empty
        BY <1>6
      <3> HIDE DEF c
      <3> QED BY <1>6, <2>3, <3>1, <3>2, SiftOthers
    <2>5. Used(c) = Used(u)
      BY <1>6, <2>2
    <2>6. ASSUME NEW x \in Buckets(t), Pos(t, s, x) < n + 1 PROVE c.table[x] # Deleted
      BY <1>1, <1>3, <1>5, <1>6, <2>6
    <2>7. \A Q : Hits(c, Q) = Hits(u, Q)
      BY <1>7, <2>2 DEF Hits
    <2>8. Sifted(t, s, n + 1, c)
      <3> HIDE DEF c
      <3> QED BY <1>1, <1>6, <2>3, <2>4, <2>5, <2>6, <2>7 DEF Sifted
    <2> QED BY <2>1, <2>8
  <1>10. CASE e # Empty /\ e # Deleted /\ e \cap P = {}
    <2> DEFINE p == Raw(u, e)
               h == hash[p]
               d == Distance(c, h)
               f == Entry(c, p, h)
               y == Probe(c, h, d)
               v == HtAdd(c, p, h)
    <2>1. Valid(e) /\ i \in Used(u)
      BY <1>2, <1>10 DEF Valid, Used
    <2>2. RehashBucket(u, i, P) = v
      BY <1>10, <2>1 DEF RehashBucket, Put
    <2>3. PICK k \in Buckets(t) : At(u, i, k) /\ k < Pos(t, s, i)
      BY <1>1, <2>1 DEF Placed
    <2>4. /\ d \in 0 .. k /\ Valid(f) /\ f \in Word /\ Raw(c, f) = p
          /\ Extra(c, f) = Mark(c, h, d) /\ y \in Buckets(u) \ Used(c)
          /\ \A j \in 0 .. d - 1 : Probe(c, h, j) \in Used(c)
      <3>1. c = Put(u, i, Empty) /\ p = Raw(u, u.table[i]) /\ h = hash[p] /\ k \in Buckets(u)
        BY <1>2
      <3> HIDE DEF c, p, h
      <3> QED BY ONLY <1>1, <2>1, <2>3, <3>1, PutBack DEF d, f, y
    <2>5. v = Put(c, y, f)
      BY <2>4 DEF HtAdd, Place, Put
    <2> HIDE DEF v, f, c, y
    <2>6. /\ Buckets(c) = Buckets(t)
          /\ \A x : Raw(c, x) = Raw(u, x) /\ Extra(c, x) = Extra(u, x)
          /\ \A g, j : Probe(c, g, j) = Probe(u, g, j) /\ Mark(c, g, j) = Mark(u, g, j)
      BY <1>2, <1>6, AlikeOps
    <2>7. /\ Words(v) /\ Alike(c, v) /\ v.table[y] = f /\ Used(v) = Used(c) \cup {y}
          /\ \A j \in Buckets(t) : j # y => v.table[j] = c.table[j]
      <3>1. y \in Buckets(c) /\ f \in Word /\ Valid(f)
        BY <1>2, <2>4, <2>6
      <3>2. /\ Words(v) /\ Alike(c, v)
            /\ v.table[y] = f /\ \A j \in Buckets(c) : j # y => v.table[j] = c.table[j]
            /\ Used(v) = (IF Valid(f) THEN Used(c) \cup {y} ELSE Used(c) \ {y})
        BY ONLY <1>6, <2>5, <3>1, PutFact
      <3> QED BY <2>6, <3>1, <3>2
    <2>8. Alike(t, v)
      BY <1>1, <1>6, <2>7 DEF Alike, Keeps
    <2>9. /\ Buckets(v) = Buckets(t)
          /\ \A x : Raw(v, x) = Raw(t, x) /\ Extra(v, x) = Extra(t, x)
          /\ \A g, j : Probe(v, g, j) = Probe(t, g, j) /\ Mark(v, g, j) = Mark(t, g, j)
      BY <2>8, AlikeOps
    <2>10. p \in Ptr /\ i = Probe(t, h, k) /\ y = Probe(t, h, d)
      BY <1>2, <2>3, <2>6 DEF At, y
    <2>11. y \in Buckets(t) /\ Pos(t, s, y) = Pos(t, s, i) - k + d
      <3>1. k < Pos(t, s, Probe(t, h, k)) /\ d \in 0 .. k
        BY <2>3, <2>4, <2>10
      <3> HIDE DEF h, d
      <3>2. /\ Probe(t, h, d) \in Buckets(t)
            /\ Pos(t, s, Probe(t, h, d)) = Pos(t, s, Probe(t, h, k)) - k + d
        BY ONLY Words(t), s \in Buckets(t), k \in Buckets(t), <3>1, PosProbe
      <3> QED BY <2>10, <3>2
    <2>12. d \in Buckets(t) /\ d < Pos(t, s, y)
      BY <2>3, <2>4, <2>11, Sizes
    <2>13. Placed(t, s, n + 1, v, y)
      <3>1. Raw(v, v.table[y]) = p
        BY <1>2, <2>4, <2>6, <2>7, <2>9
      <3>2. At(v, y, d)
        BY <1>2, <2>4, <2>6, <2>7, <2>9, <2>10, <3>1 DEF At
      <3>3. ASSUME NEW j \in 0 .. d - 1 PROVE v.table[Probe(v, h, j)] # Empty
        <4>1. Probe(c, h, j) = Probe(v, h, j) /\ Probe(c, h, j) \in Used(c)
          BY <1>2, <2>4, <2>6, <2>9
        <4>2. Probe(v, h, j) \in Used(v)
          BY <2>7, <4>1
        <4> QED BY <4>2 DEF Used, Valid
      <3>4. Path(v, p, d)
        BY <3>3 DEF Path
      <3> QED BY <2>12, <3>1, <3>2, <3>4 DEF Placed
    <2>14. ASSUME NEW x \in Used(c) PROVE Placed(t, s, n + 1, v, x)
      <3>1. x # i /\ x # y /\ x \in Used(u) /\ x \in Buckets(t)
        BY <1>4, <1>6, <2>4
      <3>2. v.table[x] = u.table[x]
        BY <1>6, <2>7, <3>1
      <3>3. ASSUME NEW z \in Buckets(t), z # i, u.table[z] # Empty PROVE v.table[z] # Empty
        <4>1. CASE z = y
          BY <2>4, <2>7, <4>1 DEF Valid
        <4>2. CASE z # y
          BY <1>6, <2>7, <3>3, <4>2
        <4> QED BY <4>1, <4>2
      <3> QED BY <2>7, <2>8, <3>1, <3>2, <3>3, SiftOthers
    <2>15. \A x \in Used(v) : Placed(t, s, n + 1, v, x)
      BY <2>7, <2>13, <2>14
    <2>16. ASSUME NEW x \in Buckets(t), Pos(t, s, x) < n + 1 PROVE v.table[x] # Deleted
      <3>1. CASE x = y
        BY <2>4, <2>7, <3>1 DEF Valid
      <3>2. CASE x # y /\ x = i
        BY <1>5, <1>6, <2>7, <3>2
      <3>3. CASE x # y /\ x # i
        BY <1>1, <1>3, <1>6, <2>7, <2>16, <3>3
      <3> QED BY <3>1, <3>2, <3>3
    <2>17. ASSUME NEW Q PROVE Cardinality(Hits(v, Q)) = Cardinality(Hits(t, Q))
      <3>1. Hits(c, Q) = Hits(u, Q) \ {i} /\ Hits(u, Q) \in SUBSET Buckets(u)
        BY <1>7 DEF Hits, Used
      <3>2. IsFiniteSet(Hits(u, Q)) /\ Cardinality(Hits(u, Q)) \in Nat
        BY <1>1, <3>1, BucketsFinite
      <3>3. i \in Hits(u, Q) <=> p \in Q
        BY <2>1 DEF Hits
      <3>4. Hits(v, Q) = Hits(c, Q) \cup (IF p \in Q THEN {y} ELSE {})
        <4>1. Raw(v, v.table[y]) = p
          BY <1>2, <2>4, <2>6, <2>7, <2>9
        <4>2. Used(c) \subseteq Buckets(t) /\ y \notin Used(c)
          BY <2>4, <2>6 DEF Used
        <4>3. \A x \in Used(c) : v.table[x] = c.table[x] /\ Raw(v, v.table[x]) = Raw(c, c.table[x])
          BY <1>2, <2>6, <2>7, <2>9, <4>2
        <4> QED BY <2>7, <4>1, <4>3 DEF Hits
      <3>5. CASE p \in Q
        <4>1. IsFiniteSet(Hits(c, Q)) /\ Cardinality(Hits(c, Q)) = Cardinality(Hits(u, Q)) - 1
          BY <3>1, <3>2, <3>3, <3>5, FS_RemoveElement
        <4>2. y \notin Hits(c, Q)
          BY <2>4 DEF Hits
        <4>3. Cardinality(Hits(v, Q)) = Cardinality(Hits(c, Q)) + 1
          BY <3>4, <3>5, <4>1, <4>2, FS_AddElement
        <4> QED BY <1>1, <3>2, <4>1, <4>3
      <3>6. CASE p \notin Q
        BY <1>1, <3>1, <3>3, <3>4, <3>6
      <3> QED BY <3>5, <3>6
    <2>18. Sifted(t, s, n + 1, v)
      BY <2>7, <2>8, <2>15, <2>16, <2>17 DEF Sifted
    <2> QED BY <2>2, <2>18
  <1> QED BY <1>8, <1>9, <1>10 DEF Valid

\* Lookup that goes as far as the start from i passed the start.
LEMMA PosBack ==
  ASSUME NEW t, Words(t), NEW s \in Buckets(t), NEW h, NEW k \in Buckets(t),
         NEW n, n = Pos(t, s, Probe(t, h, k)), n <= k
  PROVE  k - n \in 0 .. k /\ Probe(t, h, k - n) = s
  <1> DEFINE S == Size(t)
             a == HashBucket(t, h)
             j == k - n
             y == Probe(t, h, k)
  <1>1. S \in Nat /\ S >= 1 /\ Buckets(t) = 0 .. S - 1
    BY Sizes
  <1>2. \A i : Pos(t, s, i) = IF i >= s THEN i - s ELSE i - s + S
    BY DEF Pos
  <1>3. a \in Buckets(t) /\ y \in Buckets(t) /\ y = IF a + k < S THEN a + k ELSE a + k - S
    BY ProbeFact
  <1>4. n = Pos(t, s, y) /\ n \in Buckets(t)
    BY <1>3, PosFact
  <1> HIDE DEF S, a, y
  <1>5. j \in 0 .. k /\ j \in Buckets(t)
    BY <1>1, <1>4
  <1>6. Probe(t, h, j) = IF a + j < S THEN a + j ELSE a + j - S
    BY <1>5, ProbeFact DEF S, a
  <1>7. (IF a + j < S THEN a + j ELSE a + j - S) = s
    <2>1. n = IF y >= s THEN y - s ELSE y - s + S
      BY <1>2, <1>4
    <2>2. /\ s \in 0 .. S - 1 /\ k \in 0 .. S - 1 /\ a \in 0 .. S - 1 /\ y \in 0 .. S - 1
          /\ n \in 0 .. S - 1
      BY <1>1, <1>3, <1>4
    <2>3. y = IF a + k < S THEN a + k ELSE a + k - S
      BY <1>3
    <2>4. S \in Nat /\ n <= k
      BY <1>1
    <2> QED BY ONLY <2>1, <2>2, <2>3, <2>4
  <1> QED BY <1>5, <1>6, <1>7

\* The start of rehash_table.
LEMMA SiftedFirst ==
  ASSUME NEW t, Words(t), Chain(t), NEW s \in Buckets(t), t.table[s] = Empty
  PROVE  Sifted(t, s, 0, t)
  <1>1. ASSUME NEW i \in Used(t) PROVE Placed(t, s, 0, t, i)
    <2> DEFINE p == Raw(t, t.table[i])
               h == hash[p]
    <2>1. PICK k \in Buckets(t) : At(t, i, k) /\ Path(t, p, k)
      BY DEF Chain
    <2>2. i \in Buckets(t) /\ i = Probe(t, h, k) /\ i # s
      BY <2>1 DEF At, Used, Valid
    <2>3. Pos(t, s, i) \in Nat /\ k \in Nat
      BY <2>2, PosFact, Sizes
    <2>4. k < Pos(t, s, i)
      <3> DEFINE n == Pos(t, s, i)
      <3>1. SUFFICES ASSUME n <= k PROVE FALSE
        BY <2>3
      <3>2. n # 0
        BY <2>2, PosFact
      <3>3. k - n \in 0 .. k /\ Probe(t, h, k - n) = s
        <4>1. n = Pos(t, s, Probe(t, h, k))
          BY <2>2
        <4> HIDE DEF n, h
        <4> QED BY ONLY Words(t), s \in Buckets(t), k \in Buckets(t), <3>1, <4>1,
                   PosBack
      <3>4. k - n \in 0 .. k - 1
        BY <2>3, <3>1, <3>2
      <3> QED BY <2>1, <3>3, <3>4 DEF Path
    <2>5. ~(Pos(t, s, i) < 0)
      BY <2>3
    <2> QED BY <2>1, <2>4, <2>5 DEF Placed
  <1>2. \A i \in Buckets(t) : ~(Pos(t, s, i) < 0)
    BY PosFact, Sizes
  <1> QED BY <1>1, <1>2 DEF Sifted, Alike, Keeps

\* The tables of 2^b buckets.
Htables(b) ==
  [bits : 0 .. MaxBits, perfect : Bit, elems : Nat, deleted : Nat, locked : Nat,
   mask : Word, common : Word, table : [0 .. Pow2[b] - 1 -> Word], heap : BOOLEAN]

\* A struct htable is such a table.
LEMMA InHtables ==
  ASSUME NEW u, Words(u)
  PROVE  u \in Htables(u.bits)
  <1>1. u.table \in [0 .. Pow2[u.bits] - 1 -> Word]
    BY DEF Words, Buckets, Size
  <1>2. u.common \in Word
    BY DEF Words, Word
  <1> QED BY <1>1, <1>2 DEF Words, Htables

\* All turns of rehash_table.
LEMMA RehashLoop ==
  ASSUME NEW t, Words(t), Chain(t), NEW s \in Buckets(t), t.table[s] = Empty,
         NEW f, f = CHOOSE g : g = [n \in 0 .. Size(t) |->
                      IF n = 0 THEN t
                      ELSE RehashBucket(g[n - 1], (s + n - 1) % Size(t), PerfectMask(t))]
  PROVE  Sifted(t, s, Size(t), f[Size(t)])
  <1> DEFINE N == Size(t)
             P == PerfectMask(t)
             U == Htables(t.bits)
             D == [n \in 0 .. N |-> {u \in U : Sifted(t, s, n, u)}]
             turn == [n \in 1 .. N |-> [u \in U |-> RehashBucket(u, (s + n - 1) % N, P)]]
  <1>1. N \in Nat
    BY Sizes
  <1>2. ASSUME NEW n \in Nat, NEW u, Sifted(t, s, n, u) PROVE u \in U
    <2>1. Words(u) /\ u.bits = t.bits
      BY <1>2 DEF Sifted, Alike, Keeps
    <2> QED BY <2>1, InHtables
  <1>3. ASSUME NEW n \in 1 .. N, NEW u, Sifted(t, s, n - 1, u)
        PROVE  Sifted(t, s, n, RehashBucket(u, (s + n - 1) % N, P))
    <2> DEFINE i == (s + n - 1) % N
               m == n - 1
    <2>1. i \in Buckets(t) /\ Pos(t, s, i) = n - 1
      BY PosFact
    <2>2. m \in Nat /\ m + 1 = n /\ Pos(t, s, i) = m /\ Sifted(t, s, m, u)
      BY <1>1, <1>3, <2>1
    <2> HIDE DEF i, m
    <2>3. Sifted(t, s, m + 1, RehashBucket(u, i, PerfectMask(t)))
      BY <2>1, <2>2, RehashStep
    <2> QED BY <2>2, <2>3 DEF i
  <1> HIDE DEF U, P, N
  <1>4. PICK g : Loops(g, U, D, t, turn, N)
    <2>1. D \in [0 .. N -> SUBSET U]
      OBVIOUS
    <2>2. t \in D[0]
      <3>1. 0 \in 0 .. N
        BY <1>1
      <3>2. Sifted(t, s, 0, t)
        BY SiftedFirst
      <3> QED BY <1>2, <3>1, <3>2
    <2>3. Turns(D, turn, N)
      <3>1. ASSUME NEW n \in 1 .. N, NEW u \in D[n - 1] PROVE turn[n][u] \in D[n]
        <4>1. n - 1 \in 0 .. N /\ n \in 0 .. N /\ n \in Nat
          BY <1>1
        <4>2. u \in U /\ Sifted(t, s, n - 1, u)
          BY <4>1
        <4>3. turn[n][u] = RehashBucket(u, (s + n - 1) % N, P)
          BY <4>2
        <4>4. Sifted(t, s, n, turn[n][u])
          BY <1>3, <4>2, <4>3
        <4>5. turn[n][u] \in U
          BY <1>2, <4>1, <4>4
        <4> HIDE DEF turn
        <4> QED BY <4>1, <4>4, <4>5
      <3> HIDE DEF D, turn
      <3> QED BY <3>1 DEF Turns
    <2> HIDE DEF D, turn
    <2> QED BY <1>1, <2>1, <2>2, <2>3, Iteration
  <1> HIDE DEF D
  <1>5. g \in [0 .. N -> U] /\ g[0] = t
    <2> HIDE DEF turn
    <2> QED BY <1>4 DEF Loops
  <1>6. ASSUME NEW n \in 1 .. N PROVE g[n] = RehashBucket(g[n - 1], (s + n - 1) % N, P)
    <2>1. g[n] = turn[n][g[n - 1]]
      <3> HIDE DEF turn
      <3> QED BY <1>4 DEF Loops
    <2>2. n - 1 \in 0 .. N
      BY <1>1
    <2>3. g[n - 1] \in U
      BY <1>5, <2>2
    <2> QED BY <2>1, <2>3
  <1> HIDE DEF turn
  <1>7. g = [n \in 0 .. N |->
               IF n = 0 THEN t ELSE RehashBucket(g[n - 1], (s + n - 1) % N, P)]
    BY <1>1, <1>5, <1>6
  <1>8. f = [n \in 0 .. N |->
               IF n = 0 THEN t ELSE RehashBucket(f[n - 1], (s + n - 1) % N, P)]
    BY <1>7 DEF N, P
  <1> DEFINE T == {n \in 0 .. N : Sifted(t, s, n, f[n])}
  <1>9. 0 \in T
    <2>1. 0 \in 0 .. N
      BY <1>1
    <2>2. f[0] = IF 0 = 0 THEN t ELSE RehashBucket(f[0 - 1], (s + 0 - 1) % N, P)
      BY ONLY <1>8, <2>1
    <2>3. f[0] = t
      BY <2>2
    <2> QED BY <2>1, <2>3, SiftedFirst
  <1>10. ASSUME NEW n \in 0 .. N - 1, n \in T PROVE n + 1 \in T
    <2> DEFINE m == n + 1
    <2>1. m \in 0 .. N /\ m # 0 /\ m - 1 = n /\ m \in 1 .. N
      BY <1>1
    <2>2. Sifted(t, s, m - 1, f[m - 1])
      BY <1>10, <2>1
    <2> HIDE DEF m
    <2>3. f[m] = RehashBucket(f[m - 1], (s + m - 1) % N, P)
      BY <1>8, <2>1
    <2>4. Sifted(t, s, m, f[m])
      BY <1>3, <2>1, <2>2, <2>3
    <2>5. m \in T
      BY <2>1, <2>4
    <2> QED BY <2>5 DEF m
  <1>11. \A n \in 0 .. N : n \in T
    <2> HIDE DEF T
    <2> QED BY <1>1, <1>9, <1>10, InductionTo
  <1>12. N \in 0 .. N
    BY <1>1
  <1> QED BY <1>11, <1>12 DEF N

\* w is t without its deleted markers.
Cleaned(t, w) ==
  /\ Words(w) /\ Chain(w) /\ Counted(w)
  /\ w.bits = t.bits /\ w.elems = t.elems /\ w.deleted = 0 /\ w.locked = t.locked
  /\ w.heap = t.heap /\ Max7(w) = Max7(t)
  /\ \A Q : Cardinality(Hits(w, Q)) = Cardinality(Hits(t, Q))

\* rehash_table keeps the entries, and each can be found.
LEMMA RehashFact ==
  ASSUME NEW t, Words(t), Chain(t), Counted(t), t.elems + t.deleted <= Max7(t)
  PROVE  Cleaned(t, RehashTable(t))
  <1> DEFINE gaps == {i \in Buckets(t) : t.table[i] = Empty}
             s == Min(gaps)
             f == CHOOSE g : g = [n \in 0 .. Size(t) |->
                    IF n = 0 THEN t
                    ELSE RehashBucket(g[n - 1], (s + n - 1) % Size(t), PerfectMask(t))]
             u == f[Size(t)]
             w == [u EXCEPT !.deleted = 0]
  <1>1. s \in Buckets(t) /\ t.table[s] = Empty
    <2>1. gaps # {}
      BY Room
    <2>2. gaps \subseteq Nat
      BY Sizes
    <2>3. s \in gaps
      <3> HIDE DEF gaps
      <3> QED BY <2>1, <2>2, MinIn
    <2> QED BY <2>3
  <1>2. RehashTable(t) = w
    BY DEF RehashTable
  <1> HIDE DEF s
  <1>3. Sifted(t, s, Size(t), u)
    <2>1. f = CHOOSE g : g = [n \in 0 .. Size(t) |->
                    IF n = 0 THEN t
                    ELSE RehashBucket(g[n - 1], (s + n - 1) % Size(t), PerfectMask(t))]
      OBVIOUS
    <2> HIDE DEF f
    <2> QED BY <1>1, <2>1, RehashLoop
  <1> HIDE DEF f, u
  <1>4. /\ Words(u) /\ Alike(t, u)
        /\ \A i \in Used(u) : Placed(t, s, Size(t), u, i)
        /\ \A i \in Buckets(t) : Pos(t, s, i) < Size(t) => u.table[i] # Deleted
        /\ \A Q : Cardinality(Hits(u, Q)) = Cardinality(Hits(t, Q))
    BY <1>3 DEF Sifted
  <1>5. Buckets(u) = Buckets(t) /\ Size(u) = Size(t)
    BY <1>4, AlikeOps
  <1>6. \A i \in Buckets(t) : Pos(t, s, i) < Size(t)
    <2>1. \A i \in Buckets(t) : Pos(t, s, i) \in Buckets(t)
      BY <1>1, PosFact
    <2>2. Buckets(t) = 0 .. Size(t) - 1 /\ Size(t) \in Nat
      BY Sizes
    <2> QED BY <2>1, <2>2
  <1>7. Chain(u)
    <2>1. ASSUME NEW i \in Used(u)
          PROVE  \E k \in Buckets(u) : At(u, i, k) /\ Path(u, Raw(u, u.table[i]), k)
      <3>1. i \in Buckets(t)
        BY <1>5 DEF Used
      <3> QED BY <1>4, <1>5, <1>6, <3>1 DEF Placed
    <2> QED BY <2>1 DEF Chain
  <1>8. Markers(u) = {}
    BY <1>4, <1>5, <1>6 DEF Markers
  <1>9. w = Retold(u, u.elems, 0, u.locked, u.heap)
    BY <1>4, Excepts
  <1> HIDE DEF w
  <1>10. /\ u.elems = t.elems /\ u.locked = t.locked /\ u.heap = t.heap /\ u.bits = t.bits
         /\ t.elems \in Nat /\ t.locked \in Nat /\ t.heap \in BOOLEAN
    BY <1>4 DEF Alike, Keeps, Words
  <1>11. w.elems = t.elems /\ w.deleted = 0 /\ w.locked = t.locked /\ w.heap = t.heap
    BY <1>9, <1>10 DEF Retold
  <1>12. Recounted(u, w)
    BY <1>9, <1>10, <1>11 DEF Recounted
  <1>13. Words(w) /\ Reread(u, w)
    BY <1>4, <1>12, RetoldFact
  <1>14. Chain(w) /\ w.bits = t.bits /\ Max7(w) = Max7(t) /\ Markers(w) = {}
    BY <1>5, <1>7, <1>8, <1>10, <1>13 DEF Reread, Max7
  <1>15. \A Q : Cardinality(Hits(w, Q)) = Cardinality(Hits(t, Q))
    BY <1>4, <1>13 DEF Reread
  <1>16. Counted(w)
    <2>1. Used(w) = Hits(w, Ptr) /\ Used(t) = Hits(t, Ptr)
      <3>1. Known(w) /\ Known(t)
        BY <1>14, ChainKnown
      <3> QED BY <3>1 DEF Known, Hits
    <2>2. Cardinality(Used(w)) = w.elems
      BY <1>11, <1>15, <2>1 DEF Counted
    <2>3. Cardinality(Markers(w)) = 0
      BY <1>14, FS_EmptySet
    <2> QED BY <1>11, <2>2, <2>3 DEF Counted
  <1> QED BY <1>2, <1>11, <1>13, <1>14, <1>15, <1>16 DEF Cleaned

-----------------------------------------------------------------------------
(* double_table *)

\* The table that double_table fills.
LEMMA DoubledFact ==
  ASSUME NEW t, Words(t), t.bits < MaxBits, NEW u, u = Doubled(t)
  PROVE  /\ Words(u) /\ Used(u) = {} /\ Markers(u) = {} /\ Size(u) = 2 * Size(t)
         /\ u.bits = t.bits + 1 /\ u.elems = t.elems /\ u.deleted = 0 /\ u.locked = t.locked
         /\ u.heap = TRUE /\ u.mask = t.mask /\ u.common = t.common
  <1> DEFINE pf == IF t.perfect = NO_PERFECT_BIT /\ t.mask \ {0} # {}
                   THEN Min(t.mask \ {0}) - 1 ELSE t.perfect
             z == Zeroed(t.bits + 1)
  <1>1. /\ t = [bits |-> t.bits, perfect |-> t.perfect, elems |-> t.elems,
                deleted |-> t.deleted, locked |-> t.locked, mask |-> t.mask,
                common |-> t.common, table |-> t.table, heap |-> t.heap]
        /\ t.bits \in 0 .. MaxBits /\ t.perfect \in Bit
        /\ t.elems \in Nat /\ t.locked \in Nat
        /\ t.mask \in Word /\ t.common \subseteq t.mask /\ PerfectMask(t) \subseteq t.mask
    BY DEF Words
  <1>2. u = [t EXCEPT !.bits = t.bits + 1, !.table = z, !.heap = TRUE, !.deleted = 0,
                      !.perfect = pf]
    BY DEF Doubled
  <1> HIDE DEF pf, z
  <1>3. u = [bits |-> t.bits + 1, perfect |-> pf, elems |-> t.elems, deleted |-> 0,
             locked |-> t.locked, mask |-> t.mask, common |-> t.common, table |-> z,
             heap |-> TRUE]
    BY <1>1, <1>2
  <1>4. /\ u.bits = t.bits + 1 /\ u.perfect = pf /\ u.elems = t.elems /\ u.deleted = 0
        /\ u.locked = t.locked /\ u.mask = t.mask /\ u.common = t.common /\ u.table = z
        /\ u.heap = TRUE
    BY <1>3
  <1>5. MaxBits \in Nat /\ u.bits \in 0 .. MaxBits /\ u.bits \in 1 .. MaxBits
    BY <1>1, <1>4, HtableAssumption
  <1>6. Size(u) = 2 * Size(t)
    <2>1. Pow2[u.bits] = 2 * Pow2[u.bits - 1] /\ u.bits - 1 = t.bits
      BY <1>1, <1>4, <1>5, Pow2Fact
    <2> QED BY <2>1 DEF Size
  <1>7. z = [i \in Buckets(u) |-> Empty] /\ Empty \in Word
    BY <1>4 DEF z, Zeroed, Buckets, Size, Empty, Word
  <1>8. Used(u) = {} /\ Markers(u) = {}
    BY <1>4, <1>7 DEF Used, Markers, Valid, Empty, Deleted
  <1>9. pf \in Bit /\ PerfectMask(u) \subseteq t.mask
    <2>1. CASE t.perfect = NO_PERFECT_BIT /\ t.mask \ {0} # {}
      <3> DEFINE m == Min(t.mask \ {0})
      <3>1. t.mask \ {0} \subseteq Nat /\ t.mask \subseteq Bit
        BY <1>1, HtableAssumption DEF Word, Bit
      <3>2. m \in t.mask \ {0}
        BY <2>1, <3>1, MinIn
      <3>3. pf = m - 1
        BY <2>1 DEF pf
      <3> HIDE DEF m
      <3>4. m \in 0 .. W - 1 /\ m # 0 /\ W \in Nat
        BY <3>1, <3>2, HtableAssumption DEF Bit
      <3>5. m - 1 \in 0 .. W - 1 /\ m - 1 + 1 = m
        BY <3>4
      <3>6. PerfectMask(u) = {m} \cap Bit
        BY <1>4, <3>3, <3>5 DEF PerfectMask
      <3> QED BY <3>2, <3>3, <3>5, <3>6 DEF Bit
    <2>2. CASE ~(t.perfect = NO_PERFECT_BIT /\ t.mask \ {0} # {})
      <3>1. pf = t.perfect
        BY <2>2 DEF pf
      <3> QED BY <1>1, <1>4, <3>1 DEF PerfectMask
    <2> QED BY <2>1, <2>2
  <1>10. u.table \in [Buckets(u) -> Word]
    BY <1>4, <1>7
  <1>11. Words(u)
    <2>1. u = [bits |-> u.bits, perfect |-> u.perfect, elems |-> u.elems,
               deleted |-> u.deleted, locked |-> u.locked, mask |-> u.mask,
               common |-> u.common, table |-> u.table, heap |-> u.heap]
      BY <1>3, <1>4
    <2>2. u.heap \in BOOLEAN
      BY <1>4
    <2>3. /\ u.perfect \in Bit /\ u.elems \in Nat /\ u.deleted \in Nat /\ u.locked \in Nat
          /\ u.mask \in Word /\ u.common \subseteq u.mask /\ PerfectMask(u) \subseteq u.mask
      BY <1>1, <1>4, <1>9
    <2> QED BY ONLY <1>5, <1>10, <2>1, <2>2, <2>3 DEF Words
  <1> QED BY <1>4, <1>6, <1>8, <1>11

\* The entries for pointers of Q in the first n buckets.
Seen(t, n, Q) == {j \in 0 .. n - 1 : Valid(t.table[j]) /\ Raw(t, t.table[j]) \in Q}

\* Going on to the next bucket counts what is in it, and all buckets have all
\* the entries.
LEMMA SeenFact ==
  ASSUME NEW t, Words(t), NEW Q
  PROVE  /\ Seen(t, 0, Q) = {} /\ Seen(t, Size(t), Q) = Hits(t, Q)
         /\ \A n \in 0 .. Size(t) : /\ IsFiniteSet(Seen(t, n, Q))
                                    /\ Cardinality(Seen(t, n, Q)) \in Nat
                                    /\ Cardinality(Seen(t, n, Q)) <= n
         /\ \A n \in 0 .. Size(t) - 1 :
              Cardinality(Seen(t, n + 1, Q))
                = Cardinality(Seen(t, n, Q))
                    + (IF Valid(t.table[n]) /\ Raw(t, t.table[n]) \in Q THEN 1 ELSE 0)
  <1>1. Size(t) \in Nat /\ Buckets(t) = 0 .. Size(t) - 1
    BY Sizes
  <1>2. Seen(t, 0, Q) = {}
    BY DEF Seen
  <1>3. Seen(t, Size(t), Q) = Hits(t, Q)
    BY <1>1 DEF Seen, Hits, Used
  <1>4. ASSUME NEW n \in 0 .. Size(t)
        PROVE  /\ IsFiniteSet(Seen(t, n, Q)) /\ Cardinality(Seen(t, n, Q)) \in Nat
               /\ Cardinality(Seen(t, n, Q)) <= n
    <2>1. n \in Nat
      BY <1>1
    <2>2. IsFiniteSet(0 .. n - 1) /\ Cardinality(0 .. n - 1) = n
      BY <2>1, FS_Interval
    <2>3. Seen(t, n, Q) \subseteq 0 .. n - 1
      BY DEF Seen
    <2> QED BY <2>2, <2>3, FS_Subset, FS_CardinalityType
  <1>5. ASSUME NEW n \in 0 .. Size(t) - 1
        PROVE  Cardinality(Seen(t, n + 1, Q))
                 = Cardinality(Seen(t, n, Q))
                     + (IF Valid(t.table[n]) /\ Raw(t, t.table[n]) \in Q THEN 1 ELSE 0)
    <2>1. n \in Nat /\ n \in 0 .. Size(t) /\ 0 .. (n + 1) - 1 = (0 .. n - 1) \cup {n}
      BY <1>1
    <2>2. IsFiniteSet(Seen(t, n, Q)) /\ Cardinality(Seen(t, n, Q)) \in Nat
      BY <1>4, <2>1
    <2>3. n \notin Seen(t, n, Q)
      BY <2>1 DEF Seen
    <2>4. CASE Valid(t.table[n]) /\ Raw(t, t.table[n]) \in Q
      <3>1. Seen(t, n + 1, Q) = Seen(t, n, Q) \cup {n}
        BY <2>1, <2>4 DEF Seen
      <3> QED BY <2>2, <2>3, <2>4, <3>1, FS_AddElement
    <2>5. CASE ~(Valid(t.table[n]) /\ Raw(t, t.table[n]) \in Q)
      <3>1. Seen(t, n + 1, Q) = Seen(t, n, Q)
        BY <2>1, <2>5 DEF Seen
      <3> QED BY <2>2, <2>5, <3>1
    <2> QED BY <2>4, <2>5
  <1> QED BY <1>2, <1>3, <1>4, <1>5

\* r is the doubled table after n buckets of t were added: as long as no
\* common bit was given back, all their pointers are there.
Moved(t, n, r) ==
  /\ r = [t |-> r.t, wild |-> r.wild] /\ r.wild \in BOOLEAN
  /\ Words(r.t) /\ Chain(r.t) /\ Keeps(Doubled(t), r.t) /\ Markers(r.t) = {}
  /\ r.t.mask \subseteq t.mask /\ r.t.common = t.common \cap r.t.mask
  /\ ~r.wild => Cardinality(Used(r.t)) = Cardinality(Seen(t, n, Ptr))
  /\ r.t.mask = t.mask =>
       /\ ~r.wild
       /\ \A Q : Cardinality(Hits(r.t, Q)) = Cardinality(Seen(t, n, Q))

\* The start of double_table's loop.
LEMMA MovedFirst ==
  ASSUME NEW t, Words(t), t.bits < MaxBits
  PROVE  Moved(t, 0, [t |-> Doubled(t), wild |-> FALSE])
  <1> DEFINE u == Doubled(t)
             r == [t |-> u, wild |-> FALSE]
  <1>1. /\ Words(u) /\ Used(u) = {} /\ Markers(u) = {}
        /\ u.mask = t.mask /\ u.common = t.common
    BY DoubledFact
  <1> HIDE DEF u
  <1>2. r.t = u /\ r.wild = FALSE
    OBVIOUS
  <1>3. Chain(u)
    BY <1>1 DEF Chain
  <1>4. \A Q : Hits(u, Q) = {} /\ Seen(t, 0, Q) = {}
    BY <1>1, SeenFact DEF Hits
  <1>5. t.common \subseteq t.mask
    BY DEF Words
  <1>6. r = [t |-> r.t, wild |-> r.wild] /\ r.wild \in BOOLEAN
    BY <1>2
  <1>7. Keeps(u, r.t)
    BY <1>2 DEF Keeps
  <1>8. ~r.wild => Cardinality(Used(r.t)) = Cardinality(Seen(t, 0, Ptr))
    BY <1>1, <1>2, <1>4
  <1>9. ~r.wild /\ \A Q : Cardinality(Hits(r.t, Q)) = Cardinality(Seen(t, 0, Q))
    BY <1>2, <1>4
  <1> HIDE DEF r
  <1>10. Moved(t, 0, r)
    BY <1>1, <1>2, <1>3, <1>5, <1>6, <1>7, <1>8, <1>9 DEF Moved, u
  <1> QED BY <1>10 DEF r, u

\* A turn of double_table's loop.
LEMMA MovedStep ==
  ASSUME NEW t, Words(t), Known(t), t.bits < MaxBits, NEW n \in 0 .. Size(t) - 1,
         NEW r, Moved(t, n, r)
  PROVE  Moved(t, n + 1, ReAddBucket(r, t.table[n]))
  <1> DEFINE e == t.table[n]
             u == r.t
             p == Raw(u, e)
             q == ReAddBucket(r, e)
  <1>1. /\ r = [t |-> u, wild |-> r.wild] /\ r.wild \in BOOLEAN
        /\ Words(u) /\ Chain(u) /\ Keeps(Doubled(t), u) /\ Markers(u) = {}
        /\ u.mask \subseteq t.mask /\ u.common = t.common \cap u.mask
    BY DEF Moved
  <1>2. ~r.wild => Cardinality(Used(u)) = Cardinality(Seen(t, n, Ptr))
    BY DEF Moved
  <1>3. u.mask = t.mask => ~r.wild /\ \A Q : Cardinality(Hits(u, Q)) = Cardinality(Seen(t, n, Q))
    BY DEF Moved
  <1>4. n \in Buckets(t) /\ n \in Nat /\ n < Size(t) /\ Size(t) \in Nat /\ n \in 0 .. Size(t)
    BY Sizes
  <1>5. e \in Word
    BY <1>4 DEF Words
  <1>6. u.mask = t.mask => p = Raw(t, e)
    <2>1. t.common \subseteq t.mask
      BY DEF Words
    <2> QED BY <1>1, <2>1 DEF Raw
  <1>7. ASSUME NEW Q
        PROVE  /\ Cardinality(Seen(t, n + 1, Q))
                    = Cardinality(Seen(t, n, Q))
                        + (IF Valid(e) /\ Raw(t, e) \in Q THEN 1 ELSE 0)
               /\ Cardinality(Seen(t, n, Q)) \in Nat /\ Cardinality(Seen(t, n, Q)) <= n
    BY <1>4, SeenFact
  <1>8. Valid(e) => Raw(t, e) \in Ptr
    BY <1>4 DEF Known, Used
  <1> HIDE DEF u
  <1>9. CASE r.wild \/ ~Valid(e)
    <2>1. q = r
      BY <1>9 DEF ReAddBucket
    <2>2. ~r.wild => Cardinality(Used(u)) = Cardinality(Seen(t, n + 1, Ptr))
      BY <1>2, <1>7, <1>9
    <2>3. ASSUME u.mask = t.mask
          PROVE  ~r.wild /\ \A Q : Cardinality(Hits(u, Q)) = Cardinality(Seen(t, n + 1, Q))
      BY <1>3, <1>7, <1>9, <2>3
    <2>4. Moved(t, n + 1, r)
      BY <1>1, <2>2, <2>3 DEF Moved, u
    <2> QED BY <2>1, <2>4
  <1>10. CASE ~r.wild /\ Valid(e) /\ p \notin Ptr
    <2> DEFINE x == [r EXCEPT !.wild = TRUE]
    <2>1. q = x
      BY <1>10 DEF ReAddBucket, u
    <2>2. x = [t |-> u, wild |-> TRUE]
      <3>1. ASSUME NEW b, NEW y, y = [r EXCEPT !.wild = b] PROVE y = [t |-> u, wild |-> b]
        BY <1>1, <3>1
      <3> QED BY ONLY <3>1 DEF x
    <2>3. u.mask # t.mask
      BY <1>6, <1>8, <1>10
    <2> HIDE DEF x
    <2>4. x.t = u /\ x.wild = TRUE /\ x = [t |-> x.t, wild |-> x.wild]
      BY <2>2
    <2>5. x.wild \in BOOLEAN
      BY <2>4
    <2>6. Moved(t, n + 1, x)
      BY <1>1, <2>3, <2>4, <2>5 DEF Moved
    <2> QED BY <2>1, <2>6
  <1>11. CASE ~r.wild /\ Valid(e) /\ p \in Ptr
    <2> DEFINE v == HtAdd(u, p, hash[p])
               x == [r EXCEPT !.t = v]
    <2>1. q = x
      BY <1>11 DEF ReAddBucket, u
    <2>2. Used(u) # Buckets(u)
      <3>1. Cardinality(Used(u)) <= n
        BY <1>2, <1>7, <1>11
      <3>2. Cardinality(Buckets(u)) = Size(u)
        BY <1>1, BucketsFinite
      <3>3. Size(u) = 2 * Size(t)
        <4>1. Size(Doubled(t)) = 2 * Size(t)
          BY DoubledFact
        <4> QED BY <1>1, <4>1 DEF Keeps, Size
      <3>4. SUFFICES ASSUME Used(u) = Buckets(u) PROVE FALSE
        OBVIOUS
      <3>5. 2 * Size(t) <= n
        BY <3>1, <3>2, <3>3, <3>4
      <3> QED BY ONLY <1>4, <3>5
    <2>3. p \cap u.mask = u.common
      BY <1>1, <1>5, Decode
    <2>4. Added(u, v, p)
      <3> HIDE DEF p
      <3> QED BY <1>1, <1>11, <2>2, <2>3, HtAddFact
    <2>5. x = [t |-> v, wild |-> r.wild]
      BY <1>1
    <2> HIDE DEF v, x
    <2>6. x.t = v /\ x.wild = r.wild /\ x = [t |-> x.t, wild |-> x.wild]
      BY <2>5
    <2>7. PICK d : d \subseteq u.mask /\ GivesBack(u, v, d)
      BY <2>4 DEF Added
    <2>8. Words(v) /\ Chain(v) /\ Keeps(u, v)
      BY <2>4 DEF Added
    <2>9. /\ Cardinality(Used(v)) = Cardinality(Used(u)) + 1
          /\ \A Q : Cardinality(Hits(v, Q)) = Cardinality(Hits(u, Q)) + (IF p \in Q THEN 1 ELSE 0)
          /\ Markers(v) \subseteq Markers(u)
      <3> HIDE DEF p
      <3> QED BY <1>1, <2>4, AddedCounts
    <2>10. v.mask = u.mask \ d /\ v.common = u.common \ d
      BY <2>7 DEF GivesBack
    <2>11. v.mask \subseteq t.mask /\ v.common = t.common \cap v.mask /\ Markers(v) = {}
      BY <1>1, <2>9, <2>10
    <2>12. Keeps(Doubled(t), v)
      BY <1>1, <2>8 DEF Keeps
    <2>13. Cardinality(Used(v)) = Cardinality(Seen(t, n + 1, Ptr))
      BY <1>2, <1>7, <1>8, <1>11, <2>9
    <2>14. ASSUME v.mask = t.mask
           PROVE  \A Q : Cardinality(Hits(v, Q)) = Cardinality(Seen(t, n + 1, Q))
      <3>1. u.mask = t.mask
        BY <1>1, <2>10, <2>14
      <3>2. p = Raw(t, e)
        BY <1>6, <3>1
      <3>3. ASSUME NEW Q PROVE Cardinality(Hits(v, Q)) = Cardinality(Seen(t, n + 1, Q))
        <4>1. Cardinality(Hits(u, Q)) = Cardinality(Seen(t, n, Q))
          BY <1>3, <3>1
        <4>2. Cardinality(Hits(v, Q)) = Cardinality(Hits(u, Q)) + (IF p \in Q THEN 1 ELSE 0)
          BY <2>9
        <4> QED BY <1>7, <1>11, <3>2, <4>1, <4>2
      <3> QED BY <3>3
    <2>15. x.wild \in BOOLEAN /\ ~x.wild
      <3>1. x.wild \in BOOLEAN
        BY <1>1, <2>6, Zenon
      <3>2. ~x.wild
        BY <1>11, <2>6, Zenon
      <3> QED BY <3>1, <3>2
    <2>16. Moved(t, n + 1, x)
      BY <2>6, <2>8, <2>11, <2>12, <2>13, <2>14, <2>15 DEF Moved
    <2> QED BY <2>1, <2>16
  <1> QED BY <1>9, <1>10, <1>11

\* All turns of double_table's loop.
LEMMA DoubleLoop ==
  ASSUME NEW t, Words(t), Known(t), t.bits < MaxBits,
         NEW f, f = CHOOSE g : g = [n \in 0 .. Size(t) |->
                      IF n = 0 THEN [t |-> Doubled(t), wild |-> FALSE]
                      ELSE ReAddBucket(g[n - 1], t.table[n - 1])]
  PROVE  Moved(t, Size(t), f[Size(t)])
  <1> DEFINE N == Size(t)
             b == [t |-> Doubled(t), wild |-> FALSE]
             U == [t : Htables(t.bits + 1), wild : BOOLEAN]
             D == [n \in 0 .. N |-> {r \in U : Moved(t, n, r)}]
             turn == [n \in 1 .. N |-> [r \in U |-> ReAddBucket(r, t.table[n - 1])]]
  <1>1. N \in Nat
    BY Sizes
  <1>2. ASSUME NEW n, NEW r, Moved(t, n, r) PROVE r \in U
    <2>1. Words(r.t) /\ r = [t |-> r.t, wild |-> r.wild] /\ r.wild \in BOOLEAN
      BY <1>2 DEF Moved
    <2>2. r.t.bits = t.bits + 1
      <3>1. Keeps(Doubled(t), r.t) /\ Doubled(t).bits = t.bits + 1
        BY <1>2, DoubledFact DEF Moved
      <3> QED BY <3>1 DEF Keeps
    <2>3. r.t \in Htables(t.bits + 1)
      BY <2>1, <2>2, InHtables
    <2> QED BY <2>1, <2>3
  <1>3. ASSUME NEW n \in 1 .. N, NEW r, Moved(t, n - 1, r)
        PROVE  Moved(t, n, ReAddBucket(r, t.table[n - 1]))
    <2> DEFINE m == n - 1
    <2>1. m \in 0 .. Size(t) - 1 /\ m + 1 = n /\ Moved(t, m, r)
      BY <1>1, <1>3
    <2> HIDE DEF m
    <2>2. Moved(t, m + 1, ReAddBucket(r, t.table[m]))
      BY <2>1, MovedStep
    <2> QED BY <2>1, <2>2 DEF m
  <1>4. Moved(t, 0, b)
    BY MovedFirst
  <1> HIDE DEF U, b, N
  <1>5. PICK g : Loops(g, U, D, b, turn, N)
    <2>1. D \in [0 .. N -> SUBSET U]
      OBVIOUS
    <2>2. b \in D[0]
      <3>1. 0 \in 0 .. N
        BY <1>1
      <3> QED BY <1>2, <1>4, <3>1
    <2>3. Turns(D, turn, N)
      <3>1. ASSUME NEW n \in 1 .. N, NEW r \in D[n - 1] PROVE turn[n][r] \in D[n]
        <4>1. n - 1 \in 0 .. N /\ n \in 0 .. N
          BY <1>1
        <4>2. r \in U /\ Moved(t, n - 1, r)
          BY <4>1
        <4>3. turn[n][r] = ReAddBucket(r, t.table[n - 1])
          BY <4>2
        <4>4. Moved(t, n, turn[n][r])
          BY <1>3, <4>2, <4>3
        <4>5. turn[n][r] \in U
          BY <1>2, <4>4
        <4> HIDE DEF turn
        <4> QED BY <4>1, <4>4, <4>5
      <3> HIDE DEF D, turn
      <3> QED BY <3>1 DEF Turns
    <2> HIDE DEF D, turn
    <2> QED BY <1>1, <2>1, <2>2, <2>3, Iteration
  <1> HIDE DEF D
  <1>6. g \in [0 .. N -> U] /\ g[0] = b
    <2> HIDE DEF turn
    <2> QED BY <1>5 DEF Loops
  <1>7. ASSUME NEW n \in 1 .. N PROVE g[n] = ReAddBucket(g[n - 1], t.table[n - 1])
    <2>1. g[n] = turn[n][g[n - 1]]
      <3> HIDE DEF turn
      <3> QED BY <1>5 DEF Loops
    <2>2. n - 1 \in 0 .. N
      BY <1>1
    <2>3. g[n - 1] \in U
      BY <1>6, <2>2
    <2> QED BY <2>1, <2>3
  <1> HIDE DEF turn
  <1>8. g = [n \in 0 .. N |-> IF n = 0 THEN b ELSE ReAddBucket(g[n - 1], t.table[n - 1])]
    BY <1>1, <1>6, <1>7
  <1>9. f = [n \in 0 .. N |-> IF n = 0 THEN b ELSE ReAddBucket(f[n - 1], t.table[n - 1])]
    BY <1>8 DEF N, b
  <1> DEFINE T == {n \in 0 .. N : Moved(t, n, f[n])}
  <1>10. 0 \in T
    <2>1. 0 \in 0 .. N
      BY <1>1
    <2>2. f[0] = IF 0 = 0 THEN b ELSE ReAddBucket(f[0 - 1], t.table[0 - 1])
      BY ONLY <1>9, <2>1
    <2>3. f[0] = b
      BY <2>2
    <2> QED BY <1>4, <2>1, <2>3
  <1>11. ASSUME NEW n \in 0 .. N - 1, n \in T PROVE n + 1 \in T
    <2> DEFINE m == n + 1
    <2>1. m \in 0 .. N /\ m # 0 /\ m - 1 = n /\ m \in 1 .. N
      BY <1>1
    <2>2. Moved(t, m - 1, f[m - 1])
      BY <1>11, <2>1
    <2> HIDE DEF m
    <2>3. f[m] = ReAddBucket(f[m - 1], t.table[m - 1])
      BY <1>9, <2>1
    <2>4. Moved(t, m, f[m])
      BY <1>3, <2>1, <2>2, <2>3
    <2>5. m \in T
      BY <2>1, <2>4
    <2> QED BY <2>5 DEF m
  <1>12. \A n \in 0 .. N : n \in T
    <2> HIDE DEF T
    <2> QED BY <1>1, <1>10, <1>11, InductionTo
  <1>13. N \in 0 .. N
    BY <1>1
  <1> QED BY <1>12, <1>13 DEF N

\* d is t with twice the buckets.  If a common bit was given back, pointers
\* may have been lost, and even be wild.
Twice(t, d) ==
  /\ d.t.mask # t.mask \/ (~d.wild /\ \A Q : Cardinality(Hits(d.t, Q)) = Cardinality(Hits(t, Q)))
  /\ ~d.wild => /\ Words(d.t) /\ Chain(d.t) /\ Counted(d.t)
                /\ d.t.bits = t.bits + 1 /\ d.t.elems = t.elems /\ d.t.deleted = 0
                /\ d.t.locked = t.locked /\ d.t.heap = TRUE
                /\ d.t.elems + 1 <= Max7(d.t)

\* double_table makes room, and keeps the count.
LEMMA DoubleFact ==
  ASSUME NEW t, Sound(t), t.bits < MaxBits
  PROVE  Twice(t, DoubleTable(t))
  <1> DEFINE u == Doubled(t)
             d == DoubleTable(t)
             x == d.t
  <1>1. /\ Words(t) /\ Chain(t) /\ Counted(t) /\ t.elems + t.deleted <= Max7(t)
        /\ ~t.heap => t.bits = 0
    BY DEF Sound
  <1>2. Known(t)
    BY <1>1, ChainKnown
  <1>3. /\ t.elems \in Nat /\ t.deleted \in Nat /\ t.heap \in BOOLEAN
    BY <1>1 DEF Words
  <1>4. Size(t) \in Nat /\ Size(t) >= 1 /\ DOMAIN t.table = Buckets(t)
    BY <1>1, Sizes
  <1>5. Used(t) = Hits(t, Ptr)
    BY <1>2 DEF Known, Hits
  <1>6. /\ Words(u) /\ Size(u) = 2 * Size(t) /\ u.bits = t.bits + 1 /\ u.elems = t.elems
        /\ u.deleted = 0 /\ u.locked = t.locked /\ u.heap = TRUE
    BY <1>1, DoubledFact
  <1>7. Moved(t, Size(t), d)
    <2>1. CASE t.heap
      <3> DEFINE f == CHOOSE g : g = [n \in 0 .. Cardinality(DOMAIN t.table) |->
                        IF n = 0 THEN [t |-> Doubled(t), wild |-> FALSE]
                        ELSE ReAddBucket(g[n - 1], t.table[n - 1])]
      <3>1. d = f[Cardinality(DOMAIN t.table)]
        BY <2>1 DEF DoubleTable, ReAdd
      <3>2. Cardinality(DOMAIN t.table) = Size(t)
        BY <1>1, <1>4, BucketsFinite
      <3>3. f = CHOOSE g : g = [n \in 0 .. Size(t) |->
                        IF n = 0 THEN [t |-> Doubled(t), wild |-> FALSE]
                        ELSE ReAddBucket(g[n - 1], t.table[n - 1])]
        BY <3>2
      <3> HIDE DEF f, d
      <3> QED BY <1>1, <1>2, <3>1, <3>2, <3>3, DoubleLoop
    <2>2. CASE ~t.heap
      <3>1. d = [t |-> u, wild |-> FALSE]
        BY <2>2 DEF DoubleTable
      <3>2. Moved(t, 0, [t |-> u, wild |-> FALSE])
        BY <1>1, MovedFirst
      <3>3. Size(t) = 1
        BY <1>1, <2>2, Pow2Fact DEF Size
      <3>4. t.elems = 0
        <4>1. Max7(t) = 0
          BY <3>3 DEF Max7
        <4> QED BY <1>1, <1>3, <4>1
      <3>5. Used(t) = {}
        <4>1. Used(t) \in SUBSET Buckets(t)
          BY DEF Used
        <4>2. IsFiniteSet(Used(t)) /\ Cardinality(Used(t)) = 0
          BY <1>1, <3>4, <4>1, BucketsFinite DEF Counted
        <4> QED BY <4>2, FS_EmptySet
      <3>6. \A Q : Seen(t, Size(t), Q) = Seen(t, 0, Q)
        <4>1. \A Q : Seen(t, Size(t), Q) = Hits(t, Q) /\ Seen(t, 0, Q) = {} /\ Hits(t, Q) = {}
          BY <1>1, <3>5, SeenFact DEF Hits
        <4> QED BY <4>1
      <3> HIDE DEF d, u
      <3> QED BY <3>1, <3>2, <3>6 DEF Moved
    <2> QED BY <1>3, <2>1, <2>2
  <1> HIDE DEF d, u
  <1>8. /\ Words(x) /\ Chain(x) /\ Keeps(u, x) /\ Markers(x) = {}
        /\ ~d.wild => Cardinality(Used(x)) = Cardinality(Seen(t, Size(t), Ptr))
        /\ x.mask = t.mask =>
             ~d.wild /\ \A Q : Cardinality(Hits(x, Q)) = Cardinality(Seen(t, Size(t), Q))
    BY <1>7 DEF Moved, u
  <1>9. \A Q : Seen(t, Size(t), Q) = Hits(t, Q)
    BY <1>1, SeenFact
  <1>10. /\ x.bits = t.bits + 1 /\ x.elems = t.elems /\ x.deleted = 0 /\ x.locked = t.locked
         /\ x.heap = TRUE
    BY <1>6, <1>8 DEF Keeps
  <1>11. ~d.wild => Counted(x)
    <2>1. Cardinality(Markers(x)) = 0
      BY <1>8, FS_EmptySet
    <2> QED BY <1>1, <1>5, <1>8, <1>9, <1>10, <2>1 DEF Counted
  <1>12. x.elems + 1 <= Max7(x)
    <2> DEFINE n == Size(t)
    <2>1. Size(x) = 2 * n
      BY <1>6, <1>8 DEF Keeps, Size
    <2>2. t.elems <= (7 * n) \div 8
      BY <1>1, <1>3, <1>4 DEF Max7
    <2>3. n \in Nat /\ n >= 1
      BY <1>4
    <2> HIDE DEF n
    <2>4. (7 * n) \div 8 + 1 <= (7 * (2 * n)) \div 8
      BY <2>3
    <2>5. Max7(x) = (7 * (2 * n)) \div 8
      BY <2>1 DEF Max7
    <2> QED BY <1>3, <1>10, <2>2, <2>3, <2>4, <2>5
  <1>13. Twice(t, d)
    BY <1>8, <1>9, <1>10, <1>11, <1>12 DEF Twice
  <1> QED BY <1>13 DEF d

-----------------------------------------------------------------------------
(* htable_delval, and lookup *)

\* The bucket after one that lookup passes.
LEMMA ProbeNext ==
  ASSUME NEW t, Words(t), NEW h, NEW j \in Buckets(t), j + 1 \in Buckets(t)
  PROVE  Probe(t, h, j + 1) = ((Probe(t, h, j) + 1) % Size(t))
  <1> DEFINE S == Size(t)
             a == HashBucket(t, h)
             x == Probe(t, h, j)
             y == Probe(t, h, j + 1)
  <1>1. S \in Nat /\ S >= 1 /\ Buckets(t) = 0 .. S - 1
    BY Sizes
  <1>2. a \in Buckets(t) /\ x \in Buckets(t) /\ x = IF a + j < S THEN a + j ELSE a + j - S
    BY ProbeFact
  <1>3. y = IF a + (j + 1) < S THEN a + (j + 1) ELSE a + (j + 1) - S
    <2> DEFINE m == j + 1
    <2> HIDE DEF m
    <2>1. m \in Buckets(t)
      BY DEF m
    <2>2. Probe(t, h, m) = IF a + m < S THEN a + m ELSE a + m - S
      BY <2>1, ProbeFact
    <2> QED BY <2>2 DEF m
  <1> HIDE DEF S, a, x, y
  <1>4. ((x + 1) % S) = IF x + 1 < S THEN x + 1 ELSE x + 1 - S
    <2>1. x + 1 \in 0 .. 2 * S - 1
      BY <1>1, <1>2
    <2>2. PICK z : z = x + 1
      OBVIOUS
    <2>3. z \in 0 .. 2 * S - 1 /\ x \in Int /\ S \in Int
      BY <1>1, <1>2, <2>1, <2>2
    <2>4. (z % S) = IF z < S THEN z ELSE z - S
      BY ONLY <1>1, <2>3, ModOnce
    <2>5. (z % S) = ((x + 1) % S)
      BY ONLY <2>2
    <2> QED BY <2>2, <2>3, <2>4, <2>5
  <1>5. /\ a \in 0 .. S - 1 /\ x \in 0 .. S - 1 /\ j \in 0 .. S - 1 /\ j + 1 \in 0 .. S - 1
        /\ S \in Nat
    BY <1>1, <1>2
  <1>6. y = IF x + 1 < S THEN x + 1 ELSE x + 1 - S
    <2>1. x = IF a + j < S THEN a + j ELSE a + j - S
      BY <1>2
    <2> QED BY ONLY <1>3, <1>5, <2>1
  <1>7. y = ((x + 1) % S)
    BY <1>4, <1>6
  <1> QED BY <1>7 DEF x, y, S

\* w is t without the entry of bucket i.
Without(t, w, i) ==
  /\ Sound(w) /\ Used(w) = Used(t) \ {i}
  /\ \A x \in Used(w) : Raw(w, w.table[x]) = Raw(t, t.table[x])
  /\ w.elems = t.elems - 1 /\ w.locked = t.locked

\* htable_delval leaves a marker where lookup of another entry may pass.
LEMMA DelvalFact ==
  ASSUME NEW t, Sound(t), NEW i \in Used(t)
  PROVE  Without(t, Delval(t, i), i)
  <1> DEFINE next == (i + 1) % Size(t)
             e == IF t.table[next] # Empty THEN Deleted ELSE Empty
             n == IF t.table[next] # Empty THEN t.deleted + 1 ELSE t.deleted
             c == Put(t, i, e)
             w == Delval(t, i)
  <1>1. /\ Words(t) /\ Chain(t) /\ Counted(t) /\ t.elems + t.deleted <= Max7(t)
        /\ ~t.heap => t.bits = 0
    BY DEF Sound
  <1>2. /\ t = [bits |-> t.bits, perfect |-> t.perfect, elems |-> t.elems,
                deleted |-> t.deleted, locked |-> t.locked, mask |-> t.mask,
                common |-> t.common, table |-> t.table, heap |-> t.heap]
        /\ t.elems \in Nat /\ t.deleted \in Nat /\ t.locked \in Nat /\ t.heap \in BOOLEAN
    BY <1>1 DEF Words
  <1>3. i \in Buckets(t) /\ Valid(t.table[i]) /\ Used(t) \in SUBSET Buckets(t)
    BY DEF Used
  <1>4. e \in Word /\ ~Valid(e)
    BY HtableAssumption DEF Empty, Deleted, Word, Valid, Bit
  <1>5. /\ Words(c) /\ Alike(t, c) /\ c.table[i] = e /\ Used(c) = Used(t) \ {i}
        /\ \A j \in Buckets(t) : j # i => c.table[j] = t.table[j]
    <2>1. c = Put(t, i, e)
      OBVIOUS
    <2> HIDE DEF c, e
    <2> QED BY <1>1, <1>3, <1>4, <2>1, PutFact
  <1>6. w = Retold(c, t.elems - 1, n, t.locked, t.heap)
    <2> DEFINE tb == [t.table EXCEPT ![i] = e]
    <2>1. w = [t EXCEPT !.elems = t.elems - 1, !.table = tb, !.deleted = n]
      <3>1. CASE t.table[next] # Empty
        BY <1>2, <3>1 DEF Delval
      <3>2. CASE t.table[next] = Empty
        BY <1>2, <3>2 DEF Delval
      <3> QED BY <3>1, <3>2
    <2>2. c.table = tb
      BY <1>2 DEF Put
    <2> HIDE DEF w, n, tb, c
    <2>3. w = [bits |-> t.bits, perfect |-> t.perfect, elems |-> t.elems - 1,
               deleted |-> n, locked |-> t.locked, mask |-> t.mask,
               common |-> t.common, table |-> tb, heap |-> t.heap]
      BY <1>2, <2>1
    <2> QED BY <1>5, <2>2, <2>3 DEF Retold, Alike, Keeps
  <1> HIDE DEF w, c
  <1>7. IsFiniteSet(Used(t)) /\ Cardinality(Used(t)) = t.elems
    BY <1>1, <1>3, BucketsFinite DEF Counted
  <1>8. Cardinality(Used(t) \ {i}) = t.elems - 1 /\ t.elems - 1 \in Nat
    <2>1. Cardinality(Used(t) \ {i}) = Cardinality(Used(t)) - 1 /\ IsFiniteSet(Used(t) \ {i})
      BY <1>7, FS_RemoveElement
    <2>2. Cardinality(Used(t) \ {i}) \in Nat
      BY <2>1, FS_CardinalityType
    <2> QED BY <1>7, <2>1, <2>2
  <1>9. /\ n \in Nat /\ w.elems = t.elems - 1 /\ w.deleted = n
        /\ w.locked = t.locked /\ w.heap = t.heap
    BY <1>2, <1>6 DEF Retold
  <1>10. Recounted(c, w)
    BY <1>2, <1>6, <1>8, <1>9 DEF Recounted
  <1>11. Words(w) /\ Reread(c, w)
    BY <1>5, <1>10, RetoldFact
  <1>12. /\ Buckets(c) = Buckets(t) /\ Size(c) = Size(t)
         /\ \A x : Raw(c, x) = Raw(t, x) /\ Extra(c, x) = Extra(t, x)
         /\ \A g, k : Probe(c, g, k) = Probe(t, g, k) /\ Mark(c, g, k) = Mark(t, g, k)
    BY <1>5, AlikeOps
  <1>13. \A x \in Used(c) : x # i /\ x \in Used(t) /\ c.table[x] = t.table[x]
    BY <1>3, <1>5
  <1>14. Chain(c)
    <2>1. ASSUME NEW x \in Used(c)
          PROVE  \E k \in Buckets(c) : At(c, x, k) /\ Path(c, Raw(c, c.table[x]), k)
      <3> DEFINE p == Raw(t, t.table[x])
                 h == hash[p]
      <3>1. x # i /\ x \in Used(t) /\ c.table[x] = t.table[x] /\ p = Raw(c, c.table[x])
        BY <1>12, <1>13
      <3>2. PICK k \in Buckets(t) : At(t, x, k) /\ Path(t, p, k)
        BY <1>1, <3>1 DEF Chain
      <3>3. At(c, x, k)
        BY <1>12, <3>1, <3>2 DEF At
      <3>4. ASSUME NEW j \in 0 .. k - 1 PROVE c.table[Probe(c, h, j)] # Empty
        <4> DEFINE y == Probe(t, h, j)
        <4>1. t.table[y] # Empty /\ Probe(c, h, j) = y
          BY <1>12, <3>2 DEF Path
        <4>2. j \in Buckets(t) /\ j + 1 \in Buckets(t) /\ k \in Nat /\ j \in Nat
          BY <1>1, Sizes
        <4>3. y \in Buckets(t)
          BY <1>1, <4>2, ProbeFact
        <4>4. CASE y # i
          BY <1>5, <4>1, <4>3, <4>4
        <4>5. CASE y = i
          <5>1. next = Probe(t, h, j + 1)
            <6> HIDE DEF h
            <6>1. Probe(t, h, j + 1) = ((Probe(t, h, j) + 1) % Size(t))
              BY ONLY <1>1, <4>2, ProbeNext
            <6> QED BY <4>5, <6>1
          <5>2. t.table[next] # Empty
            <6>1. CASE j + 1 < k
              <7>1. j + 1 \in 0 .. k - 1
                BY <4>2, <6>1
              <7> QED BY <3>2, <5>1, <7>1 DEF Path
            <6>2. CASE j + 1 = k
              <7>1. next = x
                BY <3>2, <5>1, <6>2 DEF At
              <7>2. t.table[x] # Empty
                BY <3>1 DEF Used, Valid
              <7> QED BY <7>1, <7>2
            <6> QED BY <4>2, <6>1, <6>2
          <5>3. e = Deleted /\ Deleted # Empty
            BY <5>2 DEF Deleted, Empty
          <5> QED BY <1>5, <4>1, <4>5, <5>3
        <4> QED BY <4>4, <4>5
      <3>5. Path(c, Raw(c, c.table[x]), k)
        BY <3>1, <3>4 DEF Path
      <3> QED BY <1>12, <3>3, <3>5
    <2> QED BY <2>1 DEF Chain
  <1>15. Cardinality(Markers(c)) <= n
    <2>1. Markers(t) \in SUBSET Buckets(t) /\ i \notin Markers(t)
      BY <1>3 DEF Markers, Valid
    <2>2. /\ IsFiniteSet(Markers(t)) /\ Cardinality(Markers(t)) \in Nat
          /\ Cardinality(Markers(t)) <= t.deleted
      BY <1>1, <2>1, BucketsFinite DEF Counted
    <2>3. CASE t.table[next] # Empty
      <3>1. Markers(c) = Markers(t) \cup {i}
        BY <1>3, <1>5, <1>12, <2>3 DEF Markers
      <3>2. Cardinality(Markers(c)) = Cardinality(Markers(t)) + 1
        BY <2>1, <2>2, <3>1, FS_AddElement
      <3> QED BY <1>2, <2>2, <2>3, <3>2
    <2>4. CASE t.table[next] = Empty
      <3>1. e = Empty /\ Empty # Deleted
        BY <2>4 DEF Empty, Deleted
      <3> HIDE DEF e
      <3>2. Markers(c) = Markers(t)
        BY <1>3, <1>5, <1>12, <2>1, <3>1 DEF Markers
      <3> QED BY <1>2, <2>2, <2>4, <3>2
    <2> QED BY <2>3, <2>4
  <1>16. /\ Used(w) = Used(t) \ {i} /\ Markers(w) = Markers(c) /\ Chain(w)
         /\ Max7(w) = Max7(t) /\ w.bits = t.bits /\ w.table = c.table
         /\ \A x : Raw(w, x) = Raw(t, x)
    BY <1>5, <1>11, <1>12, <1>14 DEF Reread, Max7, Alike, Keeps
  <1>17. Counted(w)
    BY <1>8, <1>9, <1>15, <1>16 DEF Counted
  <1>18. w.elems + w.deleted <= Max7(w)
    <2>1. Max7(t) \in Int /\ n <= t.deleted + 1
      BY <1>1, <1>2, Sizes DEF Max7
    <2> HIDE DEF n
    <2> QED BY <1>1, <1>2, <1>9, <1>16, <2>1
  <1>19. Sound(w)
    BY <1>1, <1>9, <1>11, <1>16, <1>17, <1>18 DEF Sound
  <1>20. Without(t, w, i)
    BY <1>5, <1>9, <1>13, <1>16, <1>19 DEF Without
  <1> QED BY <1>20 DEF w

\* Lookup does not stop before the first empty bucket.
LEMMA ReachFact ==
  ASSUME NEW t, Words(t), NEW h
  PROVE  /\ Reach(t, h) \in 0 .. Size(t)
         /\ \A k \in Buckets(t) :
              (\A j \in 0 .. k : t.table[Probe(t, h, j)] # Empty) => k < Reach(t, h)
  <1> DEFINE gaps == {k \in Buckets(t) : t.table[Probe(t, h, k)] = Empty}
             r == Reach(t, h)
  <1>1. Size(t) \in Nat /\ Buckets(t) = 0 .. Size(t) - 1
    BY Sizes
  <1>2. r = IF gaps = {} THEN Size(t) ELSE Min(gaps)
    BY DEF Reach, Probe
  <1> HIDE DEF r
  <1>3. CASE gaps = {}
    BY <1>1, <1>2, <1>3 DEF r
  <1>4. CASE gaps # {}
    <2>1. gaps \subseteq Nat
      BY <1>1
    <2>2. Min(gaps) \in gaps
      <3> HIDE DEF gaps
      <3> QED BY <1>4, <2>1, MinIn
    <2>3. r \in gaps
      BY <1>2, <1>4, <2>2
    <2>4. r \in Buckets(t) /\ t.table[Probe(t, h, r)] = Empty
      BY <2>3
    <2>5. ASSUME NEW k \in Buckets(t), \A j \in 0 .. k : t.table[Probe(t, h, j)] # Empty
          PROVE  k < r
      BY <1>1, <2>4, <2>5
    <2> QED BY <1>1, <2>4, <2>5 DEF r
  <1> QED BY <1>3, <1>4

\* What lookup finds is an entry for p.
LEMMA FoundFact ==
  ASSUME NEW t, Words(t), NEW h, NEW p, NEW k \in Found(t, h, p)
  PROVE  /\ k \in Buckets(t) /\ k \in Nat /\ Probe(t, h, k) \in Used(t)
         /\ Raw(t, t.table[Probe(t, h, k)]) = p
  <1>1. k \in 0 .. Reach(t, h) - 1 /\ Valid(t.table[Probe(t, h, k)])
    BY DEF Found, Candidates, Probe
  <1>2. Reach(t, h) \in 0 .. Size(t) /\ Size(t) \in Nat /\ Buckets(t) = 0 .. Size(t) - 1
    BY ReachFact, Sizes
  <1>3. k \in Buckets(t) /\ k \in Nat
    BY <1>1, <1>2
  <1>4. Probe(t, h, k) \in Used(t)
    BY <1>1, <1>3, ProbeFact DEF Used
  <1> QED BY <1>3, <1>4 DEF Found

\* Every entry is found.
LEMMA FindsAll ==
  ASSUME NEW t, Words(t), Chain(t), NEW i \in Used(t), NEW p, p = Raw(t, t.table[i])
  PROVE  p \in Ptr /\ Found(t, hash[p], p) # {}
  <1> DEFINE h == hash[p]
  <1>1. PICK k \in Buckets(t) : At(t, i, k) /\ Path(t, p, k)
    BY DEF Chain
  <1>2. p \in Ptr /\ i = Probe(t, h, k) /\ Extra(t, t.table[i]) = Mark(t, h, k)
    BY <1>1 DEF At
  <1>3. Valid(t.table[i]) /\ t.table[i] # Empty
    BY DEF Used, Valid
  <1>4. k \in Nat
    BY Sizes
  <1>5. \A j \in 0 .. k : t.table[Probe(t, h, j)] # Empty
    <2>1. \A j \in 0 .. k - 1 : t.table[Probe(t, h, j)] # Empty
      BY <1>1 DEF Path
    <2>2. \A j \in 0 .. k : j \in 0 .. k - 1 \/ j = k
      BY <1>4
    <2> QED BY <1>2, <1>3, <2>1, <2>2
  <1>6. k < Reach(t, h) /\ Reach(t, h) \in 0 .. Size(t) /\ Size(t) \in Nat
    BY <1>5, ReachFact, Sizes
  <1>7. k \in 0 .. Reach(t, h) - 1
    BY <1>4, <1>6
  <1> HIDE DEF h
  <1>8. k \in Candidates(t, h)
    BY <1>2, <1>3, <1>7 DEF Candidates, Mark, Probe
  <1>9. k \in Found(t, h, p)
    BY <1>2, <1>8 DEF Found
  <1> QED BY <1>2, <1>9 DEF h

-----------------------------------------------------------------------------
(* The calls *)

\* The next state is sound if it is a sound table, hashed as before.
LEMMA SoundNext ==
  ASSUME NEW t, Sound(t), ht' = t, hash' = hash
  PROVE  Sound(ht)'
  BY DEF Sound, Words, Chain, At, Path, Counted

\* An empty table of 2^b buckets.
Fresh(b, hp) ==
  [bits |-> b, perfect |-> 0, elems |-> 0, deleted |-> 0, locked |-> 0,
   mask |-> Bit, common |-> Empty, table |-> Zeroed(b), heap |-> hp]

\* A table just initialised (htable_init, htable_init_sized) has the invariant.
LEMMA EmptySound ==
  ASSUME NEW b \in 0 .. MaxBits, NEW t, t = Fresh(b, t.heap), t.heap \in BOOLEAN,
         ~t.heap => b = 0
  PROVE  Sound(t) /\ Used(t) = {} /\ t.elems = 0 /\ t.locked = 0
  <1>1. t = [bits |-> b, perfect |-> 0, elems |-> 0, deleted |-> 0, locked |-> 0,
             mask |-> Bit, common |-> Empty, table |-> Zeroed(b), heap |-> t.heap]
    BY DEF Fresh
  <1>2. /\ t.bits = b /\ t.perfect = 0 /\ t.elems = 0 /\ t.deleted = 0 /\ t.locked = 0
        /\ t.mask = Bit /\ t.common = Empty /\ t.table = Zeroed(b)
    BY <1>1
  <1>3. Buckets(t) = 0 .. Pow2[b] - 1
    BY <1>2 DEF Buckets, Size
  <1>4. Zeroed(b) = [i \in Buckets(t) |-> Empty]
    BY <1>3 DEF Zeroed
  <1>5. Empty \in Word /\ Bit \in Word /\ 0 \in Bit /\ Empty \subseteq Bit
    BY HtableAssumption DEF Empty, Word, Bit
  <1>6. t.table \in [Buckets(t) -> Word]
    BY <1>2, <1>4, <1>5
  <1>7. PerfectMask(t) \subseteq t.mask
    BY <1>2 DEF PerfectMask
  <1>8. Words(t)
    <2>1. t = [bits |-> t.bits, perfect |-> t.perfect, elems |-> t.elems,
               deleted |-> t.deleted, locked |-> t.locked, mask |-> t.mask,
               common |-> t.common, table |-> t.table, heap |-> t.heap]
      BY <1>1, <1>2
    <2>2. t.heap \in BOOLEAN
      OBVIOUS
    <2>3. /\ t.bits \in 0 .. MaxBits /\ t.perfect \in Bit
          /\ t.elems \in Nat /\ t.deleted \in Nat /\ t.locked \in Nat
          /\ t.mask \in Word /\ t.common \subseteq t.mask
      BY <1>2, <1>5
    <2> QED BY ONLY <1>6, <1>7, <2>1, <2>2, <2>3 DEF Words
  <1>9. Used(t) = {} /\ Markers(t) = {}
    BY <1>2, <1>4 DEF Used, Markers, Valid, Empty, Deleted
  <1>10. Chain(t)
    BY <1>9 DEF Chain
  <1>11. Counted(t)
    BY <1>2, <1>9, FS_EmptySet DEF Counted
  <1>12. t.elems + t.deleted <= Max7(t)
    <2> DEFINE n == Size(t)
    <2>1. n \in Nat
      BY <1>8, Sizes
    <2> HIDE DEF n
    <2>2. 0 <= (7 * n) \div 8
      BY <2>1
    <2> QED BY <1>2, <2>2 DEF Max7, n
  <1>13. ~t.heap => t.bits = 0
    BY <1>2
  <1>14. Sound(t)
    BY <1>8, <1>10, <1>11, <1>12, <1>13 DEF Sound
  <1> QED BY <1>2, <1>9, <1>14

\* htable_init and htable_clear.
LEMMA NewSound ==
  ASSUME NEW t, t = NewHtable
  PROVE  Sound(t) /\ Used(t) = {} /\ t.elems = 0 /\ t.locked = 0
  <1>1. Zeroed(0) = NoTable
    BY Pow2Fact DEF Zeroed, NoTable
  <1>2. t.heap = FALSE
    BY DEF NewHtable
  <1>3. t = Fresh(0, t.heap)
    BY <1>1, <1>2 DEF NewHtable, Fresh
  <1>4. 0 \in 0 .. MaxBits
    BY HtableAssumption
  <1>5. t.heap \in BOOLEAN
    BY ONLY <1>2
  <1> QED BY <1>3, <1>4, <1>5, EmptySound

\* The first step: htable_init or htable_init_sized.
LEMMA InitSound ==
  ASSUME Init
  PROVE  IInv /\ Used(ht) = {}
  <1>1. Sound(ht) /\ Used(ht) = {} /\ ht.elems = 0 /\ ht.locked = 0
    <2>1. CASE ht = NewHtable
      BY <2>1, NewSound
    <2>2. CASE \E n \in 0 .. Max7([bits |-> MaxBits]) : ht = Sized(n)
      <3>1. PICK n \in 0 .. Max7([bits |-> MaxBits]) : ht = Sized(n)
        BY <2>2
      <3> DEFINE T == {c \in 1 .. MaxBits : Max7([bits |-> c]) >= n}
                 b == Min(T)
                 t == [NewHtable EXCEPT !.bits = b, !.table = Zeroed(b), !.heap = TRUE]
      <3>2. ht = t
        BY <3>1 DEF Sized
      <3>3. MaxBits \in T
        <4>1. MaxBits \in 1 .. MaxBits
          BY HtableAssumption
        <4>2. Max7([bits |-> MaxBits]) \in Int
          <5>1. Pow2[MaxBits] \in Nat
            BY <4>1, Pow2Fact
          <5> QED BY <5>1 DEF Max7, Size
        <4>3. Max7([bits |-> MaxBits]) >= n
          BY <4>2
        <4> QED BY <4>1, <4>3
      <3>4. T \subseteq Nat /\ T \subseteq 1 .. MaxBits
        OBVIOUS
      <3>5. b \in T
        <4> HIDE DEF T
        <4> QED BY <3>3, <3>4, MinIn
      <3>6. b \in 0 .. MaxBits
        BY <3>4, <3>5
      <3> HIDE DEF b
      <3>7. Sound(t) /\ Used(t) = {} /\ t.elems = 0 /\ t.locked = 0
        <4>1. ASSUME NEW hp, NEW x,
                     x = [NewHtable EXCEPT !.bits = b, !.table = Zeroed(b), !.heap = hp]
              PROVE  x = Fresh(b, hp) /\ x.heap = hp
          BY <4>1 DEF NewHtable, Fresh
        <4>2. t = Fresh(b, TRUE) /\ t.heap = TRUE
          BY ONLY <4>1 DEF t
        <4> HIDE DEF t
        <4>3. t = Fresh(b, t.heap) /\ t.heap \in BOOLEAN /\ t.heap
          BY <4>2
        <4> QED BY <3>6, <4>3, EmptySound
      <3> HIDE DEF t
      <3> QED BY <3>2, <3>7
    <2> QED BY <2>1, <2>2 DEF Init
  <1>2. TypeOK
    <2>1. Words(ht)
      BY <1>1 DEF Sound
    <2>2. /\ ht.bits \in 0 .. MaxBits /\ ht.perfect \in Bit /\ ht.heap \in BOOLEAN
          /\ ht.deleted \in Nat /\ ht.table \in [Buckets(ht) -> Word]
          /\ ht.mask \in Word /\ ht.common \subseteq ht.mask
      BY <2>1 DEF Words
    <2>3. ht.elems \in 0 .. MaxElems /\ ht.locked \in 0 .. MaxLocks
      BY <1>1, HtableAssumption
    <2>4. hash \in Rehash
      BY DEF Init
    <2> QED BY <2>2, <2>3, <2>4 DEF TypeOK
  <1> QED BY <1>1, <1>2 DEF IInv

\* TypeOK follows from the record and the bounds.
LEMMA TypeNext ==
  ASSUME Sound(ht)', ht.elems' \in 0 .. MaxElems, ht.locked' \in 0 .. MaxLocks, hash' \in Rehash
  PROVE  IInv'
  <1>1. /\ (ht.bits \in 0 .. MaxBits)' /\ (ht.perfect \in Bit)' /\ (ht.heap \in BOOLEAN)'
        /\ (ht.deleted \in Nat)' /\ (ht.table \in [Buckets(ht) -> Word])'
        /\ (ht.mask \in Word)' /\ (ht.common \subseteq ht.mask)'
    BY DEF Sound, Words
  <1>2. TypeOK'
    BY <1>1 DEF TypeOK
  <1> QED BY <1>2 DEF IInv

\* The table after AddTo.
LEMMA AddToStep ==
  ASSUME NEW t, Words(t), Chain(t), Counted(t), ~t.heap => t.bits = 0,
         t.elems + 1 + t.deleted <= Max7(t), NEW p \in Ptr, AddTo(t, p)
  PROVE  \/ UNCHANGED ht /\ ret' = [op |-> "add", ptr |-> p, res |-> "assert"]
         \/ /\ \E w : w = ht' /\ Grown(t, w, p)
            /\ ret' = [op |-> "add", ptr |-> p, res |-> "true"]
  <1> DEFINE w == [HtAdd(UpdateCommon(t, p), p, hash[p]) EXCEPT !.elems = @ + 1]
  <1>1. Grown(t, w, p)
    BY AddToFact
  <1>2. CASE UNCHANGED ht /\ Return("add", p, "assert")
    BY <1>2 DEF Return
  <1>3. CASE ht' = w /\ Return("add", p, "true")
    <2> HIDE DEF w
    <2> QED BY <1>1, <1>3 DEF Return
  <1> QED BY <1>2, <1>3 DEF AddTo

\* What a step of htable_add does.
Adds(t, p) ==
  \/ /\ UNCHANGED ht
     /\ \/ ret' = [op |-> "add", ptr |-> p, res |-> "assert"]
        \/ ret' = [op |-> "add", ptr |-> p, res |-> "false"]
        \/ Loses /\ ret' = [op |-> "add", ptr |-> p, res |-> "wild"]
  \/ /\ ret' = [op |-> "add", ptr |-> p, res |-> "true"]
     /\ \E w : /\ w = ht' /\ Sound(w) /\ w.elems = t.elems + 1 /\ w.locked = t.locked
               /\ \/ Loses /\ w.bits > t.bits
                  \/ \A Q : Cardinality(Hits(w, Q))
                              = Cardinality(Hits(t, Q)) + (IF p \in Q THEN 1 ELSE 0)

\* htable_add_ does nothing else.
LEMMA HtableAddStep ==
  ASSUME IInv, NEW p \in Ptr, HtableAdd(p)
  PROVE  Adds(ht, p)
  <1>1. PICK t : t = ht
    OBVIOUS
  <1>2. Sound(t)
    BY <1>1 DEF IInv
  <1>3. /\ Words(t) /\ Chain(t) /\ Counted(t) /\ t.elems + t.deleted <= Max7(t)
        /\ ~t.heap => t.bits = 0
    BY <1>2 DEF Sound
  <1>4. t.elems \in Nat /\ t.deleted \in Nat /\ Max7(t) \in Int /\ t.bits \in Nat
    BY <1>3, Sizes DEF Words, Max7
  <1>5. CASE ~Full(t) /\ AddTo(t, p)
    <2>1. t.elems + 1 + t.deleted <= Max7(t)
      BY <1>4, <1>5 DEF Full
    <2>2. \/ UNCHANGED ht /\ ret' = [op |-> "add", ptr |-> p, res |-> "assert"]
          \/ /\ \E w : w = ht' /\ Grown(t, w, p)
             /\ ret' = [op |-> "add", ptr |-> p, res |-> "true"]
      BY <1>3, <1>5, <2>1, AddToStep
    <2> QED BY <1>1, <2>2 DEF Adds, Grown
  <1>6. CASE Full(t) /\ MayClean(t) /\ AddTo(RehashTable(t), p)
    <2>1. PICK u : u = RehashTable(t)
      OBVIOUS
    <2>2. Cleaned(t, u)
      BY <1>3, <2>1, RehashFact
    <2>3. /\ Words(u) /\ Chain(u) /\ Counted(u)
          /\ ~u.heap => u.bits = 0
          /\ u.elems = t.elems /\ u.locked = t.locked
          /\ \A Q : Cardinality(Hits(u, Q)) = Cardinality(Hits(t, Q))
      BY <1>3, <2>2 DEF Cleaned
    <2>4. u.elems + 1 + u.deleted <= Max7(u)
      <3>1. u.deleted = 0 /\ Max7(u) = Max7(t)
        BY <2>2 DEF Cleaned
      <3>2. MaxDeleted(t) >= 0 /\ MaxDeleted(t) \in Int
        <4> DEFINE n == Size(t)
        <4>1. n \in Nat
          BY <1>3, Sizes
        <4> HIDE DEF n
        <4>2. n \div 8 >= 0 /\ n \div 8 \in Int
          BY <4>1
        <4> QED BY <4>2 DEF n, MaxDeleted
      <3>3. t.deleted >= 1
        BY <1>4, <1>6, <3>2 DEF MayClean
      <3> QED BY <1>3, <1>4, <2>3, <3>1, <3>3
    <2>5. AddTo(u, p)
      BY <1>6, <2>1
    <2>6. \/ UNCHANGED ht /\ ret' = [op |-> "add", ptr |-> p, res |-> "assert"]
          \/ /\ \E w : w = ht' /\ Grown(u, w, p)
             /\ ret' = [op |-> "add", ptr |-> p, res |-> "true"]
      BY <2>3, <2>4, <2>5, AddToStep
    <2> QED BY <1>1, <2>3, <2>6 DEF Adds, Grown
  <1>7. CASE /\ Full(t) /\ ~MayClean(t) /\ t.bits < MaxBits
             /\ \/ ~DoubleTable(t).wild /\ AddTo(DoubleTable(t).t, p)
                \/ DoubleTable(t).wild /\ Return("add", p, "wild") /\ UNCHANGED ht
    <2>1. Twice(t, DoubleTable(t))
      BY <1>2, <1>7, DoubleFact
    <2>2. Loses <=> DoubleTable(t).t.mask # t.mask
      BY <1>1, <1>7 DEF Loses
    <2>3. CASE DoubleTable(t).wild /\ Return("add", p, "wild") /\ UNCHANGED ht
      <3>1. Loses
        BY <2>1, <2>2, <2>3 DEF Twice
      <3> QED BY <2>3, <3>1 DEF Adds, Return
    <2>4. CASE ~DoubleTable(t).wild /\ AddTo(DoubleTable(t).t, p)
      <3>1. PICK u : u = DoubleTable(t).t
        OBVIOUS
      <3>2. /\ Words(u) /\ Chain(u) /\ Counted(u) /\ u.heap = TRUE
            /\ u.bits = t.bits + 1 /\ u.elems = t.elems /\ u.deleted = 0 /\ u.locked = t.locked
            /\ u.elems + 1 <= Max7(u)
        BY <2>1, <2>4, <3>1 DEF Twice
      <3>3. u.elems + 1 + u.deleted <= Max7(u) /\ (~u.heap => u.bits = 0)
        BY <1>4, <3>2
      <3>4. AddTo(u, p)
        BY <2>4, <3>1
      <3>5. \/ UNCHANGED ht /\ ret' = [op |-> "add", ptr |-> p, res |-> "assert"]
            \/ /\ \E w : w = ht' /\ Grown(u, w, p)
               /\ ret' = [op |-> "add", ptr |-> p, res |-> "true"]
        BY <3>2, <3>3, <3>4, AddToStep
      <3>6. Loses \/ \A Q : Cardinality(Hits(u, Q)) = Cardinality(Hits(t, Q))
        BY <2>1, <2>2, <3>1 DEF Twice
      <3>7. ASSUME NEW w, Grown(u, w, p)
            PROVE  /\ Sound(w) /\ w.elems = t.elems + 1 /\ w.locked = t.locked
                   /\ w.bits > t.bits
                   /\ \A Q : Cardinality(Hits(w, Q))
                               = Cardinality(Hits(u, Q)) + (IF p \in Q THEN 1 ELSE 0)
        BY <1>4, <3>2, <3>7 DEF Grown
      <3> QED BY <1>1, <3>5, <3>6, <3>7 DEF Adds
    <2> QED BY <1>7, <2>3, <2>4
  <1>8. CASE UNCHANGED ht /\ Return("add", p, "false")
    BY <1>8 DEF Adds, Return
  <1> QED BY <1>1, <1>5, <1>6, <1>7, <1>8 DEF HtableAdd

\* What a step that deletes the entry of bucket i does.
Deletes(t, i) == \E w : w = ht' /\ Without(t, w, i)

\* htable_del deletes the first entry that lookup finds, if any.
LEMMA HtableDelStep ==
  ASSUME IInv, NEW p \in Ptr, HtableDel(p)
  PROVE  \/ /\ UNCHANGED ht /\ Found(ht, hash[p], p) = {}
            /\ ret' = [op |-> "del", ptr |-> p, res |-> "false"]
         \/ /\ \E i \in Used(ht) : Raw(ht, ht.table[i]) = p /\ Deletes(ht, i)
            /\ ret' = [op |-> "del", ptr |-> p, res |-> "true"]
  <1>1. PICK t : t = ht
    OBVIOUS
  <1>2. Sound(t) /\ Words(t)
    BY <1>1 DEF IInv, Sound
  <1> DEFINE at == Found(t, hash[p], p)
  <1>3. CASE UNCHANGED ht /\ at = {} /\ Return("del", p, "false")
    BY <1>1, <1>3 DEF Return
  <1>4. CASE at # {} /\ ht' = Delval(t, Probe(t, hash[p], Min(at))) /\ Return("del", p, "true")
    <2> DEFINE k == Min(at)
               i == Probe(t, hash[p], k)
    <2>1. at \subseteq Nat
      BY <1>2, FoundFact
    <2>2. k \in at
      <3> HIDE DEF at
      <3> QED BY <1>4, <2>1, MinIn
    <2> HIDE DEF k
    <2>3. i \in Used(t) /\ Raw(t, t.table[i]) = p
      BY <1>2, <2>2, FoundFact
    <2> HIDE DEF i
    <2>4. ht' = Delval(t, i)
      BY <1>4 DEF i, k
    <2>5. Without(t, Delval(t, i), i)
      BY <1>2, <2>3, DelvalFact
    <2>6. Deletes(t, i)
      BY <2>4, <2>5 DEF Deletes
    <2> QED BY <1>1, <1>4, <2>3, <2>6 DEF Return
  <1> QED BY <1>1, <1>3, <1>4 DEF HtableDel

\* htable_delval, of the entry of any bucket.
LEMMA HtableDelvalStep ==
  ASSUME IInv, NEW i \in Used(ht), HtableDelval(i)
  PROVE  /\ Deletes(ht, i)
         /\ ret' = [op |-> "del", ptr |-> Raw(ht, ht.table[i]), res |-> "true"]
  <1>1. PICK t : t = ht
    OBVIOUS
  <1>2. Sound(t) /\ i \in Used(t)
    BY <1>1 DEF IInv
  <1>3. Without(t, Delval(t, i), i)
    BY <1>2, DelvalFact
  <1>4. ht' = Delval(t, i)
    BY <1>1 DEF HtableDelval
  <1>5. Deletes(t, i)
    BY <1>3, <1>4 DEF Deletes
  <1> QED BY <1>1, <1>5 DEF HtableDelval, Return

\* A step that only changes how the table is held.
Holds(t) ==
  \E w : /\ w = ht' /\ Sound(w) /\ Reread(t, w) /\ w.elems = t.elems
         /\ w.locked \in 0 .. MaxLocks

\* htable_copy, htable_lock and htable_unlock.
LEMMA HoldStep ==
  ASSUME IInv, HtableCopy \/ HtableLock \/ HtableUnlock
  PROVE  Holds(ht)
  <1>1. PICK t : t = ht
    OBVIOUS
  <1>2. Sound(t) /\ t.locked \in 0 .. MaxLocks /\ MaxLocks \in Nat
    BY <1>1, HtableAssumption DEF IInv, TypeOK
  <1>3. /\ Words(t) /\ Chain(t) /\ Counted(t) /\ t.elems + t.deleted <= Max7(t)
        /\ ~t.heap => t.bits = 0
    BY <1>2 DEF Sound
  <1>4. t.elems \in Nat /\ t.deleted \in Nat /\ t.heap \in BOOLEAN
    BY <1>3 DEF Words
  <1>5. ASSUME NEW w, w.locked \in 0 .. MaxLocks, w.heap \in BOOLEAN, ~w.heap => t.bits = 0,
               w = Retold(t, t.elems, t.deleted, w.locked, w.heap)
        PROVE  Sound(w) /\ Reread(t, w) /\ w.elems = t.elems
    <2>1. w.elems = t.elems /\ w.deleted = t.deleted
      BY <1>5 DEF Retold
    <2>2. w.locked \in Nat
      BY <1>2, <1>5
    <2>3. Recounted(t, w)
      BY <1>4, <1>5, <2>1, <2>2 DEF Recounted
    <2>4. Words(w) /\ Reread(t, w)
      BY <1>3, <2>3, RetoldFact
    <2>5. /\ Chain(w) /\ Used(w) = Used(t) /\ Markers(w) = Markers(t) /\ Max7(w) = Max7(t)
          /\ w.bits = t.bits
      BY <1>3, <2>4 DEF Reread
    <2>6. Counted(w) /\ w.elems + w.deleted <= Max7(w)
      BY <1>3, <2>1, <2>5 DEF Counted
    <2>7. ~w.heap => w.bits = 0
      BY <1>5, <2>5
    <2> QED BY <2>1, <2>4, <2>5, <2>6, <2>7 DEF Sound
  <1>6. CASE HtableCopy
    <2>1. PICK w : w = ht'
      OBVIOUS
    <2>2. PICK b : b = TRUE /\ w = [t EXCEPT !.locked = 0, !.heap = b]
      BY <1>1, <1>6, <2>1 DEF HtableCopy
    <2>3. w = Retold(t, t.elems, t.deleted, 0, b)
      <3>1. w = [t EXCEPT !.locked = 0, !.heap = b]
        BY ONLY <2>2
      <3> QED BY ONLY <1>3, <3>1, ExceptsCopy
    <2>4. w.locked = 0 /\ w.heap = b
      BY ONLY <2>3 DEF Retold
    <2>5. w.locked \in 0 .. MaxLocks /\ w = Retold(t, t.elems, t.deleted, w.locked, w.heap)
      BY ONLY <1>2, <2>3, <2>4
    <2>6. w.heap \in BOOLEAN /\ w.heap
      BY ONLY <2>2, <2>4
    <2>7. Sound(w) /\ Reread(t, w) /\ w.elems = t.elems
      BY <1>5, <2>5, <2>6
    <2> QED BY <1>1, <2>1, <2>5, <2>7 DEF Holds
  <1>7. CASE HtableLock \/ HtableUnlock
    <2>1. PICK w : w = ht'
      OBVIOUS
    <2>2. PICK l \in 0 .. MaxLocks : w = [t EXCEPT !.locked = l]
      <3>1. CASE HtableLock
        <4>1. t.locked + 1 \in 0 .. MaxLocks
          BY <1>1, <1>2, <3>1 DEF HtableLock
        <4> QED BY <1>1, <2>1, <3>1, <4>1 DEF HtableLock
      <3>2. CASE HtableUnlock
        <4>1. t.locked - 1 \in 0 .. MaxLocks
          BY <1>1, <1>2, <3>2 DEF HtableUnlock
        <4> QED BY <1>1, <2>1, <3>2, <4>1 DEF HtableUnlock
      <3> QED BY <1>7, <3>1, <3>2
    <2>3. w = Retold(t, t.elems, t.deleted, l, t.heap)
      BY <1>3, <2>2, Excepts
    <2>4. w.locked = l /\ w.heap = t.heap
      BY <2>3 DEF Retold
    <2>5. w.locked \in 0 .. MaxLocks /\ w = Retold(t, t.elems, t.deleted, w.locked, w.heap)
      BY <2>2, <2>3, <2>4
    <2>6. w.heap \in BOOLEAN /\ (~w.heap => t.bits = 0)
      BY <1>3, <1>4, <2>4
    <2>7. Sound(w) /\ Reread(t, w) /\ w.elems = t.elems
      BY <1>5, <2>5, <2>6
    <2> QED BY <1>1, <2>1, <2>5, <2>7 DEF Holds
  <1> QED BY <1>6, <1>7

\* Every step keeps the invariant.
LEMMA StepSound ==
  ASSUME IInv, [Next]_vars
  PROVE  IInv'
  <1>1. /\ Sound(ht) /\ hash \in Rehash /\ ht.elems \in 0 .. MaxElems
        /\ ht.locked \in 0 .. MaxLocks /\ MaxElems \in Nat /\ MaxLocks \in Nat
    BY HtableAssumption DEF IInv, TypeOK
  <1>2. ASSUME UNCHANGED <<ht, hash>> PROVE IInv'
    <2>1. PICK w : w = ht
      OBVIOUS
    <2>2. Sound(w) /\ ht' = w /\ hash' = hash
      BY <1>1, <1>2, <2>1
    <2>3. Sound(ht)'
      BY <2>2, SoundNext
    <2> QED BY <1>1, <1>2, <2>3, TypeNext
  <1>3. ASSUME NEW w, w = ht', Sound(w), w.elems \in 0 .. MaxElems,
               w.locked \in 0 .. MaxLocks, hash' = hash
        PROVE  IInv'
    <2>1. Sound(ht)'
      BY <1>3, SoundNext
    <2> QED BY <1>1, <1>3, <2>1, TypeNext
  <1>4. CASE UNCHANGED vars
    BY <1>2, <1>4 DEF vars
  <1>5. ASSUME NEW p \in Ptr, HtableAdd(p) PROVE IInv'
    <2>1. Adds(ht, p)
      BY <1>5, HtableAddStep
    <2>2. hash' = hash /\ ht.elems < MaxElems
      BY <1>5 DEF HtableAdd
    <2>3. CASE UNCHANGED ht
      BY <1>2, <2>2, <2>3
    <2>4. CASE \E w : w = ht' /\ Sound(w) /\ w.elems = ht.elems + 1 /\ w.locked = ht.locked
      <3>1. PICK w : w = ht' /\ Sound(w) /\ w.elems = ht.elems + 1 /\ w.locked = ht.locked
        BY <2>4
      <3>2. w.elems \in 0 .. MaxElems /\ w.locked \in 0 .. MaxLocks
        BY <1>1, <2>2, <3>1
      <3> QED BY <1>3, <2>2, <3>1, <3>2
    <2> QED BY <2>1, <2>3, <2>4 DEF Adds
  <1>6. ASSUME NEW i, Deletes(ht, i), hash' = hash PROVE IInv'
    <2>1. PICK w : w = ht' /\ Sound(w) /\ w.elems = ht.elems - 1 /\ w.locked = ht.locked
      BY <1>6 DEF Deletes, Without
    <2>2. w.elems \in Nat
      BY <2>1 DEF Sound, Words
    <2>3. w.elems \in 0 .. MaxElems /\ w.locked \in 0 .. MaxLocks
      BY <1>1, <2>1, <2>2
    <2> QED BY <1>3, <1>6, <2>1, <2>3
  <1>7. ASSUME NEW p \in Ptr, HtableDel(p) PROVE IInv'
    <2>1. hash' = hash
      BY <1>7 DEF HtableDel
    <2>2. UNCHANGED ht \/ \E i \in Used(ht) : Deletes(ht, i)
      BY <1>7, HtableDelStep
    <2> QED BY <1>2, <1>6, <2>1, <2>2
  <1>8. ASSUME NEW i \in Used(ht), HtableDelval(i) PROVE IInv'
    BY <1>6, <1>8, HtableDelvalStep DEF HtableDelval
  <1>9. CASE HtableClear
    <2>1. PICK w : w = ht'
      OBVIOUS
    <2>2. w = NewHtable /\ hash' = hash
      BY <1>9, <2>1 DEF HtableClear
    <2>3. Sound(w) /\ w.elems = 0 /\ w.locked = 0
      BY <2>2, NewSound
    <2>4. w.elems \in 0 .. MaxElems /\ w.locked \in 0 .. MaxLocks
      BY <1>1, <2>3
    <2> QED BY <1>3, <2>1, <2>2, <2>3, <2>4
  <1>10. CASE HtableCopy \/ HtableLock \/ HtableUnlock
    <2>1. hash' = hash
      BY <1>10 DEF HtableCopy, HtableLock, HtableUnlock
    <2>2. PICK w : /\ w = ht' /\ Sound(w) /\ w.elems = ht.elems /\ w.locked \in 0 .. MaxLocks
      BY <1>10, HoldStep DEF Holds
    <2>3. w.elems \in 0 .. MaxElems
      BY <1>1, <2>2
    <2> QED BY <1>3, <2>1, <2>2, <2>3
  <1> QED BY <1>4, <1>5, <1>7, <1>8, <1>9, <1>10 DEF Next

-----------------------------------------------------------------------------
(* Theorems *)

\* Lookup finds every entry, whatever was added, deleted, cleaned, doubled or
\* fixed up before: the words, the chains and the counters of struct htable
\* are right after every call.
THEOREM HtableInductive == Spec => []IInv
  <1>1. Init => IInv
    BY InitSound
  <1>2. IInv /\ [Next]_vars => IInv'
    BY StepSound
  <1> QED BY <1>1, <1>2, PTL DEF Spec

\* The type invariant, for every word size, set of pointers and hash.
THEOREM HtableTypeOK == Spec => []TypeOK
  <1>1. IInv => TypeOK
    BY DEF IInv
  <1> QED BY <1>1, HtableInductive, PTL

\* htable_check: every pointer decoded from the table was added, and finds
\* itself by its hash; elems counts them.
THEOREM HtableAlwaysCheck == Spec => []HtableCheck
  <1>1. ASSUME IInv PROVE HtableCheck
    <2>1. Sound(ht)
      BY <1>1 DEF IInv
    <2>2. Words(ht) /\ Chain(ht) /\ Cardinality(Used(ht)) = ht.elems
      BY <2>1 DEF Sound, Counted
    <2>3. ASSUME NEW i \in Used(ht), NEW p, p = Raw(ht, ht.table[i])
          PROVE  p \in Ptr /\ Found(ht, hash[p], p) # {}
      BY <2>2, <2>3, FindsAll
    <2> QED BY <2>2, <2>3 DEF HtableCheck
  <1>2. IInv => HtableCheck
    BY <1>1
  <1> QED BY <1>2, HtableInductive, PTL

\* There is always an empty bucket to end a lookup: the markers never outgrow
\* deleted, and elems and deleted never ht_max.
THEOREM HtableRoomToProbe == Spec => []RoomToProbe
  <1>1. ASSUME IInv PROVE RoomToProbe
    <2>1. Sound(ht)
      BY <1>1 DEF IInv
    <2>2. Words(ht) /\ Counted(ht) /\ ht.elems + ht.deleted <= Max7(ht)
      BY <2>1 DEF Sound
    <2>3. \E i \in Buckets(ht) : ht.table[i] = Empty
      BY <2>2, Room
    <2> QED BY <2>2, <2>3 DEF RoomToProbe, Counted, Markers
  <1>2. IInv => RoomToProbe
    BY <1>1
  <1> QED BY <1>2, HtableInductive, PTL

\* A step that adds nothing moves no entry: htable_del and htable_delval are
\* safe in an iteration.
THEOREM HtableIterationSafe == Spec => IterationSafe
  <1> DEFINE Stays == ht'.elems <= ht.elems =>
                        /\ Used(ht') \subseteq Used(ht)
                        /\ \A i \in Used(ht') : Raw(ht', ht'.table[i]) = Raw(ht, ht.table[i])
  <1>1. ASSUME IInv, [Next]_vars PROVE Stays \/ UNCHANGED vars
    <2>1. ht.elems \in Nat
      BY <1>1 DEF IInv, Sound, Words
    <2>2. ASSUME NEW p \in Ptr, HtableAdd(p) PROVE Stays
      <3>1. Adds(ht, p)
        BY <1>1, <2>2, HtableAddStep
      <3>2. CASE UNCHANGED ht
        BY <3>2
      <3>3. CASE ht'.elems = ht.elems + 1
        <4>1. ~(ht'.elems <= ht.elems)
          BY <2>1, <3>3
        <4> QED BY <4>1
      <3> QED BY <3>1, <3>2, <3>3 DEF Adds
    <2>3. ASSUME NEW i, Deletes(ht, i) PROVE Stays
      <3>1. PICK w : w = ht' /\ Without(ht, w, i)
        BY <2>3 DEF Deletes
      <3>2. /\ Used(w) \subseteq Used(ht)
            /\ \A x \in Used(w) : Raw(w, w.table[x]) = Raw(ht, ht.table[x])
        BY <3>1 DEF Without
      <3> QED BY <3>1, <3>2
    <2>4. ASSUME NEW p \in Ptr, HtableDel(p) PROVE Stays
      <3>1. UNCHANGED ht \/ \E i \in Used(ht) : Deletes(ht, i)
        BY <1>1, <2>4, HtableDelStep
      <3>2. CASE UNCHANGED ht
        BY <3>2
      <3> QED BY <2>3, <3>1, <3>2
    <2>5. ASSUME NEW i \in Used(ht), HtableDelval(i) PROVE Stays
      BY <1>1, <2>3, <2>5, HtableDelvalStep
    <2>6. CASE HtableClear
      <3>1. PICK w : w = ht'
        OBVIOUS
      <3>2. w = NewHtable
        BY <2>6, <3>1 DEF HtableClear
      <3>3. Used(w) = {}
        BY <3>2, NewSound
      <3> QED BY <3>1, <3>3
    <2>7. CASE HtableCopy \/ HtableLock \/ HtableUnlock
      <3>1. PICK w : w = ht' /\ Reread(ht, w)
        BY <1>1, <2>7, HoldStep DEF Holds
      <3>2. Used(w) = Used(ht) /\ w.table = ht.table /\ \A x : Raw(w, x) = Raw(ht, x)
        BY <3>1 DEF Reread
      <3> QED BY <3>1, <3>2
    <2> QED BY <1>1, <2>2, <2>4, <2>5, <2>6, <2>7 DEF Next
  <1>2. IInv /\ [Next]_vars => [Stays]_vars
    BY <1>1
  <1> QED BY <1>2, HtableInductive, PTL DEF Spec, IterationSafe

-----------------------------------------------------------------------------
(* The bag *)

\* The bag counts the entries of each pointer.
LEMMA BagFact ==
  /\ Bag = [p \in Ptr |-> Cardinality(Hits(ht, {p}))]
  /\ Bag' = [p \in Ptr |-> Cardinality(Hits(ht', {p}))]
  <1>1. \A t, p : {i \in Used(t) : Raw(t, t.table[i]) = p} = Hits(t, {p})
    BY DEF Hits
  <1>2. Bag = [p \in Ptr |-> Cardinality(Hits(ht, {p}))]
    BY <1>1 DEF Bag
  <1>3. Bag' = [p \in Ptr |-> Cardinality(Hits(ht', {p}))]
    BY <1>1 DEF Bag
  <1> QED BY <1>2, <1>3

\* A step that deletes an entry takes its pointer out of the bag.
LEMMA DeletesBag ==
  ASSUME IInv, NEW i \in Used(ht), Deletes(ht, i), NEW p, p = Raw(ht, ht.table[i]), p \in Ptr
  PROVE  Bag[p] > 0 /\ Bag' = [Bag EXCEPT ![p] = @ - 1]
  <1>1. Words(ht)
    BY DEF IInv, Sound
  <1>2. PICK w : w = ht' /\ Without(ht, w, i)
    BY DEF Deletes
  <1>3. /\ Used(w) = Used(ht) \ {i}
        /\ \A x \in Used(w) : Raw(w, w.table[x]) = Raw(ht, ht.table[x])
    BY <1>2 DEF Without
  <1>4. \A Q : Hits(w, Q) = Hits(ht, Q) \ {i}
    BY <1>3 DEF Hits
  <1>5. ASSUME NEW Q
        PROVE  /\ IsFiniteSet(Hits(ht, Q)) /\ Cardinality(Hits(ht, Q)) \in Nat
               /\ i \in Hits(ht, Q) <=> p \in Q
    <2>1. Hits(ht, Q) \in SUBSET Buckets(ht)
      BY DEF Hits, Used
    <2>2. IsFiniteSet(Hits(ht, Q)) /\ Cardinality(Hits(ht, Q)) \in Nat
      BY <1>1, <2>1, BucketsFinite
    <2>3. i \in Hits(ht, Q) <=> p \in Q
      BY DEF Hits
    <2> QED BY <2>2, <2>3
  <1>6. /\ Cardinality(Hits(w, {p})) = Cardinality(Hits(ht, {p})) - 1
        /\ Cardinality(Hits(w, {p})) \in Nat
    <2>1. i \in Hits(ht, {p}) /\ IsFiniteSet(Hits(ht, {p}))
      BY <1>5
    <2>2. /\ IsFiniteSet(Hits(ht, {p}) \ {i})
          /\ Cardinality(Hits(ht, {p}) \ {i}) = Cardinality(Hits(ht, {p})) - 1
      BY <2>1, FS_RemoveElement
    <2> QED BY <1>4, <2>2, FS_CardinalityType
  <1>7. ASSUME NEW q \in Ptr, q # p PROVE Cardinality(Hits(w, {q})) = Cardinality(Hits(ht, {q}))
    <2>1. i \notin Hits(ht, {q})
      BY <1>5, <1>7
    <2>2. Hits(w, {q}) = Hits(ht, {q})
      BY <1>4, <2>1
    <2> QED BY <2>2
  <1>8. Cardinality(Hits(ht, {p})) > 0
    BY <1>5, <1>6
  <1>9. Bag[p] > 0
    BY <1>8, BagFact
  <1>10. Bag' = [q \in Ptr |-> Cardinality(Hits(w, {q}))]
    BY <1>2, BagFact
  <1>11. Bag' = [Bag EXCEPT ![p] = @ - 1]
    <2>1. Bag = [q \in Ptr |-> Cardinality(Hits(ht, {q}))]
      BY BagFact
    <2> QED BY <1>6, <1>7, <1>10, <2>1
  <1> QED BY <1>9, <1>11

\* The bag after a step is that before it if the entries of all pointers are.
LEMMA SameBag ==
  ASSUME NEW w, w = ht', \A Q : Hits(w, Q) = Hits(ht, Q)
  PROVE  Bag' = Bag
  BY BagFact

\* An exception apart, a step is one of the bag.
LEMMA BagStep ==
  ASSUME IInv, [Next]_vars
  PROVE  \/ ret'.res = "assert"
         \/ Loses /\ (ht'.bits > ht.bits \/ ret'.res = "wild")
         \/ HtableBag!Next \/ UNCHANGED HtableBag!vars
  <1> USE DEF HtableBag!Return
  <1>1. Words(ht) /\ Chain(ht)
    BY DEF IInv, Sound
  <1>2. UNCHANGED <<Bag, ret>> => UNCHANGED HtableBag!vars
    BY DEF HtableBag!vars
  <1>3. UNCHANGED ht => UNCHANGED Bag
    <2>1. SUFFICES ASSUME UNCHANGED ht PROVE UNCHANGED Bag
      OBVIOUS
    <2>2. PICK w : w = ht' /\ w = ht
      BY <2>1
    <2> QED BY <2>2, SameBag
  <1>4. CASE UNCHANGED vars
    BY <1>2, <1>3, <1>4 DEF vars
  <1>5. ASSUME NEW p \in Ptr, HtableAdd(p)
        PROVE  \/ ret'.res = "assert"
               \/ Loses /\ (ht'.bits > ht.bits \/ ret'.res = "wild")
               \/ HtableBag!Next
    <2>1. Adds(ht, p)
      BY <1>5, HtableAddStep
    <2>2. CASE ret' = [op |-> "add", ptr |-> p, res |-> "assert"]
      BY <2>2
    <2>3. CASE UNCHANGED ht /\ ret' = [op |-> "add", ptr |-> p, res |-> "false"]
      <3>1. HtableBag!AddFails(p)
        BY <1>3, <2>3 DEF HtableBag!AddFails
      <3> QED BY <3>1 DEF HtableBag!Next
    <2>4. CASE Loses /\ ret' = [op |-> "add", ptr |-> p, res |-> "wild"]
      BY <2>4
    <2>5. CASE Loses /\ ht'.bits > ht.bits
      BY <2>5
    <2>6. CASE /\ ret' = [op |-> "add", ptr |-> p, res |-> "true"]
               /\ \E w : w = ht' /\ \A Q : Cardinality(Hits(w, Q))
                                   = Cardinality(Hits(ht, Q)) + (IF p \in Q THEN 1 ELSE 0)
      <3>1. PICK w : w = ht' /\ \A Q : Cardinality(Hits(w, Q))
                                   = Cardinality(Hits(ht, Q)) + (IF p \in Q THEN 1 ELSE 0)
        BY <2>6
      <3>2. ASSUME NEW q \in Ptr
            PROVE  /\ Cardinality(Hits(w, {q}))
                        = IF q = p THEN Cardinality(Hits(ht, {q})) + 1
                          ELSE Cardinality(Hits(ht, {q}))
        <4>1. Hits(ht, {q}) \in SUBSET Buckets(ht)
          BY DEF Hits, Used
        <4>2. Cardinality(Hits(ht, {q})) \in Nat
          BY <1>1, <4>1, BucketsFinite
        <4>3. Cardinality(Hits(w, {q}))
                = Cardinality(Hits(ht, {q})) + (IF p \in {q} THEN 1 ELSE 0)
          BY <3>1
        <4> QED BY <4>2, <4>3
      <3>3. Bag' = [q \in Ptr |-> Cardinality(Hits(w, {q}))]
        BY <3>1, BagFact
      <3>4. Bag = [q \in Ptr |-> Cardinality(Hits(ht, {q}))]
        BY BagFact
      <3>5. Bag' = [Bag EXCEPT ![p] = @ + 1]
        BY <3>2, <3>3, <3>4
      <3>6. HtableBag!Add(p)
        BY <2>6, <3>5 DEF HtableBag!Add
      <3> QED BY <3>6 DEF HtableBag!Next
    <2> QED BY <2>1, <2>2, <2>3, <2>4, <2>5, <2>6 DEF Adds
  <1>6. ASSUME NEW p \in Ptr, NEW i \in Used(ht), Deletes(ht, i), p = Raw(ht, ht.table[i]),
               ret' = [op |-> "del", ptr |-> p, res |-> "true"]
        PROVE  HtableBag!Next
    <2>1. Bag[p] > 0 /\ Bag' = [Bag EXCEPT ![p] = @ - 1]
      BY <1>6, DeletesBag
    <2>2. HtableBag!Del(p)
      BY <1>6, <2>1 DEF HtableBag!Del
    <2> QED BY <2>2 DEF HtableBag!Next
  <1>7. ASSUME NEW p \in Ptr, HtableDel(p) PROVE HtableBag!Next
    <2>1. CASE /\ UNCHANGED ht /\ Found(ht, hash[p], p) = {}
               /\ ret' = [op |-> "del", ptr |-> p, res |-> "false"]
      <3>1. Hits(ht, {p}) = {}
        BY <1>1, <2>1, FindsAll DEF Hits
      <3>2. Bag[p] = 0
        BY <3>1, BagFact, FS_EmptySet
      <3>3. HtableBag!DelFails(p)
        BY <1>3, <2>1, <3>2 DEF HtableBag!DelFails
      <3> QED BY <3>3 DEF HtableBag!Next
    <2> QED BY <1>6, <1>7, <2>1, HtableDelStep
  <1>8. ASSUME NEW i \in Used(ht), HtableDelval(i) PROVE HtableBag!Next
    <2>1. Raw(ht, ht.table[i]) \in Ptr
      BY <1>1, FindsAll
    <2> QED BY <1>6, <1>8, <2>1, HtableDelvalStep
  <1>9. CASE HtableClear
    <2>1. PICK w : w = ht' /\ w = NewHtable
      BY <1>9 DEF HtableClear
    <2>2. \A Q : Hits(w, Q) = {}
      BY <2>1, NewSound DEF Hits
    <2>3. Bag' = [p \in Ptr |-> 0]
      BY <2>1, <2>2, BagFact, FS_EmptySet
    <2>4. HtableBag!Clear
      BY <1>9, <2>3 DEF HtableBag!Clear, HtableClear, Return
    <2> QED BY <2>4 DEF HtableBag!Next
  <1>10. CASE HtableCopy \/ HtableLock \/ HtableUnlock
    <2>1. PICK w : w = ht' /\ Reread(ht, w)
      BY <1>10, HoldStep DEF Holds
    <2>2. Bag' = Bag
      BY <2>1, SameBag DEF Reread
    <2>3. UNCHANGED ret
      BY <1>10 DEF HtableCopy, HtableLock, HtableUnlock
    <2> QED BY <1>2, <2>2, <2>3
  <1> QED BY <1>4, <1>5, <1>7, <1>8, <1>9, <1>10 DEF Next

\* Apart from a double_table that gives back common bits, and from the
\* assertion of htable.c:279, every call does to the bag of pointers what it
\* says.
THEOREM HtableBagSteps == Spec => BagSteps
  <1>1. IInv /\ [Next]_vars =>
          [\/ ret'.res = "assert"
           \/ Loses /\ (ht'.bits > ht.bits \/ ret'.res = "wild")
           \/ HtableBag!Next \/ UNCHANGED HtableBag!vars]_vars
    BY BagStep
  <1> QED BY <1>1, HtableInductive, PTL DEF Spec, BagSteps

\* The table implements the bag in every behaviour that meets neither.
THEOREM HtableImplementsBag == Spec /\ []~Loses /\ []NoAssert => ImplementsBag
  <1>1. Init => HtableBag!Init
    <2> SUFFICES ASSUME Init PROVE HtableBag!Init
      OBVIOUS
    <2>1. Used(ht) = {}
      BY InitSound
    <2>2. Bag = [p \in Ptr |-> 0]
      BY <2>1, BagFact, FS_EmptySet DEF Hits
    <2>3. ret.op = "init"
      BY DEF Init
    <2> QED BY <2>2, <2>3 DEF HtableBag!Init
  <1>2. IInv /\ [Next]_vars /\ ~Loses /\ NoAssert' => [HtableBag!Next]_(HtableBag!vars)
    BY BagStep DEF NoAssert
  <1> QED BY <1>1, <1>2, HtableInductive, PTL DEF Spec, ImplementsBag, HtableBag!Spec
=============================================================================
