------------------------------ MODULE NumProofs ------------------------------
(***************************************************************************)
(* Facts about numbers that the proofs of several components use: least    *)
(* members, induction, and that a function may be defined by recursion on  *)
(* an interval.  A property to be proved by induction is given as the set  *)
(* of the numbers that have it, and a recursion step as a function, so     *)
(* that no lemma has an operator for a parameter.                          *)
(***************************************************************************)
EXTENDS Integers, WellFoundedInduction, TLAPS

\* A set of numbers has a least member, for a well-founded relation that orders it.
LEMMA LeastOf ==
  ASSUME NEW R, IsWellFoundedOn(R, Nat),
         \A x, y \in Nat : y < x => <<y, x>> \in R,
         NEW T, T \subseteq Nat, T # {}
  PROVE  \E x \in T : \A y \in T : x <= y
  <1>1. PICK x \in T : \A y \in T : ~(<<y, x>> \in R)
    BY WFMin, Zenon
  <1>2. \A y \in T : ~(y < x)
    BY <1>1
  <1> QED BY <1>2

\* Every set of natural numbers that is not empty has a least member.
LEMMA LeastNumber ==
  ASSUME NEW T, T \subseteq Nat, T # {}
  PROVE  \E x \in T : \A y \in T : x <= y
  <1>1. \A x, y \in Nat : y < x => <<y, x>> \in OpToRel(<, Nat)
    BY DEF OpToRel
  <1> QED BY <1>1, NatLessThanWellFounded, LeastOf, Zenon

\* Induction: a set that has 0 and, with a number below N, the next, has all up to N.
LEMMA InductionTo ==
  ASSUME NEW N \in Nat, NEW S, 0 \in S,
         \A n \in 0 .. N - 1 : n \in S => n + 1 \in S
  PROVE  \A n \in 0 .. N : n \in S
  <1> SUFFICES ASSUME NEW m \in 0 .. N, m \notin S PROVE FALSE
    OBVIOUS
  <1> DEFINE T == {n \in 0 .. N : n \notin S}
  <1>1. PICK x \in T : \A y \in T : x <= y
    <2>1. T \subseteq Nat /\ T # {}
      OBVIOUS
    <2> HIDE DEF T
    <2> QED BY <2>1, LeastNumber
  <1>2. x # 0 /\ x \in 0 .. N
    OBVIOUS
  <1>3. x - 1 \in 0 .. N - 1 /\ x - 1 \notin T
    BY <1>1, <1>2
  <1>4. x - 1 \in S
    BY <1>3
  <1>5. (x - 1) + 1 \in S
    BY <1>3, <1>4
  <1> QED BY <1>2, <1>5

\* Induction over all the numbers.
LEMMA Induction ==
  ASSUME NEW S, 0 \in S, \A n \in Nat : n \in S => n + 1 \in S
  PROVE  \A n \in Nat : n \in S
  <1> SUFFICES ASSUME NEW m \in Nat PROVE m \in S
    OBVIOUS
  <1>1. \A n \in 0 .. m - 1 : n \in S => n + 1 \in S
    OBVIOUS
  <1>2. \A n \in 0 .. m : n \in S
    BY <1>1, InductionTo
  <1> QED BY <1>2

\* A set of numbers below a bound has a greatest member.
LEMMA GreatestNumber ==
  ASSUME NEW N \in Nat, NEW T, T \subseteq 0 .. N, T # {}
  PROVE  \E x \in T : \A y \in T : y <= x
  <1> DEFINE D == {k \in 0 .. N : N - k \in T}
  <1>1. PICK d \in D : \A y \in D : d <= y
    <2>1. D \subseteq Nat /\ D # {}
      <3>1. PICK x \in T : TRUE
        OBVIOUS
      <3>2. N - x \in D
        OBVIOUS
      <3>3. D \subseteq Nat
        OBVIOUS
      <3> HIDE DEF D
      <3> QED BY <3>2, <3>3
    <2> HIDE DEF D
    <2> QED BY <2>1, LeastNumber
  <1>2. \A y \in T : N - y \in D
    OBVIOUS
  <1> QED BY <1>1, <1>2

\* g is defined by recursion on 0 .. n: it starts with b and goes on with step.
Unfolds(g, D, b, step, n) ==
  /\ g \in [0 .. n -> D]
  /\ g[0] = b
  /\ \A i \in 1 .. n : g[i] = step[i][g[i - 1]]

\* One more value of a function that is defined by recursion.
LEMMA RecursionStep ==
  ASSUME NEW D, NEW b \in D, NEW N \in Nat, NEW step \in [1 .. N -> [D -> D]],
         NEW n \in 0 .. N - 1, NEW f, Unfolds(f, D, b, step, n)
  PROVE  \E g : Unfolds(g, D, b, step, n + 1)
  <1> USE DEF Unfolds
  <1> DEFINE g == [i \in 0 .. n + 1 |-> IF i = n + 1 THEN step[n + 1][f[n]] ELSE f[i]]
  <1>1. step[n + 1][f[n]] \in D
    <2>1. step[n + 1] \in [D -> D]
      OBVIOUS
    <2>2. f[n] \in D
      OBVIOUS
    <2> QED BY <2>1, <2>2
  <1>2. g \in [0 .. n + 1 -> D]
    BY <1>1
  <1>3. g[0] = b
    OBVIOUS
  <1>4. ASSUME NEW i \in 1 .. n + 1 PROVE g[i] = step[i][g[i - 1]]
    <2>1. g[i - 1] = f[i - 1]
      OBVIOUS
    <2>2. CASE i = n + 1
      BY <2>1, <2>2
    <2>3. CASE i # n + 1
      BY <2>1, <2>3
    <2> QED BY <2>2, <2>3
  <1>5. Unfolds(g, D, b, step, n + 1)
    BY <1>2, <1>3, <1>4
  <1> QED BY <1>5

\* A function on an interval may be defined by recursion.
LEMMA Recursion ==
  ASSUME NEW D, NEW b \in D, NEW N \in Nat, NEW step \in [1 .. N -> [D -> D]]
  PROVE  \E g : Unfolds(g, D, b, step, N)
  <1> DEFINE S == {n \in 0 .. N : \E g : Unfolds(g, D, b, step, n)}
  <1>1. 0 \in S
    <2> DEFINE g == [i \in 0 .. 0 |-> b]
    <2>1. Unfolds(g, D, b, step, 0)
      BY DEF Unfolds
    <2> HIDE DEF g
    <2> QED BY <2>1
  <1>2. ASSUME NEW n \in 0 .. N - 1, n \in S PROVE n + 1 \in S
    <2>1. PICK f : Unfolds(f, D, b, step, n)
      BY <1>2
    <2>2. \E g : Unfolds(g, D, b, step, n + 1)
      BY <2>1, RecursionStep
    <2>3. n + 1 \in 0 .. N
      OBVIOUS
    <2> QED BY <2>2, <2>3
  <1>3. \A n \in 0 .. N : n \in S
    <2> HIDE DEF S
    <2> QED BY <1>1, <1>2, InductionTo
  <1>4. N \in S
    BY <1>3
  <1> QED BY <1>4

\* Turn n of a loop takes the values allowed before it, D[n - 1], to those
\* allowed after it, D[n].
Turns(D, step, N) == \A n \in 1 .. N : \A v \in D[n - 1] : step[n][v] \in D[n]

\* g has the values of all turns.
Loops(g, U, D, b, step, N) ==
  /\ g \in [0 .. N -> U] /\ g[0] = b
  /\ \A n \in 1 .. N : g[n] = step[n][g[n - 1]]
  /\ \A n \in 0 .. N : g[n] \in D[n]

\* A loop whose turns go from allowed values to allowed values has them only.
LEMMA Iteration ==
  ASSUME NEW N \in Nat, NEW U, NEW D \in [0 .. N -> SUBSET U], NEW b \in D[0], NEW step,
         Turns(D, step, N)
  PROVE  \E g : Loops(g, U, D, b, step, N)
  <1> USE DEF Turns
  <1> DEFINE guarded == [n \in 1 .. N |->
                           [v \in U |-> IF v \in D[n - 1] THEN step[n][v] ELSE v]]
  <1>1. guarded \in [1 .. N -> [U -> U]]
    <2>1. ASSUME NEW n \in 1 .. N, NEW v \in U
          PROVE  (IF v \in D[n - 1] THEN step[n][v] ELSE v) \in U
      <3>1. n \in 0 .. N /\ D[n] \subseteq U
        OBVIOUS
      <3> QED BY <3>1
    <2> QED BY <2>1
  <1>2. b \in U
    <2>1. D[0] \subseteq U
      OBVIOUS
    <2> QED BY <2>1
  <1>3. PICK g : Unfolds(g, U, b, guarded, N)
    <2> HIDE DEF guarded
    <2> QED BY <1>1, <1>2, Recursion
  <1>4. g \in [0 .. N -> U] /\ g[0] = b
    <2> HIDE DEF guarded
    <2> QED BY <1>3 DEF Unfolds
  <1>5. ASSUME NEW n \in 1 .. N, g[n - 1] \in D[n - 1] PROVE g[n] = step[n][g[n - 1]]
    <2>1. g[n] = guarded[n][g[n - 1]]
      <3> HIDE DEF guarded
      <3> QED BY <1>3 DEF Unfolds
    <2>2. g[n - 1] \in U
      <3>1. n - 1 \in 0 .. N
        OBVIOUS
      <3> QED BY <1>4, <3>1
    <2> QED BY <1>5, <2>1, <2>2
  <1> DEFINE S == {n \in 0 .. N : g[n] \in D[n]}
  <1>6. 0 \in S
    BY <1>4
  <1>7. ASSUME NEW n \in 0 .. N - 1, n \in S PROVE n + 1 \in S
    <2>1. n + 1 \in 1 .. N /\ (n + 1) - 1 = n /\ g[n] \in D[n]
      BY <1>7
    <2>2. g[n + 1] = step[n + 1][g[n]]
      BY <1>5, <2>1
    <2>3. step[n + 1][g[n]] \in D[n + 1]
      BY <2>1
    <2> QED BY <2>1, <2>2, <2>3
  <1>8. \A n \in 0 .. N : n \in S
    <2> HIDE DEF S
    <2> QED BY <1>6, <1>7, InductionTo
  <1>9. \A n \in 0 .. N : g[n] \in D[n]
    BY <1>8
  <1>10. ASSUME NEW n \in 1 .. N PROVE g[n] = step[n][g[n - 1]]
    <2>1. n - 1 \in 0 .. N
      OBVIOUS
    <2> QED BY <1>5, <1>9, <2>1
  <1> QED BY <1>4, <1>9, <1>10 DEF Loops
=============================================================================
