----------------------------- MODULE TalProofs -----------------------------
(***************************************************************************)
(* Proofs of the invariants of Tal, for any number of objects, notifiers   *)
(* and nested calls of tal_free.                                           *)
(***************************************************************************)
EXTENDS TalInv, SequenceTheorems, FiniteSetTheorems, WellFoundedInduction, TLAPS

(* Lists *)

\* A non-empty set of numbers has a least element: the least-number
\* principle for a set, so that it needs no operator.
LEMMA LeastIn ==
  ASSUME NEW R, IsWellFoundedOn(R, Nat),
         \A x, y \in Nat : y < x => <<y, x>> \in R,
         NEW T, T \subseteq Nat, T # {}
  PROVE  \E x \in T : \A y \in T : x <= y
  <1>1. PICK x \in T : \A y \in T : ~(<<y, x>> \in R)
    BY WFMin, Zenon
  <1>2. \A y \in T : ~(y < x)
    BY <1>1
  <1> QED BY <1>2

\* Every set of numbers has a least one.
LEMMA LeastNat ==
  ASSUME NEW T, T \subseteq Nat, T # {}
  PROVE  \E x \in T : \A y \in T : x <= y
  <1>1. \A x, y \in Nat : y < x => <<y, x>> \in OpToRel(<, Nat)
    BY DEF OpToRel
  <1> QED BY <1>1, NatLessThanWellFounded, LeastIn, Zenon

\* The members of a list, and a list without repetition.
LEMMA ToSetIs ==
  ASSUME NEW S, NEW s \in Seq(S)
  PROVE  /\ \A x : x \in ToSet(s) <=> \E i \in 1 .. Len(s) : s[i] = x
         /\ ToSet(s) \subseteq S
         /\ IsInjective(s) <=> \A i, j \in 1 .. Len(s) : s[i] = s[j] => i = j
         /\ Len(s) \in Nat
  BY DEF ToSet, IsInjective

\* add_child and add_notifier_property: something is put first.
LEMMA ConsFacts ==
  ASSUME NEW S, NEW s \in Seq(S), NEW e \in S
  PROVE  /\ <<e>> \o s \in Seq(S)
         /\ ToSet(<<e>> \o s) = ToSet(s) \cup {e}
         /\ IsInjective(s) /\ e \notin ToSet(s) => IsInjective(<<e>> \o s)
         /\ Len(<<e>> \o s) = Len(s) + 1
         /\ (<<e>> \o s)[1] = e
         /\ \A i \in 1 .. Len(s) : (<<e>> \o s)[i + 1] = s[i]
  <1> DEFINE t == <<e>> \o s
  <1>1. t \in Seq(S) /\ Len(t) = Len(s) + 1 /\ t[1] = e
    OBVIOUS
  <1>2. \A i \in 1 .. Len(s) : t[i + 1] = s[i]
    OBVIOUS
  <1>3. \A i \in 1 .. Len(t) : i = 1 \/ (i - 1 \in 1 .. Len(s) /\ t[i] = s[i - 1])
    OBVIOUS
  <1> HIDE DEF t
  <1>4. \A i \in 1 .. Len(s) : i + 1 \in 1 .. Len(t)
    BY <1>1, ToSetIs
  <1>5. ToSet(t) = ToSet(s) \cup {e}
    <2>1. \A x \in ToSet(t) : x \in ToSet(s) \cup {e}
      BY <1>1, <1>3, ToSetIs
    <2>2. \A x \in ToSet(s) : x \in ToSet(t)
      BY <1>1, <1>2, <1>4, ToSetIs
    <2>3. e \in ToSet(t)
      BY <1>1, ToSetIs
    <2> QED BY <2>1, <2>2, <2>3
  <1>6. ASSUME IsInjective(s), e \notin ToSet(s)
        PROVE  IsInjective(t)
    <2>1. ASSUME NEW i \in 1 .. Len(t), NEW j \in 1 .. Len(t), t[i] = t[j]
          PROVE  i = j
      <3>1. i = 1 \/ (i - 1 \in 1 .. Len(s) /\ t[i] = s[i - 1])
        BY <1>3
      <3>2. j = 1 \/ (j - 1 \in 1 .. Len(s) /\ t[j] = s[j - 1])
        BY <1>3
      <3>3. \A n \in 1 .. Len(s) : s[n] # e
        BY <1>6, ToSetIs
      <3>4. i = 1 <=> j = 1
        BY <1>1, <2>1, <3>1, <3>2, <3>3
      <3>5. i # 1 => i - 1 = j - 1
        BY <1>6, <2>1, <3>1, <3>2, <3>4, ToSetIs
      <3> QED BY <3>4, <3>5
    <2> QED BY <1>1, <2>1, ToSetIs
  <1> QED BY <1>1, <1>2, <1>5, <1>6 DEF t

\* list_top and list_del: the first is taken.
LEMMA TailFacts ==
  ASSUME NEW S, NEW s \in Seq(S), s # <<>>, IsInjective(s)
  PROVE  /\ Tail(s) \in Seq(S) /\ Head(s) \in ToSet(s)
         /\ ToSet(Tail(s)) = ToSet(s) \ {Head(s)}
         /\ IsInjective(Tail(s))
  <1> DEFINE t == Tail(s)
  <1>1. t \in Seq(S) /\ Len(t) = Len(s) - 1 /\ Len(s) \in Nat \ {0} /\ Head(s) = s[1]
    OBVIOUS
  <1>2. \A i \in 1 .. Len(t) : i + 1 \in 1 .. Len(s) /\ t[i] = s[i + 1]
    OBVIOUS
  <1>3. \A i \in 1 .. Len(s) : i = 1 \/ (i - 1 \in 1 .. Len(t) /\ t[i - 1] = s[i])
    OBVIOUS
  <1> HIDE DEF t
  <1>4. ToSet(t) \subseteq ToSet(s) \ {Head(s)}
    <2> SUFFICES ASSUME NEW x \in ToSet(t) PROVE x \in ToSet(s) \ {s[1]}
      BY <1>1
    <2>1. PICK i \in 1 .. Len(t) : t[i] = x
      BY <1>1, ToSetIs
    <2>2. i + 1 \in 1 .. Len(s) /\ s[i + 1] = x /\ i + 1 # 1 /\ 1 \in 1 .. Len(s)
      BY <1>1, <1>2, <2>1
    <2> QED BY <2>2, ToSetIs
  <1>5. ToSet(s) \ {Head(s)} \subseteq ToSet(t)
    BY <1>1, <1>3, ToSetIs
  <1>6. IsInjective(t)
    <2>1. ASSUME NEW i \in 1 .. Len(t), NEW j \in 1 .. Len(t), t[i] = t[j]
          PROVE  i = j
      <3>1. i + 1 = j + 1
        BY <1>2, <2>1, ToSetIs
      <3> QED BY <3>1
    <2> QED BY <1>1, <2>1, ToSetIs
  <1>7. Head(s) \in ToSet(s)
    BY <1>1, ToSetIs
  <1> QED BY <1>1, <1>4, <1>5, <1>6, <1>7 DEF t

\* tal_resize_: an object is replaced by another in its place.
LEMMA ReplaceFacts ==
  ASSUME NEW S, NEW s \in Seq(S), NEW a, NEW b \in S
  PROVE  LET t == [i \in DOMAIN s |-> IF s[i] = a THEN b ELSE s[i]] IN
         /\ t \in Seq(S)
         /\ a \in ToSet(s) => ToSet(t) = (ToSet(s) \ {a}) \cup {b}
         /\ IsInjective(s) /\ b \notin ToSet(s) => IsInjective(t)
  <1> DEFINE t == [i \in DOMAIN s |-> IF s[i] = a THEN b ELSE s[i]]
  <1>1. t \in Seq(S) /\ Len(t) = Len(s) /\ Len(s) \in Nat
    OBVIOUS
  <1>2. \A i \in 1 .. Len(s) : t[i] = IF s[i] = a THEN b ELSE s[i]
    OBVIOUS
  <1> HIDE DEF t
  <1>3. \A x : x \in ToSet(t) <=> \E i \in 1 .. Len(s) : x = IF s[i] = a THEN b ELSE s[i]
    BY <1>1, <1>2, ToSetIs
  <1>4. ToSet(t) = IF a \in ToSet(s) THEN (ToSet(s) \ {a}) \cup {b} ELSE ToSet(s)
    <2>1. \A x \in ToSet(t) : \/ x \in ToSet(s) /\ x # a
                              \/ x = b /\ a \in ToSet(s)
      BY <1>3, ToSetIs
    <2>2. \A x \in ToSet(s) : x # a => x \in ToSet(t)
      BY <1>3, ToSetIs
    <2>3. a \in ToSet(s) => b \in ToSet(t)
      BY <1>3, ToSetIs
    <2> QED BY <2>1, <2>2, <2>3
  <1>5. ASSUME IsInjective(s), b \notin ToSet(s)
        PROVE  IsInjective(t)
    <2>1. ASSUME NEW i \in 1 .. Len(t), NEW j \in 1 .. Len(t), t[i] = t[j]
          PROVE  i = j
      BY <1>1, <1>2, <1>5, <2>1, ToSetIs
    <2> QED BY <1>1, <2>1, ToSetIs
  <1> QED BY <1>1, <1>4, <1>5 DEF t

\* del_notifier_property: the k-th is taken out.
LEMMA RemoveAtFacts ==
  ASSUME NEW S, NEW s \in Seq(S), NEW k \in 1 .. Len(s)
  PROVE  /\ RemoveAt(s, k) \in Seq(S)
         /\ Len(RemoveAt(s, k)) = Len(s) - 1
         /\ \A i \in 1 .. Len(s) - 1 : RemoveAt(s, k)[i] = IF i < k THEN s[i] ELSE s[i + 1]
         /\ IsInjective(s) =>
              /\ IsInjective(RemoveAt(s, k))
              /\ ToSet(RemoveAt(s, k)) = ToSet(s) \ {s[k]}
  <1> DEFINE t == RemoveAt(s, k)
             l == SubSeq(s, 1, k - 1)
             r == SubSeq(s, k + 1, Len(s))
  <1>0. Len(s) \in Nat
    OBVIOUS
  <1>1. /\ l \in Seq(S) /\ Len(l) = k - 1 /\ \A i \in 1 .. k - 1 : l[i] = s[i]
    <2>1. \A i \in 1 .. k - 1 : s[i] \in S
      OBVIOUS
    <2>2. 1 \in Int /\ k - 1 \in Int
      OBVIOUS
    <2>3. /\ l \in Seq(S) /\ Len(l) = IF 1 <= k - 1 THEN k - 1 - 1 + 1 ELSE 0
          /\ \A i \in 1 .. (k - 1) - 1 + 1 : l[i] = s[1 + i - 1]
      BY <2>1, <2>2, SubSeqProperties
    <2> HIDE DEF l
    <2> QED BY <2>3
  <1>2. /\ r \in Seq(S) /\ Len(r) = Len(s) - k
        /\ \A i \in 1 .. Len(s) - k : r[i] = s[k + i]
    <2>1. \A i \in k + 1 .. Len(s) : s[i] \in S
      OBVIOUS
    <2>2. k + 1 \in Int /\ Len(s) \in Int
      OBVIOUS
    <2>3. /\ r \in Seq(S) /\ Len(r) = IF k + 1 <= Len(s) THEN Len(s) - (k + 1) + 1 ELSE 0
          /\ \A i \in 1 .. Len(s) - (k + 1) + 1 : r[i] = s[(k + 1) + i - 1]
      BY <2>1, <2>2, SubSeqProperties
    <2> HIDE DEF r
    <2> QED BY <2>3
  <1>3. t = l \o r
    BY DEF RemoveAt
  <1> HIDE DEF l, r, t
  <1>4. t \in Seq(S) /\ Len(t) = Len(s) - 1
    BY <1>0, <1>1, <1>2, <1>3, ConcatProperties
  <1>5. \A i \in 1 .. Len(s) - 1 : t[i] = IF i < k THEN s[i] ELSE s[i + 1]
    <2> TAKE i \in 1 .. Len(s) - 1
    <2>1. t[i] = IF i <= Len(l) THEN l[i] ELSE r[i - Len(l)]
      BY <1>0, <1>1, <1>2, <1>3, ConcatProperties
    <2> QED BY <1>0, <1>1, <1>2, <2>1
  <1>6. ASSUME IsInjective(s)
        PROVE  IsInjective(t) /\ ToSet(t) = ToSet(s) \ {s[k]}
    <2>1. \A i \in 1 .. Len(t) :
            \E j \in 1 .. Len(s) : j = (IF i < k THEN i ELSE i + 1) /\ j # k /\ t[i] = s[j]
      BY <1>0, <1>4, <1>5
    <2>2. \A j \in 1 .. Len(s) :
            j # k => \E i \in 1 .. Len(t) : i = (IF j < k THEN j ELSE j - 1) /\ t[i] = s[j]
      BY <1>0, <1>4, <1>5
    <2>3. ToSet(t) \subseteq ToSet(s) \ {s[k]}
      BY <1>4, <1>6, <2>1, ToSetIs
    <2>4. ToSet(s) \ {s[k]} \subseteq ToSet(t)
      BY <1>4, <2>2, ToSetIs
    <2>5. ASSUME NEW i \in 1 .. Len(t), NEW j \in 1 .. Len(t), t[i] = t[j]
          PROVE  i = j
      <3>1. (IF i < k THEN i ELSE i + 1) = (IF j < k THEN j ELSE j + 1)
        <4>1. PICK x \in 1 .. Len(s) : x = (IF i < k THEN i ELSE i + 1) /\ t[i] = s[x]
          BY <2>1
        <4>2. PICK y \in 1 .. Len(s) : y = (IF j < k THEN j ELSE j + 1) /\ t[j] = s[y]
          BY <2>1
        <4>3. x = y
          <5>1. \A p, q \in 1 .. Len(s) : s[p] = s[q] => p = q
            BY <1>6, ToSetIs
          <5> QED BY <2>5, <4>1, <4>2, <5>1
        <4> QED BY <4>1, <4>2, <4>3
      <3> QED BY <3>1
    <2> QED BY <1>4, <2>3, <2>4, <2>5, ToSetIs
  <1> QED BY <1>4, <1>5, <1>6 DEF t

\* Min finds the least.
LEMMA MinFact ==
  ASSUME NEW T, T \subseteq Nat, T # {}
  PROVE  Min(T) \in T /\ \A y \in T : Min(T) <= y
  <1>1. \E x \in T : \A y \in T : x <= y
    BY LeastNat
  <1> QED BY <1>1 DEF Min

\* The first place of a member.
LEMMA PosFact ==
  ASSUME NEW S, NEW s \in Seq(S), NEW e \in ToSet(s)
  PROVE  LET I == {i \in 1 .. Len(s) : s[i] = e} IN
         I # {} /\ Min(I) \in 1 .. Len(s) /\ s[Min(I)] = e
  <1> DEFINE I == {i \in 1 .. Len(s) : s[i] = e}
  <1>1. I # {} /\ I \subseteq Nat
    BY ToSetIs
  <1>2. Min(I) \in I
    BY <1>1, MinFact
  <1> QED BY <1>1, <1>2

\* list_del of an object.
LEMMA RemoveFirstFacts ==
  ASSUME NEW S, NEW s \in Seq(S), NEW e, IsInjective(s)
  PROVE  /\ RemoveFirst(s, e) \in Seq(S)
         /\ IsInjective(RemoveFirst(s, e))
         /\ ToSet(RemoveFirst(s, e)) = ToSet(s) \ {e}
  <1>1. CASE e \in ToSet(s)
    <2> DEFINE k == SelectInSeq(s, LAMBDA n : n = e)
    <2>1. k \in 1 .. Len(s) /\ s[k] = e
      BY <1>1, PosFact DEF SelectInSeq
    <2>2. \E i \in 1 .. Len(s) : s[i] = e
      BY <2>1
    <2>3. RemoveFirst(s, e) = RemoveAt(s, k)
      BY <2>2 DEF RemoveFirst
    <2> HIDE DEF k
    <2> QED BY <2>1, <2>3, RemoveAtFacts
  <1>2. CASE e \notin ToSet(s)
    <2>1. RemoveFirst(s, e) = s
      BY <1>2, ToSetIs DEF RemoveFirst
    <2> QED BY <1>2, <2>1
  <1> QED BY <1>1, <1>2

-----------------------------------------------------------------------------
(* Where notify is in a list *)

\* After a member come the ones in the places after its own.
LEMMA AfterFacts ==
  ASSUME NEW S, NEW s \in Seq(S), NEW k \in 1 .. Len(s), NEW a,
         IsInjective(s), s[k] = a, a # NoProp
  PROVE  /\ After(s, a) \in Seq(S)
         /\ Len(After(s, a)) = Len(s) - k
         /\ \A i \in 1 .. Len(s) - k : After(s, a)[i] = s[k + i]
  <1> DEFINE m == SelectInSeq(s, LAMBDA n : n = a)
             t == After(s, a)
  <1>0. Len(s) \in Nat
    OBVIOUS
  <1>1. m = k
    <2>1. a \in ToSet(s)
      BY ToSetIs
    <2>2. m \in 1 .. Len(s) /\ s[m] = a
      BY <2>1, PosFact DEF SelectInSeq
    <2> HIDE DEF m
    <2> QED BY <2>2, ToSetIs
  <1>2. t = SubSeq(s, m + 1, Len(s))
    BY DEF After
  <1> HIDE DEF m, t
  <1>3. /\ t \in Seq(S)
        /\ Len(t) = Len(s) - k /\ \A i \in 1 .. Len(s) - k : t[i] = s[k + i]
    <2>1. \A i \in k + 1 .. Len(s) : s[i] \in S
      OBVIOUS
    <2>2. k + 1 \in Int /\ Len(s) \in Int
      OBVIOUS
    <2>3. /\ t \in Seq(S) /\ Len(t) = IF k + 1 <= Len(s) THEN Len(s) - (k + 1) + 1 ELSE 0
          /\ \A i \in 1 .. Len(s) - (k + 1) + 1 : t[i] = s[(k + 1) + i - 1]
      BY <1>1, <1>2, <2>1, <2>2, SubSeqProperties
    <2> QED BY <1>0, <2>3
  <1> QED BY <1>3 DEF t

\* The same, as a set.
LEMMA AfterSet ==
  ASSUME NEW S, NEW s \in Seq(S), NEW k \in 1 .. Len(s), NEW a,
         IsInjective(s), s[k] = a, a # NoProp
  PROVE  ToSet(After(s, a)) = {s[j] : j \in {n \in 1 .. Len(s) : n > k}}
  <1> DEFINE t == After(s, a)
  <1>0. Len(s) \in Nat
    OBVIOUS
  <1>1. t \in Seq(S) /\ Len(t) = Len(s) - k /\ \A i \in 1 .. Len(s) - k : t[i] = s[k + i]
    <2>1. /\ After(s, a) \in Seq(S) /\ Len(After(s, a)) = Len(s) - k
          /\ \A i \in 1 .. Len(s) - k : After(s, a)[i] = s[k + i]
      BY ONLY s \in Seq(S), k \in 1 .. Len(s), IsInjective(s), s[k] = a, a # NoProp,
         AfterFacts
    <2> QED BY <2>1
  <1> HIDE DEF t
  <1>2. \A i \in 1 .. Len(t) : k + i \in 1 .. Len(s) /\ k + i > k
    BY <1>0, <1>1
  <1>3. \A j \in 1 .. Len(s) : j > k => j - k \in 1 .. Len(t) /\ t[j - k] = s[j]
    BY <1>0, <1>1
  <1>4. ASSUME NEW x \in ToSet(t)
        PROVE  \E j \in 1 .. Len(s) : j > k /\ s[j] = x
    <2>1. PICK i \in 1 .. Len(t) : t[i] = x
      BY <1>1, ToSetIs
    <2> QED BY <1>1, <1>2, <2>1
  <1>5. ASSUME NEW j \in 1 .. Len(s), j > k
        PROVE  s[j] \in ToSet(t)
    BY <1>1, <1>3, <1>5, ToSetIs
  <1>6. ToSet(t) = {s[j] : j \in {n \in 1 .. Len(s) : n > k}}
    BY <1>4, <1>5
  <1> QED BY <1>6 DEF t

\* What is put first in the list is never looked at,
LEMMA AfterCons ==
  ASSUME NEW S, NEW s \in Seq(S), NEW e \in S, NEW a \in ToSet(s),
         IsInjective(s), e \notin ToSet(s), a # NoProp
  PROVE  ToSet(After(<<e>> \o s, a)) = ToSet(After(s, a))
  <1> DEFINE t == <<e>> \o s
  <1>1. PICK k \in 1 .. Len(s) : s[k] = a
    BY ToSetIs
  <1>2. /\ t \in Seq(S) /\ IsInjective(t) /\ Len(t) = Len(s) + 1 /\ Len(s) \in Nat
        /\ \A i \in 1 .. Len(s) : t[i + 1] = s[i]
    BY ConsFacts, ToSetIs
  <1> HIDE DEF t
  <1>3. k + 1 \in 1 .. Len(t) /\ t[k + 1] = a
    BY <1>1, <1>2
  <1>4. ToSet(After(t, a)) = {t[j] : j \in {n \in 1 .. Len(t) : n > k + 1}}
    BY <1>2, <1>3, AfterSet
  <1>5. ToSet(After(s, a)) = {s[j] : j \in {n \in 1 .. Len(s) : n > k}}
    BY <1>1, AfterSet
  <1>6. \A j \in 1 .. Len(t) : j > k + 1 => j - 1 \in 1 .. Len(s) /\ j - 1 > k /\ s[j - 1] = t[j]
    BY <1>2
  <1>7. \A j \in 1 .. Len(s) : j > k => j + 1 \in 1 .. Len(t) /\ j + 1 > k + 1 /\ t[j + 1] = s[j]
    BY <1>2
  <1>8. \A x : x \in ToSet(After(t, a)) <=> x \in ToSet(After(s, a))
    BY <1>4, <1>5, <1>6, <1>7
  <1> QED BY <1>8 DEF t

\* and what is taken out of it is not looked at any more.
LEMMA AfterRemove ==
  ASSUME NEW S, NEW s \in Seq(S), NEW i \in 1 .. Len(s), NEW a \in ToSet(s),
         IsInjective(s), s[i] # a, a # NoProp
  PROVE  ToSet(After(RemoveAt(s, i), a)) = ToSet(After(s, a)) \ {s[i]}
  <1> DEFINE t == RemoveAt(s, i)
  <1>1. PICK k \in 1 .. Len(s) : s[k] = a
    BY ToSetIs
  <1> DEFINE m == IF k < i THEN k ELSE k - 1
  <1>2. /\ t \in Seq(S) /\ IsInjective(t) /\ Len(t) = Len(s) - 1 /\ Len(s) \in Nat
        /\ \A j \in 1 .. Len(s) - 1 : t[j] = IF j < i THEN s[j] ELSE s[j + 1]
    BY RemoveAtFacts, ToSetIs
  <1> HIDE DEF t
  <1>3. m \in 1 .. Len(t) /\ t[m] = a
    BY <1>1, <1>2
  <1>4. ToSet(After(t, a)) = {t[j] : j \in {n \in 1 .. Len(t) : n > m}}
    <2> HIDE DEF m
    <2> QED BY <1>2, <1>3, AfterSet
  <1>5. ToSet(After(s, a)) = {s[j] : j \in {n \in 1 .. Len(s) : n > k}}
    BY <1>1, AfterSet
  <1>6. ASSUME NEW j \in 1 .. Len(t), j > m
        PROVE  \E n \in 1 .. Len(s) : n > k /\ s[n] = t[j] /\ s[n] # s[i]
    <2>1. CASE j < i
      BY <1>1, <1>2, <1>6, <2>1, ToSetIs
    <2>2. CASE j >= i
      <3>1. j + 1 \in 1 .. Len(s) /\ j + 1 > k /\ s[j + 1] = t[j] /\ j + 1 # i
        BY <1>1, <1>2, <1>6, <2>2
      <3>2. s[j + 1] # s[i]
        BY <3>1, ToSetIs
      <3> QED BY <3>1, <3>2
    <2> QED BY <2>1, <2>2
  <1>7. ASSUME NEW n \in 1 .. Len(s), n > k, s[n] # s[i]
        PROVE  \E j \in 1 .. Len(t) : j > m /\ t[j] = s[n]
    <2>1. CASE n < i
      BY <1>1, <1>2, <1>7, <2>1
    <2>2. CASE n > i
      <3>1. n - 1 \in 1 .. Len(t) /\ n - 1 > m /\ t[n - 1] = s[n]
        BY <1>1, <1>2, <1>7, <2>2
      <3> QED BY <3>1
    <2> QED BY <1>7, <2>1, <2>2
  <1>8. \A x : x \in ToSet(After(t, a)) <=> x \in ToSet(After(s, a)) /\ x # s[i]
    <2> HIDE DEF m
    <2>1. \A x \in ToSet(After(t, a)) : x \in ToSet(After(s, a)) /\ x # s[i]
      BY <1>4, <1>5, <1>6
    <2>2. \A x \in ToSet(After(s, a)) : x # s[i] => x \in ToSet(After(t, a))
      BY <1>4, <1>5, <1>7
    <2> QED BY <2>1, <2>2
  <1> QED BY <1>8 DEF t

\* r is s without its first k.
IsTail(r, s, k) ==
  Len(r) = Len(s) - k /\ \A j \in 1 .. Len(s) - k : r[j] = s[k + j]

\* What notify has still to look at is the end of the list.
LEMMA AfterTail ==
  ASSUME NEW S, NEW s \in Seq(S), NEW a, NEW r, r = After(s, a),
         a = NoProp \/ a \in ToSet(s), IsInjective(s), NoProp \notin S
  PROVE  r \in Seq(S) /\ \E k \in 0 .. Len(s) : IsTail(r, s, k)
  <1>1. CASE a = NoProp
    <2>1. r = s
      BY <1>1 DEF After
    <2>2. 0 \in 0 .. Len(s) /\ Len(s) - 0 = Len(s) /\ \A j \in 1 .. Len(s) : 0 + j = j
      BY ToSetIs
    <2> QED BY <2>1, <2>2 DEF IsTail
  <1>2. CASE a # NoProp
    <2>1. PICK k \in 1 .. Len(s) : s[k] = a
      BY <1>2, ToSetIs
    <2>2. r \in Seq(S) /\ Len(r) = Len(s) - k /\ \A j \in 1 .. Len(s) - k : r[j] = s[k + j]
      BY <1>2, <2>1, AfterFacts
    <2>3. k \in 0 .. Len(s)
      BY <2>1
    <2> QED BY <2>2, <2>3 DEF IsTail
  <1> QED BY <1>1, <1>2

\* Its members are members of the list.
LEMMA AfterNext ==
  ASSUME NEW S, NEW s \in Seq(S), NEW a, NEW r, NEW i,
         r = After(s, a), i \in 1 .. Len(r),
         a = NoProp \/ a \in ToSet(s), IsInjective(s), NoProp \notin S
  PROVE  r \in Seq(S) /\ ToSet(r) \subseteq ToSet(s) /\ r[i] \in ToSet(s) /\ IsInjective(r)
  <1>t. r \in Seq(S) /\ \E k \in 0 .. Len(s) : IsTail(r, s, k)
    BY AfterTail
  <1>1. PICK k \in 0 .. Len(s) :
          /\ r \in Seq(S) /\ Len(r) = Len(s) - k
          /\ \A j \in 1 .. Len(s) - k : r[j] = s[k + j]
    BY <1>t DEF IsTail
  <1>0. Len(s) \in Nat /\ i \in 1 .. Len(r)
    BY ToSetIs
  <1>2. \A j \in 1 .. Len(r) : k + j \in 1 .. Len(s) /\ r[j] = s[k + j]
    BY <1>0, <1>1
  <1>3. ToSet(r) \subseteq ToSet(s)
    BY <1>1, <1>2, ToSetIs
  <1>4. r[i] \in ToSet(s)
    BY <1>0, <1>2, ToSetIs
  <1>5. IsInjective(r)
    <2>1. ASSUME NEW x \in 1 .. Len(r), NEW y \in 1 .. Len(r), r[x] = r[y]
          PROVE  x = y
      <3>1. k + x = k + y
        BY <1>2, <2>1, ToSetIs
      <3> QED BY <3>1
    <2> QED BY <1>1, <2>1, ToSetIs
  <1> QED BY <1>1, <1>3, <1>4, <1>5

\* What is left after the i-th is the places after i.
LEMMA AfterNextSet ==
  ASSUME NEW S, NEW s \in Seq(S), NEW a, NEW r, NEW i, NEW n,
         r = After(s, a), i \in 1 .. Len(r), n = r[i],
         a = NoProp \/ a \in ToSet(s), IsInjective(s), NoProp \notin S
  PROVE  \A x \in S : x \in ToSet(After(s, n)) <=> \E j \in 1 .. Len(r) : j > i /\ r[j] = x
  <1>t. r \in Seq(S) /\ \E k \in 0 .. Len(s) : IsTail(r, s, k)
    BY AfterTail
  <1>1. PICK k \in 0 .. Len(s) :
          /\ r \in Seq(S) /\ Len(r) = Len(s) - k
          /\ \A j \in 1 .. Len(s) - k : r[j] = s[k + j]
    BY <1>t DEF IsTail
  <1>0. Len(s) \in Nat /\ i \in 1 .. Len(r)
    BY ToSetIs
  <1>2. \A j \in 1 .. Len(r) : k + j \in 1 .. Len(s) /\ r[j] = s[k + j]
    BY <1>0, <1>1
  <1>6. r[i] # NoProp /\ k + i \in 1 .. Len(s) /\ s[k + i] = r[i]
    BY <1>0, <1>1, <1>2
  <1>7. ToSet(After(s, r[i])) = {s[j] : j \in {m \in 1 .. Len(s) : m > k + i}}
    <2> DEFINE h == k + i
    <2>1. h \in 1 .. Len(s) /\ s[h] = r[i] /\ s[h] # NoProp
      BY <1>6
    <2> HIDE DEF h
    <2>2. ToSet(After(s, r[i])) = {s[j] : j \in {m \in 1 .. Len(s) : m > h}}
      BY <2>1, AfterSet
    <2> QED BY <2>1, <2>2 DEF h
  <1>8. \A j \in 1 .. Len(s) : j > k + i => j - k \in 1 .. Len(r) /\ j - k > i /\ r[j - k] = s[j]
    BY <1>0, <1>1
  <1>9. \A j \in 1 .. Len(r) : j > i => k + j > k + i
    BY <1>0, <1>1
  <1>10. ToSet(After(s, r[i])) = {r[j] : j \in {m \in 1 .. Len(r) : m > i}}
    <2>1. ASSUME NEW x \in ToSet(After(s, r[i]))
          PROVE  \E j \in 1 .. Len(r) : j > i /\ r[j] = x
      BY <1>7, <1>8, <2>1
    <2>2. ASSUME NEW j \in 1 .. Len(r), j > i
          PROVE  r[j] \in ToSet(After(s, r[i]))
      BY <1>2, <1>7, <1>9, <2>2
    <2> QED BY <2>1, <2>2
  <1> QED BY <1>10

-----------------------------------------------------------------------------
(* Objects *)

\* What is known of the constants.
LEMMA Consts ==
  /\ Root \notin Obj /\ NoProp \notin Prop /\ NoFn \notin Fn
  /\ Obj \subseteq Nat /\ Prop \subseteq Nat /\ IsFiniteSet(Prop)
  <1>1. IsFiniteSet(1 .. MaxProp)
    BY TalAssumption, FS_Interval
  <1> QED BY <1>1, TalAssumption DEF Root, Obj, NoProp, Prop, NoFn

\* A new object is not in use.
LEMMA NewObjFact ==
  ASSUME \E o \in Obj : state[o] = "fresh"
  PROVE  NewObj \in Obj /\ state[NewObj] = "fresh" /\ NewObj \notin Node
  <1> DEFINE T == {o \in Obj : state[o] = "fresh"}
  <1>1. T \subseteq Nat /\ T # {}
    BY Consts
  <1>2. Min(T) \in T
    BY <1>1, MinFact
  <1> QED BY <1>2, Consts DEF NewObj, Node, Allocated

\* A new notifier is not in use.
LEMMA NewPropFact ==
  ASSUME \E n \in Prop : notif[n].status = "fresh"
  PROVE  NewProp \in Prop /\ notif[NewProp].status = "fresh"
  <1> DEFINE T == {n \in Prop : notif[n].status = "fresh"}
  <1>1. T \subseteq Nat /\ T # {}
    BY Consts
  <1>2. Min(T) \in T
    BY <1>1, MinFact
  <1> QED BY <1>2 DEF NewProp

\* Within(o) is o and its descendants, and no more.
LEMMA WithinFacts ==
  ASSUME NEW o \in Allocated
  PROVE  /\ o \in Within(o) /\ Within(o) \subseteq Allocated
         /\ \A c \in Allocated : parent[c] \in Within(o) => c \in Within(o)
         /\ \A c \in Within(o) : c = o \/ parent[c] \in Within(o)
  <1> DEFINE Closed(S) == \A d \in Allocated : parent[d] \in S => d \in S
             W == Within(o)
  <1>1. \A c : c \in W <=> /\ c \in Allocated
                           /\ \A S \in SUBSET Allocated : o \in S /\ Closed(S) => c \in S
    BY DEF Within
  <1>2. o \in W /\ W \subseteq Allocated
    BY <1>1
  <1>3. Closed(W)
    <2> SUFFICES ASSUME NEW d \in Allocated, parent[d] \in W,
                        NEW S \in SUBSET Allocated, o \in S, Closed(S)
                 PROVE  d \in S
      BY <1>1
    <2>1. parent[d] \in S
      BY <1>1
    <2> QED BY <2>1
  <1>4. ASSUME NEW c \in W, c # o, parent[c] \notin W
        PROVE  FALSE
    <2>1. W \ {c} \in SUBSET Allocated /\ o \in W \ {c}
      BY <1>2, <1>4
    <2>2. Closed(W \ {c})
      BY <1>3, <1>4
    <2>3. c \in W \ {c}
      BY <1>1, <2>1, <2>2
    <2> QED BY <2>3
  <1> QED BY <1>2, <1>3, <1>4

\* The tree of tal_check, from the two parts of the invariant.
LEMMA TreeLemma ==
  ASSUME Lists, NoCycle
  PROVE  TreeOK
  <1>1. ASSUME NEW o \in Obj, state[o] = "live"
        PROVE  parent[o] \notin Within(o)
    <2>1. o \in Allocated
      BY <1>1 DEF Allocated
    <2>2. /\ o \in Within(o) /\ Within(o) \subseteq Allocated
          /\ \A c \in Within(o) : c = o \/ parent[c] \in Within(o)
      BY <2>1, WithinFacts
    <2>3. \E c \in Within(o) : parent[c] \notin Within(o)
      BY <2>2 DEF NoCycle
    <2> QED BY <2>2, <2>3
  <1>2. Node \subseteq Obj \cup {Root}
    BY DEF Node, Allocated
  <1> QED BY <1>1, <1>2 DEF TreeOK, Lists

-----------------------------------------------------------------------------
(* Types *)

Frame == [obj : Obj, phase : {"told", "notify", "call", "children", "wild"},
          at : Prop \cup {NoProp}]

\* The stack with a new del_tree.
LEMMA EnterFact ==
  ASSUME TypeOK, NEW o \in Obj
  PROVE  /\ Enter(o) \in Seq(Frame) /\ Len(Enter(o)) = Len(stack) + 1
         /\ Enter(o)[1] = [obj |-> o, phase |-> "notify", at |-> NoProp]
         /\ \A i \in 1 .. Len(stack) : Enter(o)[i + 1] = stack[i]
         /\ \A i \in DOMAIN Enter(o) : i = 1 \/ (i - 1 \in DOMAIN stack /\ Enter(o)[i] = stack[i - 1])
  <1> DEFINE f == [obj |-> o, phase |-> "notify", at |-> NoProp]
  <1>1. f \in Frame /\ stack \in Seq(Frame)
    BY DEF Frame, TypeOK
  <1>2. Enter(o) = <<f>> \o stack
    BY DEF Enter, NewFrame
  <1> HIDE DEF f
  <1>3. /\ Enter(o) \in Seq(Frame) /\ Len(Enter(o)) = Len(stack) + 1 /\ Enter(o)[1] = f
        /\ \A i \in 1 .. Len(stack) : Enter(o)[i + 1] = stack[i]
    BY <1>1, <1>2, ConsFacts
  <1>4. ASSUME NEW i \in DOMAIN Enter(o), i # 1
        PROVE  i - 1 \in DOMAIN stack /\ Enter(o)[i] = stack[i - 1]
    <2>1. i - 1 \in 1 .. Len(stack) /\ DOMAIN stack = 1 .. Len(stack)
      BY <1>1, <1>3, <1>4
    <2>2. Enter(o)[(i - 1) + 1] = stack[i - 1] /\ (i - 1) + 1 = i
      BY <1>1, <1>3, <1>4, <2>1
    <2> QED BY <2>1, <2>2
  <1> QED BY <1>3, <1>4 DEF f

\* The stack with another innermost frame.
LEMMA TopFact ==
  ASSUME TypeOK, stack # <<>>
  PROVE  /\ Top \in Frame /\ 1 \in DOMAIN stack /\ Top = stack[1]
         /\ Top.obj \in Obj
         /\ \A f \in Frame : /\ [stack EXCEPT ![1] = f] \in Seq(Frame)
                             /\ DOMAIN [stack EXCEPT ![1] = f] = DOMAIN stack
                             /\ [stack EXCEPT ![1] = f][1] = f
                             /\ \A i \in DOMAIN stack : i # 1 => [stack EXCEPT ![1] = f][i] = stack[i]
  <1>1. stack \in Seq(Frame)
    BY DEF TypeOK, Frame
  <1>2. 1 \in DOMAIN stack /\ stack[1] \in Frame
    BY <1>1
  <1> QED BY <1>1, <1>2 DEF Top, Frame

\* The lists of an object.
LEMMA PropsFact ==
  ASSUME IInv, NEW o \in Obj \cup {Root}
  PROVE  /\ props[o] \in Seq(Prop) /\ IsInjective(props[o]) /\ ToSet(props[o]) \subseteq Prop
         /\ kids[o] \in Seq(Obj) /\ IsInjective(kids[o]) /\ ToSet(kids[o]) \subseteq Obj
  <1>1. props[o] \in Seq(Prop) /\ kids[o] \in Seq(Obj)
    BY DEF IInv, TypeOK
  <1> QED BY <1>1, ToSetIs DEF IInv, Owned, Lists

\* Every notifier of a list, in one place.
LEMMA OwnedFact ==
  ASSUME IInv
  PROVE  \A o \in Obj \cup {Root} :
           /\ props[o] \in Seq(Prop) /\ IsInjective(props[o])
           /\ \A n \in ToSet(props[o]) : n \in Prop /\ notif[n].status = "set"
           /\ \A p \in Obj \cup {Root} : o # p => ToSet(props[o]) \cap ToSet(props[p]) = {}
  <1>1. \A o \in Obj \cup {Root} : props[o] \in Seq(Prop) /\ ToSet(props[o]) \subseteq Prop
    BY PropsFact
  <1> QED BY <1>1 DEF IInv, Owned

\* A frame, and what it knows of its object and its notifier.
LEMMA FrameFact ==
  ASSUME IInv, NEW i \in DOMAIN stack
  PROVE  /\ stack[i] \in Frame /\ stack[i].obj \in Obj /\ stack[i].at \in Prop \cup {NoProp}
         /\ Sound(stack[i])
         /\ Destroys(stack[i]) =>
              /\ state[stack[i].obj] = "dying"
              /\ \A j \in DOMAIN stack :
                   i # j /\ Destroys(stack[j]) => stack[i].obj # stack[j].obj
         /\ stack[i].at \in ToSet(props[stack[i].obj]) => notif[stack[i].at].status = "set"
         /\ stack[i].phase \in {"notify", "wild"} => i = 1
  <1> DEFINE f == stack[i]
  <1>0. stack \in Seq(Frame)
    BY DEF IInv, TypeOK, Frame
  <1>1. f \in Frame
    BY <1>0
  <1>2. f.obj \in Obj /\ f.at \in Prop \cup {NoProp}
    BY <1>1 DEF Frame
  <1>3. /\ Sound(f) /\ (f.phase \in {"notify", "wild"} => i = 1)
        /\ \A j \in DOMAIN stack : i # j /\ Destroys(f) /\ Destroys(stack[j]) => f.obj # stack[j].obj
    BY DEF IInv, Frames
  <1>4. Destroys(f) => state[f.obj] = "dying"
    BY <1>3 DEF Sound
  <1>5. f.at \in ToSet(props[f.obj]) => notif[f.at].status = "set"
    BY <1>2, OwnedFact
  <1> QED BY <1>1, <1>2, <1>3, <1>4, <1>5

\* The objects in use.
LEMMA NodeFact ==
  Node \subseteq Obj \cup {Root} /\ Allocated \subseteq Obj /\ Allocated \subseteq Node
  BY DEF Node, Allocated

\* What tal_del_notifier_ deletes.
LEMMA MatchFact ==
  ASSUME IInv, NEW o \in Node, NEW fn \in Fn, Matching(o, fn) # {}
  PROVE  LET i == Min(Matching(o, fn))
             n == props[o][i]
         IN  /\ i \in 1 .. Len(props[o]) /\ n \in ToSet(props[o]) /\ n \in Prop
             /\ notif[n].fn = fn /\ notif[n].status = "set"
  <1> DEFINE i == Min(Matching(o, fn))
  <1>0. o \in Obj \cup {Root}
    BY DEF Node, Allocated
  <1>1. props[o] \in Seq(Prop) /\ DOMAIN props[o] = 1 .. Len(props[o])
    BY <1>0, PropsFact
  <1>2. Matching(o, fn) \subseteq Nat
    BY <1>1 DEF Matching
  <1>3. i \in Matching(o, fn)
    BY <1>2, MinFact
  <1> HIDE DEF i
  <1>4. i \in 1 .. Len(props[o]) /\ notif[props[o][i]].fn = fn
    BY <1>1, <1>3 DEF Matching
  <1>5. props[o][i] \in ToSet(props[o])
    BY <1>1, <1>4, ToSetIs
  <1>6. props[o][i] \in Prop /\ notif[props[o][i]].status = "set"
    BY <1>0, <1>1, <1>4, <1>5 DEF IInv, Owned
  <1> QED BY <1>4, <1>5, <1>6 DEF i

\* What notify calls next.
LEMMA NotifyFact ==
  ASSUME IInv, stack # <<>>, Top.phase = "notify", Interested(Rest(Top), "free") # {}
  PROVE  LET i == Min(Interested(Rest(Top), "free"))
             r == Rest(Top)
         IN  /\ r \in Seq(Prop) /\ i \in 1 .. Len(r) /\ r[i] \in Prop /\ IsInjective(r)
             /\ "free" \in notif[r[i]].types
             /\ \A j \in 1 .. Len(r) : j < i => "free" \notin notif[r[j]].types
             /\ r[i] \in ToSet(props[Top.obj]) /\ r[i] \in ToSet(r)
             /\ ToSet(r) \subseteq ToSet(props[Top.obj])
             /\ \A x \in Prop : x \in ToSet(After(props[Top.obj], r[i])) <=>
                                  \E j \in 1 .. Len(r) : j > i /\ r[j] = x
  <1> DEFINE i == Min(Interested(Rest(Top), "free"))
             r == Rest(Top)
             s == props[Top.obj]
  <1>1. Top.obj \in Obj /\ 1 \in DOMAIN stack /\ Top = stack[1]
    BY TopFact DEF IInv
  <1>2. s \in Seq(Prop) /\ IsInjective(s) /\ NoProp \notin Prop
    BY <1>1, PropsFact, Consts
  <1>3. Top.at = NoProp \/ Top.at \in ToSet(s)
    BY <1>1, FrameFact DEF Sound, Destroys
  <1>4. r = After(s, Top.at)
    BY DEF Rest
  <1>5. r \in Seq(Prop)
    <2>1. CASE Top.at = NoProp
      BY <1>2, <1>4, <2>1 DEF After
    <2>2. CASE Top.at # NoProp
      <3>1. PICK k \in 1 .. Len(s) : s[k] = Top.at
        BY <1>2, <1>3, <2>2, ToSetIs
      <3> HIDE DEF s, r
      <3> QED BY <1>2, <1>4, <2>2, <3>1, AfterFacts
    <2> QED BY <2>1, <2>2
  <1>6. DOMAIN r = 1 .. Len(r)
    BY <1>5
  <1>7. Interested(Rest(Top), "free") \subseteq Nat
    BY <1>6 DEF Interested
  <1>8. i \in Interested(Rest(Top), "free") /\ \A j \in Interested(Rest(Top), "free") : i <= j
    BY <1>7, MinFact
  <1> HIDE DEF i
  <1>9. /\ i \in 1 .. Len(r) /\ "free" \in notif[r[i]].types
        /\ \A j \in 1 .. Len(r) : j < i => "free" \notin notif[r[j]].types
    BY <1>6, <1>8 DEF Interested
  <1> HIDE DEF r, s
  <1>10. /\ ToSet(r) \subseteq ToSet(s) /\ r[i] \in ToSet(s) /\ IsInjective(r)
         /\ \A x \in Prop : x \in ToSet(After(s, r[i])) <=> \E j \in 1 .. Len(r) : j > i /\ r[j] = x
    <2> DEFINE a == Top.at
    <2>1. i \in 1 .. Len(r) /\ r = After(s, a) /\ (a = NoProp \/ a \in ToSet(s))
      BY <1>3, <1>4, <1>9
    <2> HIDE DEF a
    <2>2. ToSet(r) \subseteq ToSet(s) /\ r[i] \in ToSet(s) /\ IsInjective(r)
      BY ONLY <1>2, <2>1, AfterNext
    <2>3. \A x \in Prop : x \in ToSet(After(s, r[i])) <=> \E j \in 1 .. Len(r) : j > i /\ r[j] = x
      BY ONLY <1>2, <2>1, AfterNextSet
    <2> QED BY <2>2, <2>3
  <1>11. r[i] \in ToSet(r) /\ r[i] \in Prop
    BY <1>5, <1>9, ToSetIs
  <1> QED BY <1>5, <1>9, <1>10, <1>11 DEF i, r, s

\* tal_steal_ to a new parent.
StealTo(ctx, o) ==
  /\ state[o] = "live" /\ ctx \notin Within(o)
  /\ kids' = AddChild([kids EXCEPT ![parent[o]] = RemoveFirst(kids[parent[o]], o)], ctx, o)
  /\ parent' = [parent EXCEPT ![o] = ctx]
  /\ UNCHANGED <<state, props, notif, notifiers, stack>>

\* del_tree starts, at once or after the parent was told.
Starts(o) ==
  /\ state[o] = "live" /\ Unlink(o)
  /\ \/ AppRuns /\ stack' = Enter(o)
     \/ /\ stack # <<>> /\ Top.phase = "told"
        /\ stack' = [stack EXCEPT ![1] = NewFrame(o)]
  /\ UNCHANGED <<parent, props, notif, notifiers>>

\* A notifier, and no destructor, is told or makes the frame wild.
TellsOf(f) ==
  /\ f.phase \in {"told", "wild"} /\ f.at # NoProp
  /\ notif[f.at].status # "fresh" /\ ~notif[f.at].destructor

\* Somebody is told of a child, or a frame goes wild.
Tells ==
  /\ \E f \in Frame :
       /\ TellsOf(f)
       /\ \/ AppRuns /\ f.phase = "told" /\ stack' = <<f>> \o stack
          \/ stack # <<>> /\ stack' = [stack EXCEPT ![1] = f]
  /\ UNCHANGED <<state, tree, props, notif, notifiers>>

\* notify goes on after a callback.
Resumes ==
  /\ stack # <<>> /\ Top.phase = "call" /\ Top.at \in ToSet(props[Top.obj])
  /\ stack' = [stack EXCEPT ![1].phase = "notify"]
  /\ UNCHANGED <<state, tree, props, notif, notifiers>>

\* The steps, one by one, with what is known of their arguments.
StepCases ==
  \/ \E ctx \in Node : TalAlloc(ctx)
  \/ \E ctx \in Node, o \in Allocated : StealTo(ctx, o)
  \/ \E o \in Allocated : Starts(o)
  \/ \E o \in Allocated : TalResize(o)
  \/ \E o \in Node, fn \in Fn : TalAddDestructor(o, fn)
  \/ \E o \in Node, fn \in Fn : TalDelNotifier(o, fn)
  \/ \E o \in Node, fn \in Fn, types \in Kinds : TalAddNotifier(o, fn, types)
  \/ Tells \/ Resumes \/ Notify \/ FreeChild \/ FreeSelf

\* Whoever notify finds in a list to tell of a child is no destructor.
LEMMA TellFact ==
  ASSUME IInv, NEW p \in Obj \cup {Root}, NEW list \in Seq(Prop), NEW k \in 0 .. Len(props[p]),
         IsTail(list, props[p], k), Interested(list, "del_child") # {}
  PROVE  LET n == list[Min(Interested(list, "del_child"))] IN
         n \in Prop /\ n # NoProp /\ notif[n].status # "fresh" /\ ~notif[n].destructor
  <1> DEFINE T == Interested(list, "del_child")
             s == props[p]
             n == list[Min(T)]
  <1>1. s \in Seq(Prop) /\ Len(s) \in Nat
    BY PropsFact
  <1>2. /\ list \in Seq(Prop) /\ Len(list) = Len(s) - k
        /\ \A j \in 1 .. Len(s) - k : list[j] = s[k + j]
    BY DEF IsTail
  <1>3. T \subseteq Nat /\ T # {}
    BY <1>2 DEF Interested
  <1>4. Min(T) \in T
    BY <1>3, MinFact
  <1>5. Min(T) \in 1 .. Len(list) /\ "del_child" \in notif[n].types
    BY <1>2, <1>4 DEF Interested
  <1>6. k + Min(T) \in 1 .. Len(s) /\ n = s[k + Min(T)]
    BY <1>1, <1>2, <1>5
  <1>7. n \in ToSet(s)
    BY <1>1, <1>6, ToSetIs
  <1> HIDE DEF n, s
  <1>8. n \in Prop /\ notif[n].status = "set"
    BY <1>7, OwnedFact DEF s
  <1>9. "del_child" \notin {"free"} /\ n # NoProp
    BY <1>8, Consts
  <1>10. ~notif[n].destructor
    BY <1>5, <1>8, <1>9 DEF IInv, Kinded
  <1> QED BY <1>8, <1>9, <1>10 DEF n

\* Every step is one of these.
LEMMA NextCases ==
  ASSUME IInv, Next
  PROVE  StepCases
  <1>1. ASSUME NEW o \in Allocated, TalSteal(o)
        PROVE  \E ctx \in Node : StealTo(ctx, o)
    BY <1>1 DEF TalSteal, StealTo
  <1>2. ASSUME NEW o \in Allocated, TalFree(o)
        PROVE  Starts(o) \/ Tells
    <2> DEFINE list == props[parent[o]]
               T == Interested(list, "del_child")
               f == [obj |-> o, phase |-> "told", at |-> list[Min(T)]]
    <2>1. CASE T # {} /\ stack' = <<f>> \o stack /\ UNCHANGED <<kids, state>>
      <3>1. o \in Obj /\ parent[o] \in Obj \cup {Root}
        BY DEF Allocated, IInv, TypeOK
      <3>2. list \in Seq(Prop) /\ 0 \in 0 .. Len(list)
        BY <3>1, PropsFact
      <3>3. IsTail(list, list, 0)
        BY <3>2 DEF IsTail
      <3> DEFINE n == list[Min(T)]
      <3>4. n \in Prop /\ n # NoProp /\ notif[n].status # "fresh" /\ ~notif[n].destructor
        BY <2>1, <3>1, <3>2, <3>3, TellFact
      <3> HIDE DEF n
      <3>5. f = [obj |-> o, phase |-> "told", at |-> n]
        BY DEF n
      <3> HIDE DEF f
      <3>6. f \in Frame /\ TellsOf(f) /\ f.phase = "told"
        BY <3>1, <3>4, <3>5 DEF Frame, TellsOf
      <3>7. AppRuns /\ UNCHANGED <<parent, props, notif, notifiers>>
        BY <1>2 DEF TalFree, StartFree
      <3> QED BY <2>1, <3>6, <3>7 DEF Tells, tree
    <2>2. CASE Unlink(o) /\ stack' = Enter(o)
      BY <1>2, <2>2 DEF TalFree, StartFree, Starts
    <2> QED BY <1>2, <2>1, <2>2 DEF TalFree, StartFree
  <1>3. ASSUME stack # <<>>, Top.phase \in {"told", "call"}, GoesWild,
               UNCHANGED <<parent, props, notif, notifiers>>,
               ~notif[Top.at].destructor
        PROVE  Tells
    <2> DEFINE f == [stack[1] EXCEPT !.phase = "wild"]
    <2>1. stack[1] \in Frame /\ 1 \in DOMAIN stack /\ Top = stack[1]
      BY <1>3, TopFact DEF IInv
    <2>2. f \in Frame /\ f.phase = "wild" /\ f.at = Top.at
      BY <2>1 DEF Frame
    <2>3. Top.at # NoProp /\ notif[Top.at].status # "fresh"
      BY <1>3, <2>1, FrameFact DEF Sound
    <2>4. stack' = [stack EXCEPT ![1] = f] /\ UNCHANGED <<kids, state>>
      BY <1>3 DEF GoesWild
    <2> HIDE DEF f
    <2> QED BY <1>3, <2>2, <2>3, <2>4 DEF Tells, TellsOf, tree
  <1>4. CASE Return
    <2>1. CASE Top.at \in ToSet(props[Top.obj])
      BY <1>4, <2>1 DEF Return, Resumes, StepCases
    <2>2. CASE Top.at \notin ToSet(props[Top.obj])
      <3>1. stack # <<>> /\ Top.phase = "call" /\ GoesWild
        BY <1>4, <2>2 DEF Return, GoesWild, tree
      <3>2. 1 \in DOMAIN stack /\ Top = stack[1]
        BY <3>1, TopFact DEF IInv
      <3>3. ~notif[Top.at].destructor
        BY <2>2, <3>1, <3>2, FrameFact DEF Sound, Destroys
      <3>4. Tells
        BY <1>3, <1>4, <3>1, <3>3 DEF Return, tree
      <3> QED BY <3>4 DEF StepCases
    <2> QED BY <2>1, <2>2
  <1>5. CASE ReturnTold
    <2>0. /\ stack # <<>> /\ Top.phase = "told" /\ UNCHANGED <<parent, props, notif, notifiers>>
      BY <1>5 DEF ReturnTold
    <2>1. /\ 1 \in DOMAIN stack /\ Top = stack[1] /\ Top \in Frame /\ Top.obj \in Obj
      BY <2>0, TopFact DEF IInv
    <2>2. ~notif[Top.at].destructor /\ Top.at # NoProp
      BY <2>0, <2>1, FrameFact DEF Sound
    <2>3. CASE GoesWild
      BY <1>3, <2>0, <2>2, <2>3 DEF StepCases
    <2>4. CASE state[Top.obj] = "live" /\ Unlink(Top.obj) /\ stack' = [stack EXCEPT ![1] = NewFrame(Top.obj)]
      <3>1. Top.obj \in Allocated
        BY <2>1, <2>4 DEF Allocated
      <3> QED BY <2>0, <2>4, <3>1 DEF Starts, StepCases
    <2>5. ASSUME NEW p \in Node, Top.at \in ToSet(props[p]),
                 Interested(After(props[p], Top.at), "del_child") # {},
                 stack' = [stack EXCEPT ![1].at =
                   After(props[p], Top.at)[Min(Interested(After(props[p], Top.at), "del_child"))]],
                 UNCHANGED <<kids, state>>
          PROVE  Tells
      <3> DEFINE s == props[p]
                 r == After(s, Top.at)
                 n == r[Min(Interested(r, "del_child"))]
                 f == [stack[1] EXCEPT !.at = n]
      <3>1. p \in Obj \cup {Root} /\ s \in Seq(Prop) /\ IsInjective(s) /\ NoProp \notin Prop
        BY NodeFact, PropsFact, Consts
      <3>2. r \in Seq(Prop) /\ \E k \in 0 .. Len(s) : IsTail(r, s, k)
        <4> DEFINE a == Top.at
        <4>1. r = After(s, a) /\ a \in ToSet(s)
          BY <2>5
        <4> HIDE DEF a, s, r
        <4> QED BY <3>1, <4>1, AfterTail
      <3>3. n \in Prop /\ n # NoProp /\ notif[n].status # "fresh" /\ ~notif[n].destructor
        BY <2>5, <3>1, <3>2, TellFact
      <3>4. stack' = [stack EXCEPT ![1] = f]
        BY <2>5
      <3> HIDE DEF n
      <3>5. f \in Frame /\ f.phase = "told" /\ f.at = n
        BY <2>0, <2>1, <3>3 DEF Frame
      <3> HIDE DEF f
      <3> QED BY <2>0, <2>5, <3>3, <3>4, <3>5 DEF Tells, TellsOf, tree
    <2> QED BY <1>5, <2>3, <2>4, <2>5 DEF ReturnTold, StepCases
  <1> QED BY <1>1, <1>2, <1>4, <1>5 DEF Next, Calls, DelTree, StepCases, Kinds, Node

\* What add_notifier_property does.
LEMMA AddFact ==
  ASSUME IInv, NEW o \in Node, NEW fn \in Fn, NEW types \in Kinds, NEW d \in BOOLEAN,
         \E n \in Prop : notif[n].status = "fresh", Add(o, NewProp, types, d, fn)
  PROVE  /\ NewProp \in Prop /\ notif[NewProp].status = "fresh" /\ o \in Obj \cup {Root}
         /\ props' \in [Obj \cup {Root} -> Seq(Prop)]
         /\ notif' \in [Prop -> Notifier]
         /\ props'[o] = <<NewProp>> \o props[o]
         /\ \A p \in Obj \cup {Root} : p # o => props'[p] = props[p]
         /\ \A n \in Prop : n # NewProp => notif'[n] = notif[n]
         /\ notif'[NewProp].status = "set" /\ notif'[NewProp].types = types
         /\ notif'[NewProp].destructor = d /\ notif'[NewProp].ran = 0
         /\ notif'[NewProp].late = (o # Root /\ state[o] = "dying")
  <1> DEFINE n == NewProp
  <1>1. n \in Prop /\ notif[n].status = "fresh" /\ o \in Obj \cup {Root}
    BY NewPropFact, NodeFact
  <1>2. props[o] \in Seq(Prop) /\ <<n>> \o props[o] \in Seq(Prop)
    BY <1>1, PropsFact, ConsFacts
  <1> HIDE DEF n
  <1>3. /\ props' = [props EXCEPT ![o] = <<n>> \o props[o]]
        /\ notif' = [notif EXCEPT ![n] =
             [status |-> "set", types |-> types, destructor |-> d, fn |-> fn,
              ran |-> 0, late |-> o # Root /\ state[o] = "dying"]]
    BY DEF Add, n
  <1>4. props \in [Obj \cup {Root} -> Seq(Prop)] /\ notif \in [Prop -> Notifier]
    BY DEF IInv, TypeOK
  <1>5. /\ props' \in [Obj \cup {Root} -> Seq(Prop)]
        /\ props'[o] = <<n>> \o props[o]
        /\ \A p \in Obj \cup {Root} : p # o => props'[p] = props[p]
    BY <1>1, <1>2, <1>3, <1>4
  <1> DEFINE new == [status |-> "set", types |-> types, destructor |-> d, fn |-> fn,
                     ran |-> 0, late |-> o # Root /\ state[o] = "dying"]
  <1>6. new \in Notifier
    BY DEF Notifier, Kinds
  <1>7. /\ new.status = "set" /\ new.types = types /\ new.destructor = d /\ new.ran = 0
        /\ new.late = (o # Root /\ state[o] = "dying")
    OBVIOUS
  <1>8. notif' = [notif EXCEPT ![n] = new]
    BY <1>3
  <1> HIDE DEF new
  <1>9. notif' \in [Prop -> Notifier] /\ notif'[n] = new /\ \A m \in Prop : m # n => notif'[m] = notif[m]
    BY <1>1, <1>4, <1>6, <1>8
  <1> QED BY <1>1, <1>5, <1>7, <1>9 DEF n

\* What notify does to a notifier it calls.
LEMMA CalledFact ==
  ASSUME NEW m \in Notifier, NEW r \in Nat, NEW f \in Fn \cup {NoFn}
  PROVE  LET g == [m EXCEPT !.ran = r, !.fn = f] IN
         /\ g \in Notifier /\ g.ran = r /\ g.fn = f /\ g.status = m.status
         /\ g.types = m.types /\ g.destructor = m.destructor /\ g.late = m.late
  BY DEF Notifier

\* TypeOK is preserved.
LEMMA TypeStep ==
  ASSUME IInv, Next
  PROVE  TypeOK'
  <1>0. TypeOK /\ Root \notin Obj /\ NoProp \notin Prop /\ StepCases
    BY Consts, NextCases DEF IInv
  <1>1. ASSUME NEW ctx \in Node, TalAlloc(ctx)
        PROVE  TypeOK'
    <2>1. NewObj \in Obj /\ ctx \in Obj \cup {Root}
      BY <1>1, NewObjFact, NodeFact DEF TalAlloc
    <2>2. kids[ctx] \in Seq(Obj)
      BY <2>1, PropsFact
    <2>3. <<NewObj>> \o kids[ctx] \in Seq(Obj)
      BY <2>1, <2>2, ConsFacts
    <2>4. kids' \in [Obj \cup {Root} -> Seq(Obj)]
      BY <1>0, <1>1, <2>1, <2>3 DEF TalAlloc, AddChild, TypeOK
    <2>5. state' \in [Obj -> {"fresh", "live", "dying", "freed"}] /\ parent' \in [Obj -> Obj \cup {Root}]
      BY <1>0, <1>1, <2>1 DEF TalAlloc, TypeOK
    <2> QED BY <1>0, <1>1, <2>4, <2>5 DEF TalAlloc, TypeOK
  <1>2. ASSUME NEW ctx \in Node, NEW o \in Allocated, StealTo(ctx, o)
        PROVE  TypeOK'
    <2>1. o \in Obj /\ ctx \in Obj \cup {Root} /\ parent[o] \in Obj \cup {Root}
      BY <1>0, NodeFact DEF TypeOK
    <2> DEFINE k == [kids EXCEPT ![parent[o]] = RemoveFirst(kids[parent[o]], o)]
    <2>2. RemoveFirst(kids[parent[o]], o) \in Seq(Obj)
      BY <2>1, PropsFact, RemoveFirstFacts
    <2>3. k \in [Obj \cup {Root} -> Seq(Obj)]
      BY <1>0, <2>1, <2>2 DEF TypeOK
    <2> HIDE DEF k
    <2>4. <<o>> \o k[ctx] \in Seq(Obj)
      BY <2>1, <2>3, ConsFacts
    <2>5. kids' = [k EXCEPT ![ctx] = <<o>> \o k[ctx]]
      BY <1>2 DEF StealTo, AddChild, k
    <2>6. kids' \in [Obj \cup {Root} -> Seq(Obj)]
      BY <2>3, <2>4, <2>5
    <2>7. parent' \in [Obj -> Obj \cup {Root}]
      BY <1>0, <1>2, <2>1 DEF StealTo, TypeOK
    <2> QED BY <1>0, <1>2, <2>6, <2>7 DEF StealTo, TypeOK
  <1>3. ASSUME NEW o \in Allocated, Starts(o)
        PROVE  TypeOK'
    <2>1. o \in Obj /\ parent[o] \in Obj \cup {Root}
      BY <1>0, NodeFact DEF TypeOK
    <2>2. RemoveFirst(kids[parent[o]], o) \in Seq(Obj)
      BY <2>1, PropsFact, RemoveFirstFacts
    <2>3. kids' \in [Obj \cup {Root} -> Seq(Obj)]
      BY <1>0, <1>3, <2>1, <2>2 DEF Starts, Unlink, TypeOK
    <2>4. state' \in [Obj -> {"fresh", "live", "dying", "freed"}]
      BY <1>0, <1>3, <2>1 DEF Starts, Unlink, TypeOK
    <2>5. stack' \in Seq(Frame)
      <3>1. CASE stack' = Enter(o)
        BY <1>0, <2>1, <3>1, EnterFact
      <3>2. CASE stack # <<>> /\ stack' = [stack EXCEPT ![1] = NewFrame(o)]
        <4>1. NewFrame(o) \in Frame
          BY <2>1 DEF NewFrame, Frame
        <4> QED BY <1>0, <3>2, <4>1, TopFact
      <3> QED BY <1>3, <3>1, <3>2 DEF Starts
    <2> QED BY <1>0, <1>3, <2>3, <2>4, <2>5 DEF Starts, Unlink, TypeOK, Frame
  <1>4. ASSUME NEW o \in Allocated, TalResize(o)
        PROVE  TypeOK'
    <2>1. NewObj \in Obj /\ o \in Obj /\ parent[o] \in Obj \cup {Root}
      BY <1>0, <1>4, NewObjFact, NodeFact DEF TypeOK, TalResize
    <2>2. state' \in [Obj -> {"fresh", "live", "dying", "freed"}] /\ parent' \in [Obj -> Obj \cup {Root}]
      BY <1>0, <1>4, <2>1 DEF TalResize, TypeOK
    <2> DEFINE s == kids[parent[o]]
               t == [i \in DOMAIN s |-> IF s[i] = o THEN NewObj ELSE s[i]]
    <2>3. t \in Seq(Obj)
      <3>1. s \in Seq(Obj)
        BY <2>1, PropsFact
      <3> HIDE DEF s
      <3> QED BY <2>1, <3>1, ReplaceFacts
    <2>4. kids[o] \in Seq(Obj) /\ props[o] \in Seq(Prop) /\ <<>> \in Seq(Obj) /\ <<>> \in Seq(Prop)
      BY <2>1, PropsFact, EmptySeq
    <2>5. kids' = [kids EXCEPT ![parent[o]] = t, ![NewObj] = kids[o], ![o] = <<>>]
      BY <1>4 DEF TalResize
    <2> HIDE DEF s, t
    <2>6. kids' \in [Obj \cup {Root} -> Seq(Obj)]
      BY <1>0, <2>1, <2>3, <2>4, <2>5 DEF TypeOK
    <2>7. props' \in [Obj \cup {Root} -> Seq(Prop)]
      BY <1>0, <1>4, <2>1, <2>4 DEF TalResize, TypeOK
    <2> QED BY <1>0, <1>4, <2>2, <2>6, <2>7 DEF TalResize, TypeOK
  <1>5. ASSUME NEW o \in Node, NEW fn \in Fn, TalAddDestructor(o, fn)
        PROVE  TypeOK'
    <2>1. {"free"} \in Kinds /\ TRUE \in BOOLEAN
      BY DEF Kinds
    <2>2. props' \in [Obj \cup {Root} -> Seq(Prop)] /\ notif' \in [Prop -> Notifier]
      BY <1>5, <2>1, AddFact DEF TalAddDestructor
    <2> QED BY <1>0, <1>5, <2>2 DEF TalAddDestructor, tree, TypeOK
  <1>6. ASSUME NEW o \in Node, NEW fn \in Fn, TalDelNotifier(o, fn)
        PROVE  TypeOK'
    <2> DEFINE i == Min(Matching(o, fn))
               n == props[o][i]
               s == props[o]
    <2>1. /\ i \in 1 .. Len(s) /\ n \in ToSet(s) /\ n \in Prop
          /\ notif[n].fn = fn /\ notif[n].status = "set"
      BY <1>6, MatchFact DEF TalDelNotifier
    <2>2. /\ props' = [props EXCEPT ![o] = RemoveAt(s, i)]
          /\ notif' = [notif EXCEPT ![n] = Deleted(notif[n])]
          /\ notifiers' = IF notif[n].types = {"free"} THEN notifiers ELSE notifiers - 1
          /\ UNCHANGED <<state, tree, stack>>
      BY <1>6 DEF TalDelNotifier
    <2>3. o \in Obj \cup {Root}
      BY NodeFact
    <2>4. s \in Seq(Prop)
      BY <2>3, PropsFact
    <2> HIDE DEF i, n, s
    <2>5. RemoveAt(s, i) \in Seq(Prop)
      BY <2>1, <2>4, RemoveAtFacts
    <2>6. props' \in [Obj \cup {Root} -> Seq(Prop)]
      BY <1>0, <2>2, <2>3, <2>5 DEF TypeOK
    <2>7. Deleted(notif[n]) \in Notifier
      <3>1. notif[n] \in Notifier
        BY <1>0, <2>1 DEF TypeOK
      <3> QED BY <3>1 DEF Deleted, Unused, Notifier
    <2>8. notif' \in [Prop -> Notifier]
      BY <1>0, <2>1, <2>2, <2>7 DEF TypeOK
    <2>9. notifiers' \in Nat
      <3>1. CASE notif[n].types = {"free"}
        BY <1>0, <2>2, <3>1 DEF TypeOK
      <3>2. CASE notif[n].types # {"free"}
        <4> DEFINE T == {m \in Prop : notif[m].status = "set" /\ "del_child" \in notif[m].types}
        <4>1. n \in T
          BY <2>1, <3>2 DEF IInv, Kinded, Kinds
        <4>2. IsFiniteSet(T) /\ Cardinality(T) \in Nat /\ Cardinality(T) # 0
          BY <4>1, Consts, FS_Subset, FS_EmptySet, FS_CardinalityType
        <4>3. Cardinality(T) <= notifiers
          BY DEF IInv, NotifiersCounted
        <4> HIDE DEF T
        <4> QED BY <1>0, <2>2, <3>2, <4>2, <4>3 DEF TypeOK
      <3> QED BY <3>1, <3>2
    <2> QED BY <1>0, <2>2, <2>6, <2>8, <2>9 DEF tree, TypeOK
  <1>7. ASSUME NEW o \in Node, NEW fn \in Fn, NEW types \in Kinds, TalAddNotifier(o, fn, types)
        PROVE  TypeOK'
    <2>1. FALSE \in BOOLEAN
      OBVIOUS
    <2>2. props' \in [Obj \cup {Root} -> Seq(Prop)] /\ notif' \in [Prop -> Notifier]
      BY <1>7, <2>1, AddFact DEF TalAddNotifier
    <2> QED BY <1>0, <1>7, <2>2 DEF TalAddNotifier, tree, TypeOK
  <1>8. CASE Resumes
    <2> DEFINE f == [stack[1] EXCEPT !.phase = "notify"]
    <2>1. stack # <<>> /\ stack[1] \in Frame
      BY <1>0, <1>8, TopFact DEF Resumes
    <2>2. f \in Frame
      BY <2>1 DEF Frame
    <2>3. stack' = [stack EXCEPT ![1] = f]
      BY <1>8 DEF Resumes
    <2> HIDE DEF f
    <2>4. stack' \in Seq(Frame)
      BY <1>0, <2>1, <2>2, <2>3, TopFact
    <2> QED BY <1>0, <1>8, <2>4 DEF Resumes, tree, TypeOK, Frame
  <1>12. CASE Tells
    <2>1. PICK f \in Frame : \/ stack' = <<f>> \o stack
                             \/ stack # <<>> /\ stack' = [stack EXCEPT ![1] = f]
      BY <1>12 DEF Tells
    <2>2. stack \in Seq(Frame)
      BY <1>0 DEF TypeOK, Frame
    <2>3. stack' \in Seq(Frame)
      <3>1. CASE stack' = <<f>> \o stack
        BY <2>2, <3>1, ConsFacts
      <3>2. CASE stack # <<>> /\ stack' = [stack EXCEPT ![1] = f]
        BY <1>0, <3>2, TopFact
      <3> QED BY <2>1, <3>1, <3>2
    <2> QED BY <1>0, <1>12, <2>3 DEF Tells, tree, TypeOK, Frame
  <1>9. CASE Notify
    <2>0. stack # <<>> /\ stack[1] \in Frame
      BY <1>0, <1>9, TopFact DEF Notify
    <2>1. CASE Interested(Rest(Top), "free") # {}
      <3> DEFINE n == Rest(Top)[Min(Interested(Rest(Top), "free"))]
                 f == [stack[1] EXCEPT !.phase = "call", !.at = n]
      <3>1. n \in Prop
        BY <1>9, <2>0, <2>1, NotifyFact DEF Notify
      <3>2. /\ stack' = [stack EXCEPT ![1] = f]
            /\ notif' = [notif EXCEPT ![n].ran = @ + 1,
                           ![n].fn = IF notif[n].destructor THEN NoFn ELSE @]
        BY <1>9, <2>1 DEF Notify
      <3> HIDE DEF n
      <3>3. f \in Frame
        BY <2>0, <3>1 DEF Frame
      <3>4. notif' \in [Prop -> Notifier]
        <4> DEFINE g == [notif[n] EXCEPT !.ran = @ + 1,
                           !.fn = IF notif[n].destructor THEN NoFn ELSE @]
        <4>1. notif[n] \in Notifier /\ notif \in [Prop -> Notifier]
          BY <1>0, <3>1 DEF TypeOK
        <4>2. notif[n].ran + 1 \in Nat /\ notif[n].fn \in Fn \cup {NoFn}
          BY <4>1 DEF Notifier
        <4>3. g \in Notifier
          BY <4>1, <4>2, CalledFact
        <4>4. notif' = [notif EXCEPT ![n] = g]
          BY <3>1, <3>2, <4>1
        <4> HIDE DEF g
        <4> QED BY <3>1, <4>1, <4>3, <4>4
      <3> HIDE DEF f
      <3>5. stack' \in Seq(Frame)
        BY <1>0, <2>0, <3>2, <3>3, TopFact
      <3> QED BY <1>0, <1>9, <3>4, <3>5 DEF Notify, tree, TypeOK, Frame
    <2>2. CASE Interested(Rest(Top), "free") = {}
      <3> DEFINE f == [stack[1] EXCEPT !.phase = "children", !.at = NoProp]
      <3>1. f \in Frame
        BY <2>0 DEF Frame
      <3>2. stack' = [stack EXCEPT ![1] = f] /\ UNCHANGED notif
        BY <1>9, <2>2 DEF Notify
      <3> HIDE DEF f
      <3>3. stack' \in Seq(Frame)
        BY <1>0, <2>0, <3>1, <3>2, TopFact
      <3> QED BY <1>0, <1>9, <3>2, <3>3 DEF Notify, tree, TypeOK, Frame
    <2> QED BY <2>1, <2>2
  <1>10. CASE FreeChild
    <2> DEFINE s == kids[Top.obj]
    <2>1. stack # <<>> /\ s # <<>> /\ Top.obj \in Obj
      BY <1>0, <1>10, TopFact DEF FreeChild
    <2>2. s \in Seq(Obj) /\ IsInjective(s) /\ ToSet(s) \subseteq Obj
      BY <2>1, PropsFact
    <2>3. Tail(s) \in Seq(Obj) /\ Head(s) \in Obj
      BY <2>1, <2>2, TailFacts
    <2>4. /\ kids' = [kids EXCEPT ![Top.obj] = Tail(s)]
          /\ state' = [state EXCEPT ![Head(s)] = "dying"]
          /\ stack' = stack \/ stack' = Enter(Head(s))
          /\ UNCHANGED <<parent, props, notif, notifiers>>
      BY <1>10 DEF FreeChild
    <2> HIDE DEF s
    <2>5. stack' \in Seq(Frame)
      BY <1>0, <2>3, <2>4, EnterFact DEF TypeOK, Frame
    <2>6. kids' \in [Obj \cup {Root} -> Seq(Obj)]
      BY <1>0, <2>1, <2>3, <2>4 DEF TypeOK
    <2>7. state' \in [Obj -> {"fresh", "live", "dying", "freed"}]
      BY <1>0, <2>3, <2>4 DEF TypeOK
    <2> QED BY <1>0, <2>4, <2>5, <2>6, <2>7 DEF TypeOK, Frame
  <1>11. CASE FreeSelf
    <2>1. stack # <<>> /\ Top.obj \in Obj /\ stack \in Seq(Frame)
      BY <1>0, <1>11, TopFact DEF FreeSelf, TypeOK, Frame
    <2>2. Tail(stack) \in Seq(Frame) /\ <<>> \in Seq(Prop)
      BY <2>1, EmptySeq
    <2>3. notif' \in [Prop -> Notifier]
      <3>1. \A n \in Prop : notif[n] \in Notifier
        BY <1>0 DEF TypeOK
      <3>2. \A n \in Prop : [notif[n] EXCEPT !.status = "freed", !.fn = NoFn] \in Notifier
        BY <3>1 DEF Notifier
      <3>3. notif' = [n \in Prop |->
              IF n \in ToSet(props[Top.obj])
              THEN [notif[n] EXCEPT !.status = "freed", !.fn = NoFn] ELSE notif[n]]
        BY <1>11 DEF FreeSelf
      <3> QED BY <3>1, <3>2, <3>3
    <2>4. /\ state' \in [Obj -> {"fresh", "live", "dying", "freed"}]
          /\ parent' \in [Obj -> Obj \cup {Root}]
          /\ props' \in [Obj \cup {Root} -> Seq(Prop)]
      BY <1>0, <1>11, <2>1, <2>2 DEF FreeSelf, TypeOK
    <2> QED BY <1>0, <1>11, <2>2, <2>3, <2>4 DEF FreeSelf, TypeOK, Frame
  <1> QED BY <1>0, <1>1, <1>2, <1>3, <1>4, <1>5, <1>6, <1>7, <1>8, <1>9, <1>10, <1>11,
             <1>12
          DEF StepCases

-----------------------------------------------------------------------------
(* What the steps do *)

\* The child that del_tree goes on with is live.
LEMMA ChildFact ==
  ASSUME IInv, FreeChild
  PROVE  \E c \in Allocated :
           /\ c \in ToSet(kids[Top.obj]) /\ state[c] = "live" /\ c \in Obj
           /\ state' = [state EXCEPT ![c] = "dying"] /\ stack' = Enter(c)
  <1> DEFINE s == kids[Top.obj]
             c == Head(s)
  <1>1. stack # <<>> /\ s # <<>> /\ Top.obj \in Obj
    BY TopFact DEF FreeChild, IInv
  <1>2. s \in Seq(Obj) /\ IsInjective(s) /\ ToSet(s) \subseteq Obj
    BY <1>1, PropsFact
  <1>3. c \in ToSet(s)
    BY <1>1, <1>2, TailFacts
  <1>4. c \in Obj /\ state[c] = "live"
    BY <1>1, <1>2, <1>3 DEF IInv, Lists
  <1>5. state' = [state EXCEPT ![c] = "dying"] /\ stack' = IF state[c] = "dying" THEN stack ELSE Enter(c)
    BY DEF FreeChild
  <1> HIDE DEF c
  <1>6. stack' = Enter(c) /\ c \in Allocated
    BY <1>4, <1>5 DEF Allocated
  <1> QED BY <1>3, <1>4, <1>5, <1>6

\* tal_del_notifier_ takes the i-th notifier of the list.
DelAt(o, i) ==
  LET n == props[o][i] IN
  /\ n \in Prop /\ n \in ToSet(props[o]) /\ notif[n].status = "set" /\ notif[n].fn \in Fn
  /\ props'[o] = RemoveAt(props[o], i)
  /\ \A p \in Obj \cup {Root} : p # o => props'[p] = props[p]
  /\ notif'[n] = Deleted(notif[n])
  /\ \A m \in Prop : m # n => notif'[m] = notif[m]
  /\ notifiers' = IF notif[n].types = {"free"} THEN notifiers ELSE notifiers - 1
  /\ UNCHANGED <<state, parent, kids, stack>>

\* tal_del_notifier_ deletes one.
LEMMA DelFact ==
  ASSUME IInv, NEW o \in Node, NEW fn \in Fn, TalDelNotifier(o, fn)
  PROVE  \E i \in 1 .. Len(props[o]) : DelAt(o, i)
  <1> DEFINE i == Min(Matching(o, fn))
             n == props[o][i]
             s == props[o]
  <1>1. /\ i \in 1 .. Len(s) /\ n \in ToSet(s) /\ n \in Prop
        /\ notif[n].fn = fn /\ notif[n].status = "set"
    BY MatchFact DEF TalDelNotifier
  <1>2. /\ props' = [props EXCEPT ![o] = RemoveAt(s, i)]
        /\ notif' = [notif EXCEPT ![n] = Deleted(notif[n])]
        /\ notifiers' = IF notif[n].types = {"free"} THEN notifiers ELSE notifiers - 1
        /\ UNCHANGED <<state, parent, kids, stack>>
    BY DEF TalDelNotifier, tree
  <1>3. o \in Obj \cup {Root}
    BY NodeFact
  <1> HIDE DEF i
  <1>4. /\ props'[o] = RemoveAt(s, i)
        /\ \A p \in Obj \cup {Root} : p # o => props'[p] = props[p]
    BY <1>2, <1>3 DEF IInv, TypeOK
  <1>5. /\ notif'[n] = Deleted(notif[n])
        /\ \A m \in Prop : m # n => notif'[m] = notif[m]
    <2> HIDE DEF n
    <2> QED BY <1>1, <1>2 DEF IInv, TypeOK
  <1>6. DelAt(o, i)
    BY <1>1, <1>2, <1>4, <1>5 DEF DelAt
  <1> QED BY <1>1, <1>6

\* notify calls n, or has called all.
CallOf(n) ==
  /\ n \in Prop
  /\ stack' = [stack EXCEPT ![1] = [stack[1] EXCEPT !.phase = "call", !.at = n]]
  /\ notif'[n].ran = notif[n].ran + 1 /\ notif'[n].destructor = notif[n].destructor
  /\ notif'[n].fn = (IF notif[n].destructor THEN NoFn ELSE notif[n].fn)
  /\ notif'[n].status = notif[n].status /\ notif'[n].types = notif[n].types
  /\ notif'[n].late = notif[n].late
  /\ \A m \in Prop : m # n => notif'[m] = notif[m]

\* What notify does, whether or not it calls somebody.
LEMMA CallFact ==
  ASSUME IInv, Notify
  PROVE  /\ Interested(Rest(Top), "free") # {} => CallOf(Rest(Top)[Min(Interested(Rest(Top), "free"))])
         /\ \A m \in Prop : /\ notif'[m].status = notif[m].status
                            /\ notif'[m].types = notif[m].types
                            /\ notif'[m].late = notif[m].late
                            /\ notif'[m].destructor = notif[m].destructor
  <1>0. stack # <<>> /\ stack[1] \in Frame
    BY TopFact DEF Notify, IInv
  <1>1. CASE Interested(Rest(Top), "free") # {}
    <2> DEFINE n == Rest(Top)[Min(Interested(Rest(Top), "free"))]
               r == notif[n].ran + 1
               f == IF notif[n].destructor THEN NoFn ELSE notif[n].fn
               g == [notif[n] EXCEPT !.ran = r, !.fn = f]
    <2>1. n \in Prop
      BY <1>0, <1>1, NotifyFact DEF Notify
    <2>2. /\ stack' = [stack EXCEPT ![1] = [stack[1] EXCEPT !.phase = "call", !.at = n]]
          /\ notif' = [notif EXCEPT ![n].ran = @ + 1,
                         ![n].fn = IF notif[n].destructor THEN NoFn ELSE @]
      BY <1>1 DEF Notify
    <2> HIDE DEF n
    <2>3. notif \in [Prop -> Notifier] /\ notif[n] \in Notifier
      BY <2>1 DEF IInv, TypeOK
    <2>4. r \in Nat /\ f \in Fn \cup {NoFn}
      BY <2>3 DEF Notifier
    <2>6. notif' = [notif EXCEPT ![n] = g]
      BY <2>1, <2>2, <2>3
    <2>5. /\ g.ran = r /\ g.fn = f /\ g.status = notif[n].status /\ g.types = notif[n].types
          /\ g.destructor = notif[n].destructor /\ g.late = notif[n].late
      <3> HIDE DEF r, f
      <3> QED BY ONLY <2>3, <2>4 DEF Notifier
    <2> HIDE DEF g
    <2>7. notif'[n] = g /\ \A m \in Prop : m # n => notif'[m] = notif[m]
      BY <2>1, <2>3, <2>6
    <2>8. CallOf(n)
      BY <2>1, <2>2, <2>5, <2>7 DEF CallOf
    <2> QED BY <2>1, <2>5, <2>7, <2>8 DEF n
  <1>2. CASE Interested(Rest(Top), "free") = {}
    BY <1>2 DEF Notify
  <1> QED BY <1>1, <1>2

-----------------------------------------------------------------------------
(* The tree *)

\* A live object is not its own parent.
LEMMA ParentFact ==
  ASSUME IInv, NEW o \in Obj, state[o] = "live"
  PROVE  /\ parent[o] \in Node /\ parent[o] \in Obj \cup {Root} /\ parent[o] # o
         /\ o \in ToSet(kids[parent[o]]) /\ o \in Allocated
  <1>1. o \in Allocated
    BY DEF Allocated
  <1>2. {o} \in SUBSET Allocated /\ {o} # {}
    BY <1>1
  <1>3. parent[o] \notin {o}
    BY <1>2 DEF IInv, NoCycle
  <1> QED BY <1>1, <1>3, NodeFact DEF IInv, Lists

\* The empty list.
LEMMA EmptySet ==
  ToSet(<<>>) = {} /\ IsInjective(<<>>)
  BY DEF ToSet, IsInjective

\* Lists is preserved.
LEMMA ListsStep ==
  ASSUME IInv, Next
  PROVE  Lists'
  <1>0. TypeOK /\ Lists /\ Root \notin Obj /\ StepCases
    BY Consts, NextCases DEF IInv
  <1> DEFINE Q == Obj \cup {Root}
  <1>k. \A q \in Q : /\ kids[q] \in Seq(Obj) /\ IsInjective(kids[q])
                     /\ \A c \in ToSet(kids[q]) : c \in Obj /\ state[c] = "live" /\ parent[c] = q
    <2>1. \A q \in Q : kids[q] \in Seq(Obj) /\ ToSet(kids[q]) \subseteq Obj
      BY PropsFact
    <2> QED BY <1>0, <2>1 DEF Lists
  <1>p. \A q \in Obj : state[q] = "live" =>
          /\ parent[q] \in Node /\ parent[q] \in Q /\ parent[q] # q
          /\ q \in ToSet(kids[parent[q]])
    BY ParentFact
  <1>1. ASSUME NEW ctx \in Node, TalAlloc(ctx)
        PROVE  Lists'
    <2> DEFINE new == NewObj
    <2>1. new \in Obj /\ state[new] = "fresh" /\ new \notin Node /\ ctx \in Q /\ ctx # new
      BY <1>1, NewObjFact, NodeFact DEF TalAlloc
    <2>2. /\ state' = [state EXCEPT ![new] = "live"]
          /\ parent' = [parent EXCEPT ![new] = ctx]
          /\ kids' = [kids EXCEPT ![ctx] = <<new>> \o kids[ctx]]
      BY <1>1 DEF TalAlloc, AddChild
    <2> HIDE DEF new
    <2>3. /\ state'[new] = "live" /\ \A q \in Obj : q # new => state'[q] = state[q]
          /\ parent'[new] = ctx /\ \A q \in Obj : q # new => parent'[q] = parent[q]
          /\ kids'[ctx] = <<new>> \o kids[ctx] /\ \A q \in Q : q # ctx => kids'[q] = kids[q]
      BY <1>0, <2>1, <2>2 DEF TypeOK
    <2>4. /\ kids[ctx] \in Seq(Obj) /\ IsInjective(kids[ctx]) /\ new \notin ToSet(kids[ctx])
          /\ \A q \in Q : ToSet(kids[q]) \subseteq Obj
      BY <1>0, <2>1, PropsFact DEF Lists
    <2>5. ToSet(kids'[ctx]) = ToSet(kids[ctx]) \cup {new} /\ IsInjective(kids'[ctx])
      BY <2>1, <2>3, <2>4, ConsFacts
    <2>6. Allocated' = Allocated \cup {new}
      BY <2>1, <2>3 DEF Allocated
    <2> QED
      <3>1. ASSUME NEW q \in Q
            PROVE  /\ IsInjective(kids'[q])
                   /\ \A c \in ToSet(kids'[q]) : state'[c] = "live" /\ parent'[c] = q
        <4>1. CASE q = ctx
          <5>1. \A c \in ToSet(kids[ctx]) : c \in Obj /\ c # new /\ state[c] = "live" /\ parent[c] = ctx
            BY <1>k, <2>1
          <5>2. \A c \in ToSet(kids'[ctx]) : c = new \/ c \in ToSet(kids[ctx])
            BY <2>5
          <5>3. \A c \in ToSet(kids'[ctx]) : state'[c] = "live" /\ parent'[c] = ctx
            BY <2>3, <5>1, <5>2
          <5> QED BY <2>5, <4>1, <5>3
        <4>2. CASE q # ctx
          BY <1>0, <2>1, <2>3, <2>4, <4>2 DEF Lists
        <4> QED BY <4>1, <4>2
      <3>2. \A q \in Obj \ Allocated' : kids'[q] = <<>>
        BY <1>0, <2>1, <2>3, <2>6 DEF Lists, Node
      <3>3. \A q \in Obj : state'[q] = "live" => parent'[q] \in Node' /\ q \in ToSet(kids'[parent'[q]])
        <4> TAKE q \in Obj
        <4>1. CASE q = new
          BY <2>1, <2>3, <2>5, <2>6, <4>1 DEF Node
        <4>2. CASE q # new
          <5> SUFFICES ASSUME state'[q] = "live"
                       PROVE  parent'[q] \in Node' /\ q \in ToSet(kids'[parent'[q]])
            OBVIOUS
          <5>1. parent'[q] = parent[q] /\ state[q] = "live"
            BY <2>3, <4>2
          <5>2. parent[q] \in Node /\ parent[q] \in Q /\ q \in ToSet(kids[parent[q]])
            BY <1>p, <5>1
          <5>3. parent[q] \in Node'
            BY <2>6, <5>2 DEF Node
          <5>4. q \in ToSet(kids'[parent[q]])
            <6>1. CASE parent[q] = ctx
              BY <2>5, <5>2, <6>1
            <6>2. CASE parent[q] # ctx
              BY <2>3, <5>2, <6>2
            <6> QED BY <6>1, <6>2
          <5> QED BY <5>1, <5>3, <5>4
        <4> QED BY <4>1, <4>2
      <3> QED BY <3>1, <3>2, <3>3 DEF Lists
  <1>2. ASSUME NEW ctx \in Node, NEW o \in Allocated, StealTo(ctx, o)
        PROVE  Lists'
    <2> DEFINE from == parent[o]
               k == [kids EXCEPT ![from] = RemoveFirst(kids[from], o)]
    <2>1. o \in Obj /\ ctx \in Q /\ state[o] = "live" /\ ctx \in Node
      BY <1>2, NodeFact DEF StealTo
    <2>2. from \in Node /\ from \in Q /\ o \in ToSet(kids[from])
      BY <2>1, ParentFact
    <2>3. \A q \in Q : kids[q] \in Seq(Obj) /\ IsInjective(kids[q]) /\ ToSet(kids[q]) \subseteq Obj
      BY PropsFact
    <2>4. kids' = [k EXCEPT ![ctx] = <<o>> \o k[ctx]] /\ parent' = [parent EXCEPT ![o] = ctx]
      BY <1>2 DEF StealTo, AddChild
    <2>5. UNCHANGED state
      BY <1>2 DEF StealTo
    <2> HIDE DEF from
    <2>6. /\ RemoveFirst(kids[from], o) \in Seq(Obj)
          /\ IsInjective(RemoveFirst(kids[from], o))
          /\ ToSet(RemoveFirst(kids[from], o)) = ToSet(kids[from]) \ {o}
      BY <2>2, <2>3, RemoveFirstFacts
    <2>7. \A q \in Q : k[q] = IF q = from THEN RemoveFirst(kids[from], o) ELSE kids[q]
      BY <1>0, <2>2 DEF TypeOK
    <2>8. DOMAIN k = Q
      BY <1>0, <2>2 DEF TypeOK
    <2> HIDE DEF k
    <2>9. \A q \in Q : q # from => o \notin ToSet(kids[q])
      BY <1>0 DEF Lists, from
    <2>10. \A q \in Q : k[q] \in Seq(Obj) /\ IsInjective(k[q]) /\ ToSet(k[q]) = ToSet(kids[q]) \ {o}
      BY <2>3, <2>6, <2>7, <2>9
    <2>11. IsInjective(<<o>> \o k[ctx]) /\ ToSet(<<o>> \o k[ctx]) = ToSet(kids[ctx]) \cup {o}
      <3>1. k[ctx] \in Seq(Obj) /\ IsInjective(k[ctx]) /\ ToSet(k[ctx]) = ToSet(kids[ctx]) \ {o}
        BY <2>1, <2>10
      <3>2. o \notin ToSet(k[ctx])
        BY <3>1
      <3>3. /\ ToSet(<<o>> \o k[ctx]) = ToSet(k[ctx]) \cup {o}
            /\ IsInjective(<<o>> \o k[ctx])
        BY <2>1, <3>1, <3>2, ConsFacts
      <3> QED BY <3>1, <3>3
    <2>12. \A q \in Q : kids'[q] = IF q = ctx THEN <<o>> \o k[ctx] ELSE k[q]
      BY <2>1, <2>4, <2>8
    <2>13. \A q \in Obj : parent'[q] = IF q = o THEN ctx ELSE parent[q]
      BY <1>0, <2>1, <2>4 DEF TypeOK
    <2> QED
      <3>1. ASSUME NEW q \in Q
            PROVE  /\ IsInjective(kids'[q])
                   /\ \A c \in ToSet(kids'[q]) : state'[c] = "live" /\ parent'[c] = q
        <4>1. CASE q = ctx
          <5>1. \A c \in ToSet(kids[ctx]) : c \in Obj /\ state[c] = "live" /\ parent[c] = ctx
            BY <1>k, <2>1
          <5>2. \A c \in ToSet(kids[ctx]) \cup {o} : state[c] = "live" /\ parent'[c] = ctx
            BY <2>1, <2>13, <5>1
          <5> QED BY <2>1, <2>5, <2>11, <2>12, <4>1, <5>2
        <4>2. CASE q # ctx
          <5>1. kids'[q] = k[q]
            BY <2>12, <4>2
          <5>2. IsInjective(k[q]) /\ ToSet(k[q]) = ToSet(kids[q]) \ {o}
            BY <2>10
          <5>3. \A c \in ToSet(kids[q]) : c \in Obj /\ state[c] = "live" /\ parent[c] = q
            BY <1>k
          <5>4. \A c \in ToSet(k[q]) : state[c] = "live" /\ parent'[c] = q
            BY <2>13, <5>2, <5>3
          <5> QED BY <2>5, <5>1, <5>2, <5>4
        <4> QED BY <4>1, <4>2
      <3>2. \A q \in Obj \ Allocated : kids'[q] = <<>>
        <4> TAKE q \in Obj \ Allocated
        <4>1. q # ctx /\ q # from
          BY <2>1, <2>2, Consts DEF Node
        <4> QED BY <1>0, <2>7, <2>12, <4>1 DEF Lists
      <3>3. \A q \in Obj : state[q] = "live" => parent'[q] \in Node /\ q \in ToSet(kids'[parent'[q]])
        <4> TAKE q \in Obj
        <4>1. CASE q = o
          BY <2>1, <2>11, <2>12, <2>13, <4>1
        <4>2. CASE q # o
          <5> SUFFICES ASSUME state[q] = "live"
                       PROVE  parent'[q] \in Node /\ q \in ToSet(kids'[parent'[q]])
            OBVIOUS
          <5>1. parent[q] \in Node /\ parent[q] \in Q /\ q \in ToSet(kids[parent[q]])
            BY ParentFact
          <5> QED BY <2>10, <2>11, <2>12, <2>13, <4>2, <5>1
        <4> QED BY <4>1, <4>2
      <3> QED BY <2>5, <3>1, <3>2, <3>3 DEF Lists, Allocated, Node
  <1>3. ASSUME NEW o \in Allocated, Starts(o)
        PROVE  Lists'
    <2> DEFINE from == parent[o]
    <2>1. o \in Obj /\ state[o] = "live"
      BY <1>3, NodeFact DEF Starts, Unlink
    <2>2. from \in Node /\ from \in Q /\ o \in ToSet(kids[from])
      BY <2>1, ParentFact
    <2>3. \A q \in Q : kids[q] \in Seq(Obj) /\ IsInjective(kids[q]) /\ ToSet(kids[q]) \subseteq Obj
      BY PropsFact
    <2>4. /\ kids' = [kids EXCEPT ![from] = RemoveFirst(kids[from], o)]
          /\ state' = [state EXCEPT ![o] = "dying"] /\ UNCHANGED parent
      BY <1>3 DEF Starts, Unlink
    <2>5. \A q \in Q : q # from => o \notin ToSet(kids[q])
      BY <1>0 DEF Lists
    <2> HIDE DEF from
    <2>6. /\ IsInjective(RemoveFirst(kids[from], o))
          /\ ToSet(RemoveFirst(kids[from], o)) = ToSet(kids[from]) \ {o}
      BY <2>2, <2>3, RemoveFirstFacts
    <2>7. \A q \in Q : kids'[q] = IF q = from THEN RemoveFirst(kids[from], o) ELSE kids[q]
      BY <1>0, <2>2, <2>4 DEF TypeOK
    <2>8. \A q \in Q : IsInjective(kids'[q]) /\ ToSet(kids'[q]) = ToSet(kids[q]) \ {o}
      BY <2>3, <2>5, <2>6, <2>7
    <2>9. \A q \in Obj : state'[q] = IF q = o THEN "dying" ELSE state[q]
      BY <1>0, <2>4 DEF TypeOK
    <2>10. Allocated' = Allocated
      BY <2>1, <2>9 DEF Allocated
    <2>11. \A q \in Q : \A c \in ToSet(kids'[q]) : state'[c] = "live" /\ parent'[c] = q
      <3> TAKE q \in Q
      <3> TAKE c \in ToSet(kids'[q])
      <3>1. c \in ToSet(kids[q]) /\ c # o
        BY <2>8
      <3> QED BY <1>k, <2>4, <2>9, <3>1
    <2>12. \A q \in Obj \ Allocated : kids'[q] = <<>>
      BY <1>0, <2>2, <2>7 DEF Lists, Node
    <2>13. \A q \in Obj : state'[q] = "live" => parent'[q] \in Node /\ q \in ToSet(kids'[parent'[q]])
      BY <2>4, <2>8, <2>9, ParentFact
    <2> QED BY <2>8, <2>10, <2>11, <2>12, <2>13 DEF Lists, Node
  <1>4. ASSUME NEW o \in Allocated, TalResize(o)
        PROVE  Lists'
    <2> DEFINE new == NewObj
               from == parent[o]
               s == kids[from]
               t == [i \in DOMAIN s |-> IF s[i] = o THEN new ELSE s[i]]
    <2>1. /\ new \in Obj /\ state[new] = "fresh" /\ new \notin Node
          /\ o \in Obj /\ state[o] = "live" /\ o # new
      BY <1>4, NewObjFact, NodeFact DEF TalResize
    <2>2. from \in Node /\ from \in Q /\ o \in ToSet(kids[from]) /\ from # o /\ from # new
      BY <2>1, ParentFact
    <2>3. \A q \in Q : kids[q] \in Seq(Obj) /\ IsInjective(kids[q]) /\ ToSet(kids[q]) \subseteq Obj
      BY PropsFact
    <2>4. /\ state' = [state EXCEPT ![o] = "freed", ![new] = "live"]
          /\ parent' = [p \in Obj |->
               CASE p = new -> parent[o] [] p = o -> Root
                 [] OTHER -> IF parent[p] = o THEN new ELSE parent[p]]
          /\ kids' = [kids EXCEPT ![from] = t, ![new] = kids[o], ![o] = <<>>]
      BY <1>4 DEF TalResize
    <2>5. \A q \in Q : new \notin ToSet(kids[q])
      BY <1>0, <2>1 DEF Lists
    <2>6. IsInjective(t) /\ ToSet(t) = (ToSet(s) \ {o}) \cup {new}
      <3>1. s \in Seq(Obj) /\ IsInjective(s) /\ new \notin ToSet(s) /\ o \in ToSet(s)
        BY <2>2, <2>3, <2>5
      <3> HIDE DEF s
      <3>2. ToSet(t) = (ToSet(s) \ {o}) \cup {new}
        BY <2>1, <3>1, ReplaceFacts
      <3>3. IsInjective(t)
        BY <2>1, <3>1, ReplaceFacts
      <3> QED BY <3>1, <3>2, <3>3
    <2> HIDE DEF new, from, t
    <2>7. /\ kids'[from] = t /\ kids'[new] = kids[o] /\ kids'[o] = <<>>
          /\ \A q \in Q \ {from, new, o} : kids'[q] = kids[q]
      BY <1>0, <2>1, <2>2, <2>4 DEF TypeOK
    <2>8. /\ state'[new] = "live" /\ state'[o] = "freed"
          /\ \A q \in Obj \ {new, o} : state'[q] = state[q]
      BY <1>0, <2>1, <2>4 DEF TypeOK
    <2>9. /\ parent'[new] = from /\ parent'[o] = Root
          /\ \A q \in Obj \ {new, o} : parent'[q] = IF parent[q] = o THEN new ELSE parent[q]
      BY <2>1, <2>4 DEF from
    <2>10. Allocated' = (Allocated \ {o}) \cup {new}
      BY <2>1, <2>8 DEF Allocated
    <2>11. ASSUME NEW q \in Q
           PROVE  /\ IsInjective(kids'[q])
                  /\ \A c \in ToSet(kids'[q]) : state'[c] = "live" /\ parent'[c] = q
      <3>1. CASE q = from
        BY <1>0, <2>2, <2>3, <2>5, <2>6, <2>7, <2>8, <2>9, <3>1 DEF Lists
      <3>2. CASE q = new
        <4>1. \A c \in ToSet(kids[o]) : c \in Obj /\ c # new /\ c # o /\ state[c] = "live" /\ parent[c] = o
          BY <1>0, <2>1, <2>2, <2>3, <2>5, ParentFact DEF Lists
        <4> QED BY <2>1, <2>3, <2>7, <2>8, <2>9, <3>2, <4>1
      <3>3. CASE q = o
        BY <2>7, <3>3, EmptySet
      <3>4. CASE q \notin {from, new, o}
        <4>1. \A c \in ToSet(kids[q]) : c \in Obj /\ c # new /\ c # o /\ state[c] = "live" /\ parent[c] = q
          BY <1>0, <2>1, <2>3, <2>5, <3>4 DEF Lists, from
        <4> QED BY <2>3, <2>7, <2>8, <2>9, <3>4, <4>1
      <3> QED BY <3>1, <3>2, <3>3, <3>4
    <2>12. \A q \in Obj \ Allocated' : kids'[q] = <<>>
      BY <1>0, <2>1, <2>2, <2>7, <2>10 DEF Lists, Node
    <2>13. ASSUME NEW q \in Obj, state'[q] = "live"
           PROVE  parent'[q] \in Node' /\ q \in ToSet(kids'[parent'[q]])
      <3>1. CASE q = new
        BY <2>2, <2>6, <2>7, <2>9, <2>10, <3>1 DEF Node
      <3>2. CASE q # new
        <4>1. q # o /\ state[q] = "live"
          BY <2>8, <2>13, <3>2
        <4>2. parent[q] \in Node /\ parent[q] \in Q /\ q \in ToSet(kids[parent[q]])
          BY <4>1, ParentFact
        <4>3. CASE parent[q] = o
          BY <2>7, <2>9, <2>10, <3>2, <4>1, <4>2, <4>3 DEF Node
        <4>4. CASE parent[q] = from
          BY <2>2, <2>6, <2>7, <2>9, <2>10, <3>2, <4>1, <4>2, <4>4 DEF Node
        <4>5. CASE parent[q] \notin {o, from}
          BY <2>1, <2>7, <2>9, <2>10, <3>2, <4>1, <4>2, <4>5 DEF Node
        <4> QED BY <4>3, <4>4, <4>5
      <3> QED BY <3>1, <3>2
    <2> QED BY <2>11, <2>12, <2>13 DEF Lists
  <1>5. CASE UNCHANGED <<state, parent, kids>>
    BY <1>0, <1>5 DEF Lists, Node, Allocated
  <1>6. CASE FreeChild
    <2> DEFINE o == Top.obj
               c == Head(kids[o])
    <2>1. stack # <<>> /\ kids[o] # <<>> /\ o \in Obj
      BY <1>0, <1>6, TopFact DEF FreeChild
    <2>2. \A q \in Q : kids[q] \in Seq(Obj) /\ IsInjective(kids[q]) /\ ToSet(kids[q]) \subseteq Obj
      BY PropsFact
    <2>3. IsInjective(Tail(kids[o])) /\ ToSet(Tail(kids[o])) = ToSet(kids[o]) \ {c} /\ c \in ToSet(kids[o])
      BY <2>1, <2>2, TailFacts
    <2>4. /\ kids' = [kids EXCEPT ![o] = Tail(kids[o])]
          /\ state' = [state EXCEPT ![c] = "dying"] /\ UNCHANGED parent
      BY <1>6 DEF FreeChild
    <2> HIDE DEF c, o
    <2>5. c \in Obj /\ state[c] = "live" /\ \A q \in Q : q # o => c \notin ToSet(kids[q])
      <3>1. c \in Obj /\ state[c] = "live" /\ parent[c] = o
        BY <1>k, <2>1, <2>3
      <3> QED BY <1>k, <3>1
    <2>6. \A q \in Q : kids'[q] = IF q = o THEN Tail(kids[o]) ELSE kids[q]
      BY <1>0, <2>1, <2>4 DEF TypeOK
    <2>7. \A q \in Q : IsInjective(kids'[q]) /\ ToSet(kids'[q]) = ToSet(kids[q]) \ {c}
      BY <2>2, <2>3, <2>5, <2>6
    <2>8. \A q \in Obj : state'[q] = IF q = c THEN "dying" ELSE state[q]
      BY <1>0, <2>4 DEF TypeOK
    <2>9. Allocated' = Allocated
      BY <2>5, <2>8 DEF Allocated
    <2>10. \A q \in Q : \A d \in ToSet(kids'[q]) : state'[d] = "live" /\ parent'[d] = q
      <3>1. \A q \in Q : \A d \in ToSet(kids'[q]) : d \in ToSet(kids[q]) /\ d # c
        BY <2>7
      <3>2. \A q \in Q : \A d \in ToSet(kids[q]) : d \in Obj /\ state[d] = "live" /\ parent[d] = q
        BY <1>k
      <3>3. parent' = parent
        BY <2>4
      <3> QED BY <2>8, <3>1, <3>2, <3>3
    <2>11. \A q \in Obj \ Allocated : kids'[q] = <<>>
      BY <1>0, <2>1, <2>6 DEF Lists
    <2>12. \A q \in Obj : state'[q] = "live" => parent'[q] \in Node /\ q \in ToSet(kids'[parent'[q]])
      BY <2>4, <2>7, <2>8, ParentFact
    <2> QED BY <2>7, <2>9, <2>10, <2>11, <2>12 DEF Lists, Node
  <1>7. CASE FreeSelf
    <2> DEFINE o == Top.obj
    <2>1. stack # <<>> /\ kids[o] = <<>> /\ o \in Obj /\ state[o] = "dying"
      <3>1. /\ stack # <<>> /\ kids[o] = <<>> /\ o \in Obj /\ 1 \in DOMAIN stack
            /\ o = stack[1].obj /\ stack[1].phase = "children"
        BY <1>0, <1>7, TopFact DEF FreeSelf
      <3> QED BY <3>1, FrameFact DEF Destroys
    <2>2. /\ state' = [state EXCEPT ![o] = "freed"] /\ parent' = [parent EXCEPT ![o] = Root]
          /\ UNCHANGED kids
      BY <1>7 DEF FreeSelf
    <2> HIDE DEF o
    <2>3. \A q \in Obj : /\ state'[q] = IF q = o THEN "freed" ELSE state[q]
                         /\ q # o => parent'[q] = parent[q]
      BY <1>0, <2>2 DEF TypeOK
    <2>4. Allocated' = Allocated \ {o}
      BY <2>1, <2>3 DEF Allocated
    <2>5. \A q \in Q : ToSet(kids[q]) \subseteq Obj /\ o \notin ToSet(kids[q])
      BY <1>0, <2>1, PropsFact DEF Lists
    <2>6. \A q \in Q : IsInjective(kids'[q]) /\ \A d \in ToSet(kids'[q]) : state'[d] = "live" /\ parent'[d] = q
      BY <1>0, <2>2, <2>3, <2>5 DEF Lists
    <2>7. \A q \in Obj \ Allocated' : kids'[q] = <<>>
      BY <1>0, <2>1, <2>2, <2>4 DEF Lists
    <2>8. ASSUME NEW q \in Obj, state'[q] = "live"
          PROVE  parent'[q] \in Node' /\ q \in ToSet(kids'[parent'[q]])
      <3>1. q # o /\ state[q] = "live" /\ parent'[q] = parent[q]
        BY <2>3, <2>8
      <3>2. parent[q] \in Node /\ q \in ToSet(kids[parent[q]])
        BY <3>1, ParentFact
      <3>3. parent[q] # o
        BY <2>1, <3>2, EmptySet
      <3> QED BY <2>2, <2>4, <3>1, <3>2, <3>3 DEF Node
    <2> QED BY <2>6, <2>7, <2>8 DEF Lists
  <1> QED BY <1>0, <1>1, <1>2, <1>3, <1>4, <1>5, <1>6, <1>7
          DEF StepCases, TalAddDestructor, TalDelNotifier, TalAddNotifier, Tells,
              Resumes,
              Notify, tree

\* Nobody becomes its own ancestor: a stolen object does not go below itself.
LEMMA NoCycleStep ==
  ASSUME IInv, Next
  PROVE  NoCycle'
  <1>0. TypeOK /\ Lists /\ NoCycle /\ Root \notin Obj /\ StepCases
    BY Consts, NextCases DEF IInv
  <1> SUFFICES ASSUME NEW S \in SUBSET Allocated', S # {}, \A c \in S : parent'[c] \in S
               PROVE  FALSE
    BY DEF NoCycle
  <1>1. ASSUME NEW ctx \in Node, TalAlloc(ctx)
        PROVE  FALSE
    <2>1. /\ NewObj \in Obj /\ state[NewObj] = "fresh" /\ NewObj \notin Node
      BY <1>1, NewObjFact DEF TalAlloc
    <2>2. /\ Allocated' = Allocated \cup {NewObj}
          /\ parent'[NewObj] = ctx /\ \A q \in Obj : q # NewObj => parent'[q] = parent[q]
      BY <1>0, <1>1, <2>1 DEF TalAlloc, Allocated, TypeOK
    <2> DEFINE T == S \ {NewObj}
    <2>3. T \in SUBSET Allocated /\ \A c \in T : c \in Obj /\ parent[c] \in S
      BY <2>2, NodeFact
    <2>4. \A c \in T : parent[c] # NewObj
      <3> SUFFICES ASSUME NEW c \in T, parent[c] = NewObj PROVE FALSE
        OBVIOUS
      <3> QED BY <2>1, <2>3 DEF IInv, Known, Node
    <2>5. T # {}
      BY <2>1, <2>2 DEF Node
    <2> QED BY <1>0, <2>3, <2>4, <2>5 DEF NoCycle
  <1>2. ASSUME NEW ctx \in Node, NEW o \in Allocated, StealTo(ctx, o)
        PROVE  FALSE
    <2>1. /\ \A c \in Allocated : parent[c] \in Within(o) => c \in Within(o)
          /\ o \in Within(o) /\ ctx \notin Within(o)
      BY <1>2, WithinFacts DEF StealTo
    <2>2. Allocated' = Allocated /\ \A q \in Obj : parent'[q] = IF q = o THEN ctx ELSE parent[q]
      BY <1>0, <1>2 DEF StealTo, Allocated, TypeOK
    <2> DEFINE T == S \ Within(o)
    <2>3. T \in SUBSET Allocated /\ \A c \in T : c \in Obj /\ c # o /\ parent[c] \in S
      BY <2>1, <2>2, NodeFact
    <2>4. \A c \in T : parent[c] \in T
      BY <2>1, <2>3
    <2>5. CASE T = {}
      <3>1. o \notin S
        BY <2>1, <2>2, <2>5, NodeFact
      <3>2. S \in SUBSET Allocated /\ \A c \in S : parent[c] \in S
        BY <2>2, <3>1, NodeFact
      <3> QED BY <1>0, <3>2 DEF NoCycle
    <2>6. CASE T # {}
      BY <1>0, <2>3, <2>4, <2>6 DEF NoCycle
    <2> QED BY <2>5, <2>6
  <1>3. ASSUME NEW o \in Allocated, TalResize(o)
        PROVE  FALSE
    <2> DEFINE new == NewObj
    <2>1. /\ new \in Obj /\ state[new] = "fresh" /\ new \notin Node /\ o # new /\ o \in Obj
          /\ state[o] = "live"
      BY <1>3, NewObjFact, NodeFact DEF TalResize
    <2>2. /\ Allocated' = (Allocated \ {o}) \cup {new}
          /\ parent'[new] = parent[o]
          /\ \A q \in Obj \ {new, o} : parent'[q] = IF parent[q] = o THEN new ELSE parent[q]
      <3>1. state' = [state EXCEPT ![o] = "freed", ![new] = "live"]
        BY <1>3 DEF TalResize
      <3>2. parent' = [p \in Obj |->
              CASE p = new -> parent[o] [] p = o -> Root
                [] OTHER -> IF parent[p] = o THEN new ELSE parent[p]]
        BY <1>3 DEF TalResize
      <3> HIDE DEF new
      <3>3. Allocated' = (Allocated \ {o}) \cup {new}
        BY <1>0, <2>1, <3>1 DEF Allocated, TypeOK
      <3> QED BY <2>1, <3>2, <3>3
    <2> HIDE DEF new
    <2> DEFINE T == {IF c = new THEN o ELSE c : c \in S}
    <2>3. T \in SUBSET Allocated /\ T # {}
      BY <2>2
    <2>4. ASSUME NEW c \in S
          PROVE  parent[IF c = new THEN o ELSE c] \in T
      <3>1. CASE c = new
        <4>1. parent[o] \in S /\ parent[o] # new
          BY <2>1, <2>2, <3>1, ParentFact
        <4> QED BY <3>1, <4>1
      <3>2. CASE c # new /\ parent[c] = o
        <4>1. new \in S
          BY <2>2, <3>2, NodeFact
        <4> QED BY <3>2, <4>1
      <3>3. CASE c # new /\ parent[c] # o
        <4>1. c \in Allocated /\ c \in Obj /\ c # o
          BY <2>2, <3>3, NodeFact
        <4>2. parent[c] \in S
          BY <2>2, <3>3, <4>1
        <4>3. parent[c] # new
          BY <2>1, <4>1 DEF IInv, Known, Node
        <4> QED BY <3>3, <4>2, <4>3
      <3> QED BY <3>1, <3>2, <3>3
    <2>5. \A d \in T : parent[d] \in T
      BY <2>4
    <2> HIDE DEF T
    <2> QED BY <1>0, <2>3, <2>5 DEF NoCycle
  <1>4. CASE UNCHANGED parent /\ Allocated' = Allocated
    BY <1>0, <1>4 DEF NoCycle
  <1>5. ASSUME NEW o \in Allocated, Starts(o)
        PROVE  Allocated' = Allocated /\ UNCHANGED parent
    BY <1>0, <1>5 DEF Starts, Unlink, Allocated, TypeOK
  <1>6. ASSUME FreeChild
        PROVE  Allocated' = Allocated /\ UNCHANGED parent
    <2>1. stack # <<>> /\ kids[Top.obj] # <<>> /\ Top.obj \in Obj
      BY <1>0, <1>6, TopFact DEF FreeChild
    <2>2. kids[Top.obj] \in Seq(Obj) /\ IsInjective(kids[Top.obj]) /\ ToSet(kids[Top.obj]) \subseteq Obj
      BY <2>1, PropsFact
    <2>3. Head(kids[Top.obj]) \in ToSet(kids[Top.obj])
      BY <2>1, <2>2, TailFacts
    <2>4. Head(kids[Top.obj]) \in Allocated
      BY <1>0, <2>1, <2>2, <2>3 DEF Lists, Allocated
    <2>5. state' = [state EXCEPT ![Head(kids[Top.obj])] = "dying"] /\ UNCHANGED parent
      BY <1>6 DEF FreeChild
    <2> QED BY <1>0, <2>4, <2>5 DEF Allocated, TypeOK
  <1>7. CASE FreeSelf
    <2> DEFINE o == Top.obj
    <2>1. stack # <<>> /\ o \in Obj
      BY <1>0, <1>7, TopFact DEF FreeSelf
    <2>2. state' = [state EXCEPT ![o] = "freed"] /\ parent' = [parent EXCEPT ![o] = Root]
      BY <1>7 DEF FreeSelf
    <2> HIDE DEF o
    <2>3. Allocated' = Allocated \ {o} /\ \A q \in Obj : q # o => parent'[q] = parent[q]
      BY <1>0, <2>1, <2>2 DEF Allocated, TypeOK
    <2>4. S \in SUBSET Allocated /\ \A c \in S : parent[c] \in S
      BY <2>3, NodeFact
    <2> QED BY <1>0, <2>4 DEF NoCycle
  <1> QED BY <1>0, <1>1, <1>2, <1>3, <1>4, <1>5, <1>6, <1>7
          DEF StepCases, TalAddDestructor, TalDelNotifier, TalAddNotifier, Tells,
              Resumes,
              Notify, tree, Allocated

\* Known is preserved.
LEMMA KnownStep ==
  ASSUME IInv, Next
  PROVE  Known'
  <1>0. TypeOK /\ Known /\ Root \notin Obj /\ StepCases
    BY Consts, NextCases DEF IInv
  <1>1. ASSUME NEW ctx \in Node, TalAlloc(ctx)
        PROVE  Known'
    <2>1. /\ NewObj \in Obj /\ NewObj \notin Node /\ ctx \in Obj \cup {Root}
      BY <1>1, NewObjFact, NodeFact DEF TalAlloc
    <2>2. /\ Allocated' = Allocated \cup {NewObj} /\ parent'[NewObj] = ctx
          /\ state'[NewObj] = "live"
          /\ \A q \in Obj : q # NewObj => parent'[q] = parent[q] /\ state'[q] = state[q]
      BY <1>0, <1>1, <2>1 DEF TalAlloc, Allocated, TypeOK
    <2> QED BY <1>0, <2>1, <2>2, NodeFact DEF Known, Node, Allocated, TypeOK
  <1>2. ASSUME NEW ctx \in Node, NEW o \in Allocated, StealTo(ctx, o)
        PROVE  Known'
    <2>1. \A q \in Obj : parent'[q] = IF q = o THEN ctx ELSE parent[q]
      BY <1>0, <1>2 DEF StealTo, TypeOK
    <2>2. UNCHANGED state
      BY <1>2 DEF StealTo
    <2> QED BY <1>0, <2>1, <2>2, NodeFact DEF Known, Node, Allocated
  <1>3. ASSUME NEW o \in Allocated, TalResize(o)
        PROVE  Known'
    <2>1. /\ NewObj \in Obj /\ NewObj \notin Node /\ o # NewObj /\ o \in Obj
      BY <1>3, NewObjFact, NodeFact DEF TalResize
    <2>2. /\ state'[NewObj] = "live" /\ state'[o] = "freed"
          /\ \A q \in Obj \ {NewObj, o} : state'[q] = state[q]
          /\ parent'[NewObj] = parent[o]
          /\ \A q \in Obj \ {NewObj, o} : parent'[q] = IF parent[q] = o THEN NewObj ELSE parent[q]
      BY <1>0, <1>3, <2>1 DEF TalResize, TypeOK
    <2>3. Allocated' = (Allocated \ {o}) \cup {NewObj}
      BY <2>1, <2>2 DEF Allocated
    <2>4. \A c \in Allocated : parent[c] \in Obj \cup {Root}
      BY <1>0, NodeFact DEF TypeOK
    <2>5. ASSUME NEW c \in Allocated', parent'[c] # Root
          PROVE  state'[parent'[c]] # "fresh"
      <3>1. CASE c = NewObj
        BY <1>0, <2>1, <2>2, <2>4, <2>5, <3>1 DEF Known
      <3>2. CASE c # NewObj
        BY <1>0, <2>1, <2>2, <2>3, <2>4, <2>5, <3>2, NodeFact DEF Known
      <3> QED BY <3>1, <3>2
    <2> QED BY <2>5 DEF Known
  <1>4. CASE /\ \A q \in Obj : q \in Allocated' => q \in Allocated /\ parent'[q] = parent[q]
             /\ \A q \in Obj : state[q] # "fresh" => state'[q] # "fresh"
    <2>1. \A c \in Allocated : parent[c] \in Obj \cup {Root}
      BY <1>0, NodeFact DEF TypeOK
    <2>2. Allocated' \subseteq Obj
      BY DEF Allocated
    <2> QED BY <1>0, <1>4, <2>1, <2>2 DEF Known
  <1>5. ASSUME NEW o \in Allocated, Starts(o)
        PROVE  /\ \A q \in Obj : q \in Allocated' => q \in Allocated /\ parent'[q] = parent[q]
               /\ \A q \in Obj : state[q] # "fresh" => state'[q] # "fresh"
    BY <1>0, <1>5 DEF Starts, Unlink, Allocated, TypeOK
  <1>6. ASSUME FreeChild
        PROVE  /\ \A q \in Obj : q \in Allocated' => q \in Allocated /\ parent'[q] = parent[q]
               /\ \A q \in Obj : state[q] # "fresh" => state'[q] # "fresh"
    <2>1. PICK c \in Allocated : state' = [state EXCEPT ![c] = "dying"]
      BY <1>6, ChildFact
    <2>2. UNCHANGED parent
      BY <1>6 DEF FreeChild
    <2> QED BY <1>0, <2>1, <2>2 DEF Allocated, TypeOK
  <1>7. ASSUME FreeSelf
        PROVE  /\ \A q \in Obj : q \in Allocated' => q \in Allocated /\ parent'[q] = parent[q]
               /\ \A q \in Obj : state[q] # "fresh" => state'[q] # "fresh"
    <2> DEFINE o == Top.obj
    <2>1. state' = [state EXCEPT ![o] = "freed"] /\ parent' = [parent EXCEPT ![o] = Root]
      BY <1>7 DEF FreeSelf
    <2> HIDE DEF o
    <2> QED BY <1>0, <2>1 DEF Allocated, TypeOK
  <1>8. CASE UNCHANGED <<state, parent>>
    BY <1>0, <1>8 DEF Known, Allocated
  <1> QED BY <1>0, <1>1, <1>2, <1>3, <1>4, <1>5, <1>6, <1>7, <1>8
          DEF StepCases, TalAddDestructor, TalDelNotifier, TalAddNotifier, Tells,
              Resumes,
              Notify, tree

-----------------------------------------------------------------------------
(* Notifiers *)

\* A notifier that is added.
LEMMA OwnedAdd ==
  ASSUME IInv, NEW o \in Node, NEW n \in Prop, notif[n].status = "fresh",
         props'[o] = <<n>> \o props[o], notif'[n].status = "set",
         \A p \in Obj \cup {Root} : p # o => props'[p] = props[p],
         \A m \in Prop : m # n => notif'[m] = notif[m], UNCHANGED state
  PROVE  Owned'
  <1> DEFINE Q == Obj \cup {Root}
  <1>1. \A p \in Q : /\ props[p] \in Seq(Prop) /\ IsInjective(props[p])
                     /\ \A m \in ToSet(props[p]) : m \in Prop /\ notif[m].status = "set"
                     /\ \A q \in Q : p # q => ToSet(props[p]) \cap ToSet(props[q]) = {}
    BY OwnedFact
  <1>2. o \in Q /\ n \notin ToSet(props[o])
    BY <1>1, NodeFact
  <1>3. ToSet(props'[o]) = ToSet(props[o]) \cup {n} /\ IsInjective(props'[o])
    BY <1>1, <1>2, ConsFacts
  <1>4. \A p \in Q : IsInjective(props'[p])
    <2> TAKE p \in Q
    <2>1. CASE p = o
      BY <1>3, <2>1
    <2>2. CASE p # o
      BY <1>1, <2>2
    <2> QED BY <2>1, <2>2
  <1>5. \A p \in Q : n \notin ToSet(props[p])
    BY <1>1
  <1>6. \A p \in Q : \A m \in ToSet(props'[p]) : notif'[m].status = "set"
    <2> TAKE p \in Q
    <2>1. CASE p = o
      <3>1. \A m \in ToSet(props[o]) : m # n /\ m \in Prop /\ notif[m].status = "set"
        BY <1>1, <1>2
      <3>2. \A m \in ToSet(props[o]) : notif'[m].status = "set"
        BY <3>1
      <3> QED BY <1>3, <2>1, <3>2
    <2>2. CASE p # o
      <3>1. \A m \in ToSet(props[p]) : m # n /\ m \in Prop /\ notif[m].status = "set"
        BY <1>1, <1>5
      <3>2. \A m \in ToSet(props[p]) : notif'[m] = notif[m]
        BY <3>1
      <3>3. props'[p] = props[p]
        BY <2>2
      <3> QED BY <3>1, <3>2, <3>3
    <2> QED BY <2>1, <2>2
  <1>7. \A p \in Q : \A q \in Q : p # q => ToSet(props'[p]) \cap ToSet(props'[q]) = {}
    <2> TAKE p \in Q
    <2> TAKE q \in Q
    <2> SUFFICES ASSUME p # q PROVE ToSet(props'[p]) \cap ToSet(props'[q]) = {}
      OBVIOUS
    <2>1. CASE p = o
      BY <1>1, <1>3, <1>5, <2>1
    <2>2. CASE q = o
      BY <1>1, <1>3, <1>5, <2>2
    <2>3. CASE p # o /\ q # o
      BY <1>1, <2>3
    <2> QED BY <2>1, <2>2, <2>3
  <1>8. \A p \in Obj \ Allocated : props'[p] = <<>>
    BY Consts DEF IInv, Owned, Node
  <1> QED BY <1>4, <1>6, <1>7, <1>8 DEF Owned, Allocated

\* Owned is preserved.
LEMMA OwnedStep ==
  ASSUME IInv, Next
  PROVE  Owned'
  <1>0. TypeOK /\ Owned /\ Root \notin Obj /\ StepCases
    BY Consts, NextCases DEF IInv
  <1> DEFINE Q == Obj \cup {Root}
  <1>o. \A p \in Q : /\ props[p] \in Seq(Prop) /\ IsInjective(props[p])
                     /\ \A m \in ToSet(props[p]) : m \in Prop /\ notif[m].status = "set"
                     /\ \A q \in Q : p # q => ToSet(props[p]) \cap ToSet(props[q]) = {}
    BY OwnedFact
  <1>1. ASSUME UNCHANGED <<props, notif>>, Allocated \subseteq Allocated'
        PROVE  Owned'
    BY <1>0, <1>1 DEF Owned
  <1>2. ASSUME NEW ctx \in Node, TalAlloc(ctx)
        PROVE  UNCHANGED <<props, notif>> /\ Allocated \subseteq Allocated'
    BY <1>0, <1>2 DEF TalAlloc, Allocated, TypeOK
  <1>3. ASSUME NEW o \in Allocated, Starts(o)
        PROVE  UNCHANGED <<props, notif>> /\ Allocated \subseteq Allocated'
    BY <1>0, <1>3 DEF Starts, Unlink, Allocated, TypeOK
  <1>4. ASSUME FreeChild
        PROVE  UNCHANGED <<props, notif>> /\ Allocated \subseteq Allocated'
    BY <1>0, <1>4 DEF FreeChild, Allocated, TypeOK
  <1>5. ASSUME NEW o \in Allocated, TalResize(o)
        PROVE  Owned'
    <2> DEFINE new == NewObj
    <2>1. new \in Obj /\ new \notin Node /\ o \in Obj /\ o # new
      BY <1>5, NewObjFact, NodeFact DEF TalResize
    <2>2. /\ props' = [props EXCEPT ![new] = props[o], ![o] = <<>>]
          /\ state' = [state EXCEPT ![o] = "freed", ![new] = "live"] /\ UNCHANGED notif
      BY <1>5 DEF TalResize
    <2> HIDE DEF new
    <2>3. /\ props'[new] = props[o] /\ props'[o] = <<>>
          /\ \A p \in Q \ {new, o} : props'[p] = props[p]
      BY <1>0, <2>1, <2>2 DEF TypeOK
    <2>4. Allocated' = (Allocated \ {o}) \cup {new}
      BY <1>0, <2>1, <2>2 DEF Allocated, TypeOK
    <2>5. props[new] = <<>> /\ ToSet(props'[o]) = {} /\ IsInjective(props'[o])
      BY <1>0, <2>1, <2>3, EmptySet DEF Owned, Node
    <2>6. \A p \in Q : IsInjective(props'[p]) /\ \A n \in ToSet(props'[p]) : notif'[n].status = "set"
      BY <1>o, <2>1, <2>2, <2>3, <2>5
    <2>7. \A p \in Q : \A q \in Q : p # q => ToSet(props'[p]) \cap ToSet(props'[q]) = {}
      <3> TAKE p \in Q
      <3> TAKE q \in Q
      <3> SUFFICES ASSUME p # q, p # o, q # o PROVE ToSet(props'[p]) \cap ToSet(props'[q]) = {}
        BY <2>5
      <3>1. CASE p = new
        BY <1>o, <2>1, <2>3, <3>1
      <3>2. CASE q = new
        BY <1>o, <2>1, <2>3, <3>2
      <3>3. CASE p # new /\ q # new
        BY <1>o, <2>3, <3>3
      <3> QED BY <3>1, <3>2, <3>3
    <2>8. \A p \in Obj \ Allocated' : props'[p] = <<>>
      BY <1>0, <2>3, <2>4 DEF Owned
    <2> QED BY <2>6, <2>7, <2>8 DEF Owned
  <1>6. ASSUME NEW o \in Node, NEW fn \in Fn, TalAddDestructor(o, fn)
        PROVE  Owned'
    <2>1. {"free"} \in Kinds /\ TRUE \in BOOLEAN
      BY DEF Kinds
    <2>2. /\ \E n \in Prop : notif[n].status = "fresh"
          /\ Add(o, NewProp, {"free"}, TRUE, fn) /\ UNCHANGED state
      BY <1>6 DEF TalAddDestructor
    <2>3. /\ NewProp \in Prop /\ notif[NewProp].status = "fresh"
          /\ props'[o] = <<NewProp>> \o props[o] /\ notif'[NewProp].status = "set"
          /\ \A p \in Obj \cup {Root} : p # o => props'[p] = props[p]
          /\ \A n \in Prop : n # NewProp => notif'[n] = notif[n]
      BY <2>1, <2>2, AddFact
    <2> QED BY <2>2, <2>3, OwnedAdd
  <1>7. ASSUME NEW o \in Node, NEW fn \in Fn, NEW types \in Kinds, TalAddNotifier(o, fn, types)
        PROVE  Owned'
    <2>1. FALSE \in BOOLEAN
      OBVIOUS
    <2>2. /\ \E n \in Prop : notif[n].status = "fresh"
          /\ Add(o, NewProp, types, FALSE, fn) /\ UNCHANGED state
      BY <1>7 DEF TalAddNotifier
    <2>3. /\ NewProp \in Prop /\ notif[NewProp].status = "fresh"
          /\ props'[o] = <<NewProp>> \o props[o] /\ notif'[NewProp].status = "set"
          /\ \A p \in Obj \cup {Root} : p # o => props'[p] = props[p]
          /\ \A n \in Prop : n # NewProp => notif'[n] = notif[n]
      BY <2>1, <2>2, AddFact
    <2> QED BY <2>2, <2>3, OwnedAdd
  <1>8. ASSUME NEW o \in Node, NEW fn \in Fn, TalDelNotifier(o, fn)
        PROVE  Owned'
    <2>1. PICK i \in 1 .. Len(props[o]) : DelAt(o, i)
      BY <1>8, DelFact
    <2> DEFINE n == props[o][i]
    <2>2. /\ o \in Q /\ n \in ToSet(props[o]) /\ n \in Prop /\ UNCHANGED state
          /\ props'[o] = RemoveAt(props[o], i) /\ \A p \in Q : p # o => props'[p] = props[p]
          /\ \A m \in Prop : m # n => notif'[m] = notif[m]
      BY <2>1, NodeFact DEF DelAt
    <2> HIDE DEF n
    <2>3. IsInjective(props'[o]) /\ ToSet(props'[o]) = ToSet(props[o]) \ {n}
      BY <1>o, <2>2, RemoveAtFacts DEF n
    <2>4. \A p \in Q : IsInjective(props'[p]) /\ ToSet(props'[p]) = ToSet(props[p]) \ {n}
      BY <1>o, <2>2, <2>3
    <2>5. \A p \in Q : \A m \in ToSet(props'[p]) : notif'[m].status = "set"
      BY <1>o, <2>2, <2>4
    <2>6. \A p \in Q : \A q \in Q : p # q => ToSet(props'[p]) \cap ToSet(props'[q]) = {}
      BY <1>o, <2>4
    <2>7. \A p \in Obj \ Allocated : props'[p] = <<>>
      BY <1>0, <2>2, Consts DEF Owned, Node
    <2> QED BY <2>2, <2>4, <2>5, <2>6, <2>7 DEF Owned, Allocated
  <1>9. CASE Notify
    <2>1. UNCHANGED <<state, props>> /\ \A m \in Prop : notif'[m].status = notif[m].status
      BY <1>9, CallFact DEF Notify
    <2> QED BY <1>0, <1>o, <2>1 DEF Owned, Allocated
  <1>10. CASE FreeSelf
    <2> DEFINE o == Top.obj
    <2>1. o \in Obj
      BY <1>0, <1>10, TopFact DEF FreeSelf
    <2>2. /\ state' = [state EXCEPT ![o] = "freed"] /\ props' = [props EXCEPT ![o] = <<>>]
          /\ \A m \in Prop : m \notin ToSet(props[o]) => notif'[m] = notif[m]
      BY <1>10 DEF FreeSelf
    <2> HIDE DEF o
    <2>3. props'[o] = <<>> /\ \A p \in Q : p # o => props'[p] = props[p]
      BY <1>0, <2>1, <2>2 DEF TypeOK
    <2>4. Allocated' = Allocated \ {o}
      BY <1>0, <2>1, <2>2 DEF Allocated, TypeOK
    <2>5. \A p \in Q : IsInjective(props'[p])
      BY <1>o, <2>3, EmptySet
    <2>6. \A p \in Q : \A m \in ToSet(props'[p]) : notif'[m].status = "set"
      <3> TAKE p \in Q
      <3>1. CASE p = o
        BY <2>3, <3>1, EmptySet
      <3>2. CASE p # o
        BY <1>o, <2>1, <2>2, <2>3, <3>2
      <3> QED BY <3>1, <3>2
    <2>7. \A p \in Q : \A q \in Q : p # q => ToSet(props'[p]) \cap ToSet(props'[q]) = {}
      BY <1>o, <2>3, EmptySet
    <2>8. \A p \in Obj \ Allocated' : props'[p] = <<>>
      BY <1>0, <2>3, <2>4 DEF Owned
    <2> QED BY <2>5, <2>6, <2>7, <2>8 DEF Owned
  <1>11. CASE UNCHANGED <<state, props, notif>>
    BY <1>0, <1>11 DEF Owned, Allocated
  <1> QED BY <1>0, <1>1, <1>2, <1>3, <1>4, <1>5, <1>6, <1>7, <1>8, <1>9, <1>10, <1>11
          DEF StepCases, StealTo, Tells, Resumes, tree

-----------------------------------------------------------------------------
(* The del_trees under way *)

\* The application does not run between two callbacks, or after a frame went
\* wild.
LEMMA NotBetween ==
  ASSUME IInv, AppRuns, NEW i \in DOMAIN stack
  PROVE  stack[i].phase \notin {"notify", "wild"}
  <1>1. stack # <<>>
    BY DEF IInv, TypeOK
  <1>2. stack[1].phase \in {"call", "told"}
    BY <1>1 DEF AppRuns, Top
  <1> QED BY <1>2, FrameFact

\* What no step changes of a notifier that was added once.
NotifKeep ==
  \A m \in Prop : notif[m].status # "fresh" =>
    /\ notif'[m].status # "fresh" /\ notif'[m].destructor = notif[m].destructor
    /\ notif[m].status = "deleted" => notif'[m].status = "deleted"
    /\ notif[m].destructor /\ notif[m].fn = NoFn => notif'[m].fn = NoFn

\* The del_tree of a frame has what it goes on with, or its notifier was
\* deleted in its callback.
Carry(i) ==
  Destroys(stack[i]) =>
    /\ state'[stack[i].obj] = "dying"
    /\ stack[i].at \in ToSet(props[stack[i].obj]) =>
         \/ stack[i].at \in ToSet(props'[stack[i].obj])
         \/ /\ stack[i].phase = "call" /\ notif'[stack[i].at].status = "deleted"
            /\ ~notif[stack[i].at].destructor

\* A frame that is left where it is, or moves with the stack.
LEMMA SoundOld ==
  ASSUME IInv, NotifKeep, NEW i \in DOMAIN stack, NEW j, stack'[j] = stack[i], Carry(i)
  PROVE  Sound(stack[j])'
  <1> DEFINE f == stack[i]
             n == stack[i].at
  <1>1. Sound(f) /\ n \in Prop \cup {NoProp}
    BY FrameFact
  <1>2. n # NoProp => /\ notif[n].status # "fresh" /\ n \in Prop
                      /\ notif[n].destructor => notif[n].fn = NoFn
    BY <1>1 DEF Sound
  <1>3. n # NoProp => /\ notif'[n].status # "fresh" /\ notif'[n].destructor = notif[n].destructor
                      /\ notif[n].status = "deleted" => notif'[n].status = "deleted"
                      /\ notif'[n].destructor => notif'[n].fn = NoFn
    BY <1>2 DEF NotifKeep
  <1>4. f.phase \in {"told", "wild", "call"} => n # NoProp
    BY <1>1 DEF Sound
  <1>5. f.phase = "children" => n = NoProp
    BY <1>1 DEF Sound
  <1>6. f.phase \in {"told", "wild"} => ~notif'[n].destructor
    BY <1>1, <1>3, <1>4 DEF Sound
  <1>7. ASSUME Destroys(f)
        PROVE  /\ state'[f.obj] = "dying"
               /\ n \notin ToSet(props'[f.obj]) \cup {NoProp} =>
                    f.phase = "call" /\ notif'[n].status = "deleted" /\ ~notif'[n].destructor
    <2>1. state'[f.obj] = "dying"
      BY <1>7 DEF Carry
    <2>2. ASSUME n \notin ToSet(props'[f.obj]) \cup {NoProp}
          PROVE  f.phase = "call" /\ notif'[n].status = "deleted" /\ ~notif'[n].destructor
      <3>1. CASE n \in ToSet(props[f.obj])
        BY <1>3, <1>7, <2>2, <3>1 DEF Carry
      <3>2. CASE n \notin ToSet(props[f.obj])
        BY <1>1, <1>3, <1>7, <2>2, <3>2 DEF Sound
      <3> QED BY <3>1, <3>2
    <2> QED BY <2>1, <2>2
  <1> HIDE DEF f, n
  <1>8. stack'[j] = f /\ stack'[j].at = n
    BY DEF f, n
  <1> QED BY <1>3, <1>4, <1>5, <1>6, <1>7, <1>8 DEF Sound, Destroys

\* Calls that leave the stack alone.
LEMMA FramesKeep ==
  ASSUME IInv, NotifKeep, UNCHANGED stack, \A i \in DOMAIN stack : Carry(i)
  PROVE  Frames'
  <1>1. \A i \in DOMAIN stack : Sound(stack[i])'
    BY SoundOld
  <1>2. \A i, j \in DOMAIN stack :
          i # j /\ Destroys(stack[i]) /\ Destroys(stack[j]) => stack[i].obj # stack[j].obj
    BY FrameFact
  <1>3. \A i \in DOMAIN stack : stack[i].phase \in {"notify", "wild"} => i = 1
    BY FrameFact
  <1> QED BY <1>1, <1>2, <1>3 DEF Frames, Destroys

\* A frame that is new, above the others.
LEMMA FramesPush ==
  ASSUME IInv, NotifKeep, NEW f \in Frame, stack' = <<f>> \o stack,
         \A i \in DOMAIN stack :
           /\ Carry(i) /\ stack[i].phase \notin {"notify", "wild"}
           /\ Destroys(f) /\ Destroys(stack[i]) => stack[i].obj # f.obj,
         Sound(stack[1])'
  PROVE  Frames'
  <1>1. stack \in Seq(Frame)
    BY DEF IInv, TypeOK, Frame
  <1>2. /\ stack' \in Seq(Frame) /\ Len(stack') = Len(stack) + 1 /\ stack'[1] = f
        /\ \A i \in 1 .. Len(stack) : stack'[i + 1] = stack[i]
    BY <1>1, ConsFacts
  <1>3. ASSUME NEW i \in DOMAIN stack', i # 1
        PROVE  i \in Nat /\ i - 1 \in DOMAIN stack /\ stack'[i] = stack[i - 1]
    <2>1. i - 1 \in 1 .. Len(stack) /\ DOMAIN stack = 1 .. Len(stack) /\ i \in Nat
      BY <1>1, <1>2, <1>3
    <2>2. stack'[(i - 1) + 1] = stack[i - 1] /\ (i - 1) + 1 = i
      BY <1>2, <2>1
    <2> QED BY <2>1, <2>2
  <1>4. \A i \in DOMAIN stack' : Sound(stack[i])'
    <2> TAKE i \in DOMAIN stack'
    <2>1. CASE i # 1
      <3> DEFINE k == i - 1
      <3>1. k \in DOMAIN stack /\ stack'[i] = stack[k]
        BY <1>3, <2>1
      <3> HIDE DEF k
      <3> QED BY <3>1, SoundOld
    <2> QED BY <2>1
  <1>5. ASSUME NEW i \in DOMAIN stack', NEW j \in DOMAIN stack', i # j,
               Destroys(stack'[i]), Destroys(stack'[j])
        PROVE  stack'[i].obj # stack'[j].obj
    <2>1. CASE i = 1
      BY <1>2, <1>3, <1>5, <2>1
    <2>2. CASE j = 1
      BY <1>2, <1>3, <1>5, <2>2
    <2>3. CASE i # 1 /\ j # 1
      <3> DEFINE k == i - 1
                 l == j - 1
      <3>1. k \in DOMAIN stack /\ l \in DOMAIN stack /\ stack'[i] = stack[k] /\ stack'[j] = stack[l]
        BY <1>3, <2>3
      <3>2. k # l
        BY <1>3, <1>5, <2>3
      <3> HIDE DEF k, l
      <3> QED BY <1>5, <3>1, <3>2, FrameFact
    <2> QED BY <2>1, <2>2, <2>3
  <1>6. \A i \in DOMAIN stack' : stack'[i].phase \in {"notify", "wild"} => i = 1
    BY <1>3
  <1> QED BY <1>4, <1>5, <1>6 DEF Frames, Destroys

\* A step of the innermost frame.
LEMMA FramesTop ==
  ASSUME IInv, NotifKeep, stack # <<>>, NEW f \in Frame, stack' = [stack EXCEPT ![1] = f],
         \A i \in DOMAIN stack : i # 1 =>
           /\ Carry(i)
           /\ Destroys(f) /\ Destroys(stack[i]) => stack[i].obj # f.obj,
         Sound(stack[1])'
  PROVE  Frames'
  <1>1. /\ DOMAIN stack' = DOMAIN stack /\ stack'[1] = f /\ 1 \in DOMAIN stack
        /\ \A i \in DOMAIN stack : i # 1 => stack'[i] = stack[i]
    BY TopFact DEF IInv
  <1>2. \A i \in DOMAIN stack' : Sound(stack[i])'
    BY <1>1, SoundOld
  <1>3. ASSUME NEW i \in DOMAIN stack', NEW j \in DOMAIN stack', i # j,
               Destroys(stack'[i]), Destroys(stack'[j])
        PROVE  stack'[i].obj # stack'[j].obj
    <2>1. CASE i = 1
      BY <1>1, <1>3, <2>1
    <2>2. CASE j = 1
      BY <1>1, <1>3, <2>2
    <2>3. CASE i # 1 /\ j # 1
      BY <1>1, <1>3, <2>3, FrameFact
    <2> QED BY <2>1, <2>2, <2>3
  <1>4. \A i \in DOMAIN stack' : stack'[i].phase \in {"notify", "wild"} => i = 1
    BY <1>1, FrameFact
  <1> QED BY <1>2, <1>3, <1>4 DEF Frames, Destroys

\* The frames below the innermost.
LEMMA TailFrames ==
  ASSUME IInv, stack # <<>>
  PROVE  /\ DOMAIN Tail(stack) \subseteq Nat
         /\ \A i \in DOMAIN Tail(stack) :
              /\ i + 1 \in DOMAIN stack /\ i + 1 # 1 /\ Tail(stack)[i] = stack[i + 1]
              /\ Destroys(Top) /\ Destroys(stack[i + 1]) => stack[i + 1].obj # Top.obj
  <1>1. stack \in Seq(Frame)
    BY DEF IInv, TypeOK, Frame
  <1>2. 1 \in DOMAIN stack /\ Top = stack[1]
    BY TopFact DEF IInv
  <1>3. /\ DOMAIN Tail(stack) \subseteq Nat
        /\ \A i \in DOMAIN Tail(stack) :
             i + 1 \in DOMAIN stack /\ i + 1 # 1 /\ Tail(stack)[i] = stack[i + 1]
    BY <1>1
  <1> QED BY <1>2, <1>3, FrameFact

\* The innermost del_tree ends.
LEMMA FramesTail ==
  ASSUME IInv, NotifKeep, stack # <<>>, stack' = Tail(stack),
         \A i \in DOMAIN stack : i # 1 => Carry(i)
  PROVE  Frames'
  <1>1. /\ DOMAIN stack' \subseteq Nat
        /\ \A i \in DOMAIN stack' : i + 1 \in DOMAIN stack /\ i + 1 # 1 /\ stack'[i] = stack[i + 1]
    BY TailFrames
  <1>2. ASSUME NEW i \in DOMAIN stack'
        PROVE  Sound(stack[i])' /\ stack'[i].phase \notin {"notify", "wild"}
    <2> DEFINE k == i + 1
    <2>1. k \in DOMAIN stack /\ k # 1 /\ stack'[i] = stack[k]
      BY <1>1
    <2> HIDE DEF k
    <2>2. Sound(stack[i])'
      BY <2>1, SoundOld
    <2> QED BY <2>1, <2>2, FrameFact
  <1>3. ASSUME NEW i \in DOMAIN stack', NEW j \in DOMAIN stack', i # j,
               Destroys(stack'[i]), Destroys(stack'[j])
        PROVE  stack'[i].obj # stack'[j].obj
    <2> DEFINE k == i + 1
               l == j + 1
    <2>1. k \in DOMAIN stack /\ l \in DOMAIN stack /\ stack'[i] = stack[k] /\ stack'[j] = stack[l]
      BY <1>1
    <2>2. k # l
      BY <1>1, <1>3
    <2> HIDE DEF k, l
    <2> QED BY <1>3, <2>1, <2>2, FrameFact
  <1> QED BY <1>2, <1>3 DEF Frames, Destroys

\* What is deleted while it is called is no destructor: a destructor that is
\* called has been forgotten.
LEMMA DelSet ==
  ASSUME IInv, NEW o \in Node, NEW i \in 1 .. Len(props[o]), DelAt(o, i)
  PROVE  /\ o \in Obj \cup {Root} /\ props[o][i] \in Prop /\ props[o][i] \in ToSet(props[o])
         /\ IsInjective(props'[o])
         /\ \A p \in Obj \cup {Root} : ToSet(props'[p]) = ToSet(props[p]) \ {props[o][i]}
         /\ \A p \in Obj \cup {Root} : p # o => props'[p] = props[p]
         /\ \A j \in DOMAIN stack :
              stack[j].at = props[o][i] => ~notif[props[o][i]].destructor
         /\ \A m \in Prop : m # props[o][i] => notif'[m] = notif[m]
         /\ notif'[props[o][i]] = Deleted(notif[props[o][i]])
         /\ UNCHANGED <<state, stack>>
  <1> DEFINE Q == Obj \cup {Root}
             n == props[o][i]
  <1>o. \A p \in Q : /\ props[p] \in Seq(Prop) /\ IsInjective(props[p])
                     /\ \A q \in Q : p # q => ToSet(props[p]) \cap ToSet(props[q]) = {}
    BY OwnedFact
  <1>1. /\ o \in Q /\ n \in ToSet(props[o]) /\ n \in Prop /\ UNCHANGED <<state, stack>>
        /\ props'[o] = RemoveAt(props[o], i) /\ \A p \in Q : p # o => props'[p] = props[p]
        /\ \A m \in Prop : m # n => notif'[m] = notif[m]
        /\ notif'[n] = Deleted(notif[n])
        /\ notif[n].fn \in Fn
    BY NodeFact DEF DelAt
  <1> HIDE DEF n
  <1>2. IsInjective(props'[o]) /\ ToSet(props'[o]) = ToSet(props[o]) \ {n}
    BY <1>o, <1>1, RemoveAtFacts DEF n
  <1>3. \A p \in Q : ToSet(props'[p]) = ToSet(props[p]) \ {n}
    BY <1>o, <1>1, <1>2
  <1>4. ASSUME NEW j \in DOMAIN stack, stack[j].at = n, notif[n].destructor
        PROVE  FALSE
    <2>1. n # NoProp
      BY <1>1, Consts
    <2>2. notif[n].fn = NoFn
      BY <1>4, <2>1, FrameFact DEF Sound
    <2> QED BY <1>1, <2>2, Consts
  <1> QED BY <1>1, <1>2, <1>3, <1>4 DEF n

\* The end of del_tree touches only the notifiers of its own object.
LEMMA FreeSelfFact ==
  ASSUME IInv, FreeSelf
  PROVE  /\ Top.obj \in Obj /\ state'[Top.obj] = "freed" /\ props'[Top.obj] = <<>>
         /\ \A p \in Obj \cup {Root} : p # Top.obj =>
              /\ props'[p] = props[p]
              /\ \A n \in ToSet(props[p]) : notif'[n] = notif[n]
         /\ \A p \in Obj : p # Top.obj => state'[p] = state[p]
         /\ \A n \in Prop : n \notin ToSet(props[Top.obj]) => notif'[n] = notif[n]
         /\ \A n \in ToSet(props[Top.obj]) :
              /\ n \in Prop /\ notif'[n].status = "freed" /\ notif'[n].ran = notif[n].ran
              /\ notif'[n].types = notif[n].types /\ notif'[n].late = notif[n].late
  <1> DEFINE o == Top.obj
  <1>0. o \in Obj /\ stack # <<>>
    BY TopFact DEF FreeSelf, IInv
  <1>1. /\ state' = [state EXCEPT ![o] = "freed"] /\ props' = [props EXCEPT ![o] = <<>>]
        /\ notif' = [n \in Prop |->
             IF n \in ToSet(props[o])
             THEN [notif[n] EXCEPT !.status = "freed", !.fn = NoFn] ELSE notif[n]]
    BY DEF FreeSelf
  <1> HIDE DEF o
  <1>2. /\ state'[o] = "freed" /\ props'[o] = <<>>
        /\ \A p \in Obj \cup {Root} : p # o => props'[p] = props[p]
        /\ \A p \in Obj : p # o => state'[p] = state[p]
    BY <1>0, <1>1 DEF IInv, TypeOK
  <1>3. \A n \in Prop : n \notin ToSet(props[o]) => notif'[n] = notif[n]
    BY <1>1
  <1>4. \A p \in Obj \cup {Root} : p # o => \A n \in ToSet(props[p]) : notif'[n] = notif[n]
    BY <1>0, <1>3, OwnedFact
  <1>5. ASSUME NEW n \in ToSet(props[o])
        PROVE  /\ n \in Prop /\ notif'[n].status = "freed" /\ notif'[n].ran = notif[n].ran
               /\ notif'[n].types = notif[n].types /\ notif'[n].late = notif[n].late
    <2>1. n \in Prop
      BY <1>0, OwnedFact
    <2>2. notif'[n] = [notif[n] EXCEPT !.status = "freed", !.fn = NoFn]
      BY <1>1, <2>1
    <2>3. notif[n] \in Notifier
      BY <2>1 DEF IInv, TypeOK
    <2> QED BY <2>1, <2>2, <2>3 DEF Notifier
  <1> QED BY <1>0, <1>2, <1>3, <1>4, <1>5 DEF o

\* No step brings a notifier back.
LEMMA NotifSteps ==
  ASSUME IInv, Next
  PROVE  NotifKeep
  <1>0. TypeOK /\ StepCases
    BY NextCases DEF IInv
  <1>1. CASE UNCHANGED notif
    BY <1>1 DEF NotifKeep
  <1>2. ASSUME NEW o \in Node, NEW fn \in Fn, NEW types \in Kinds, NEW d \in BOOLEAN,
               \E n \in Prop : notif[n].status = "fresh", Add(o, NewProp, types, d, fn)
        PROVE  NotifKeep
    <2>1. notif[NewProp].status = "fresh" /\ \A m \in Prop : m # NewProp => notif'[m] = notif[m]
      BY <1>2, AddFact
    <2> QED BY <2>1 DEF NotifKeep
  <1>3. ASSUME NEW o \in Node, NEW fn \in Fn, TalAddDestructor(o, fn)
        PROVE  NotifKeep
    <2>1. {"free"} \in Kinds /\ TRUE \in BOOLEAN
      BY DEF Kinds
    <2>2. (\E n \in Prop : notif[n].status = "fresh") /\ Add(o, NewProp, {"free"}, TRUE, fn)
      BY <1>3 DEF TalAddDestructor
    <2> QED BY <1>2, <2>1, <2>2
  <1>4. ASSUME NEW o \in Node, NEW fn \in Fn, NEW types \in Kinds, TalAddNotifier(o, fn, types)
        PROVE  NotifKeep
    <2>1. (\E n \in Prop : notif[n].status = "fresh") /\ Add(o, NewProp, types, FALSE, fn)
      BY <1>4 DEF TalAddNotifier
    <2> QED BY <1>2, <2>1
  <1>5. ASSUME NEW o \in Node, NEW fn \in Fn, TalDelNotifier(o, fn)
        PROVE  NotifKeep
    <2>1. PICK i \in 1 .. Len(props[o]) : DelAt(o, i)
      BY <1>5, DelFact
    <2> DEFINE n == props[o][i]
    <2>2. n \in Prop /\ notif'[n] = Deleted(notif[n]) /\ \A m \in Prop : m # n => notif'[m] = notif[m]
      BY <2>1 DEF DelAt
    <2> HIDE DEF n
    <2>3. /\ notif'[n].status = "deleted" /\ notif'[n].destructor = notif[n].destructor
          /\ notif'[n].fn = NoFn
      BY <2>2 DEF Deleted, Unused
    <2> QED BY <2>2, <2>3 DEF NotifKeep
  <1>6. CASE Notify
    <2>1. CASE Interested(Rest(Top), "free") # {}
      <3> DEFINE n == Rest(Top)[Min(Interested(Rest(Top), "free"))]
      <3>1. CallOf(n)
        BY <1>6, <2>1, CallFact
      <3> HIDE DEF n
      <3> QED BY <3>1 DEF CallOf, NotifKeep
    <2>2. CASE Interested(Rest(Top), "free") = {}
      BY <1>1, <1>6, <2>2 DEF Notify
    <2> QED BY <2>1, <2>2
  <1>7. CASE FreeSelf
    <2> DEFINE s == ToSet(props[Top.obj])
    <2>1. /\ Top.obj \in Obj
          /\ notif' = [n \in Prop |->
             IF n \in s THEN [notif[n] EXCEPT !.status = "freed", !.fn = NoFn] ELSE notif[n]]
      BY <1>0, <1>7, TopFact DEF FreeSelf
    <2>2. \A n \in s : notif[n].status = "set"
      BY <2>1, OwnedFact
    <2> HIDE DEF s
    <2>3. \A n \in Prop : notif[n] \in Notifier
      BY <1>0 DEF TypeOK
    <2>4. ASSUME NEW m \in Prop, m \in s
          PROVE  /\ notif'[m].status = "freed" /\ notif'[m].destructor = notif[m].destructor
                 /\ notif'[m].fn = NoFn
      BY <2>1, <2>3, <2>4 DEF Notifier
    <2> QED BY <2>1, <2>2, <2>4 DEF NotifKeep
  <1> QED BY <1>0, <1>1, <1>3, <1>4, <1>5, <1>6, <1>7
          DEF StepCases, TalAlloc, StealTo, Starts, TalResize, Tells, Resumes, FreeChild

\* Frames is preserved.
LEMMA FramesStep ==
  ASSUME IInv, Next
  PROVE  Frames'
  <1>0. TypeOK /\ StepCases /\ NotifKeep
    BY NextCases, NotifSteps DEF IInv
  <1>d. \A i \in DOMAIN stack : stack[i].obj \in Obj /\ (Destroys(stack[i]) => state[stack[i].obj] = "dying")
    BY FrameFact
  <1>k. ASSUME NEW i \in DOMAIN stack,
               Destroys(stack[i]) => /\ state'[stack[i].obj] = state[stack[i].obj]
                                     /\ ToSet(props[stack[i].obj]) \subseteq ToSet(props'[stack[i].obj])
        PROVE  Carry(i)
    BY <1>d, <1>k DEF Carry
  <1>1. ASSUME NEW ctx \in Node, TalAlloc(ctx)
        PROVE  Frames'
    <2>1. NewObj \in Obj /\ state[NewObj] = "fresh"
      BY <1>1, NewObjFact DEF TalAlloc
    <2>2. UNCHANGED <<props, notif, stack>> /\ \A p \in Obj : p # NewObj => state'[p] = state[p]
      BY <1>0, <1>1, <2>1 DEF TalAlloc, TypeOK
    <2>3. \A i \in DOMAIN stack : Carry(i)
      BY <1>d, <1>k, <2>1, <2>2
    <2> QED BY <1>0, <2>2, <2>3, FramesKeep
  <1>2. ASSUME NEW o \in Allocated, TalResize(o)
        PROVE  Frames'
    <2> DEFINE new == NewObj
    <2>1. new \in Obj /\ state[new] = "fresh" /\ o \in Obj /\ state[o] = "live"
      BY <1>2, NewObjFact, NodeFact DEF TalResize
    <2>2. /\ props' = [props EXCEPT ![new] = props[o], ![o] = <<>>]
          /\ state' = [state EXCEPT ![o] = "freed", ![new] = "live"] /\ UNCHANGED <<notif, stack>>
      BY <1>2 DEF TalResize
    <2> HIDE DEF new
    <2>3. \A p \in Obj : p \notin {new, o} => state'[p] = state[p] /\ props'[p] = props[p]
      BY <1>0, <2>1, <2>2 DEF TypeOK
    <2>4. \A i \in DOMAIN stack : Destroys(stack[i]) => stack[i].obj \notin {new, o}
      BY <1>d, <2>1
    <2>5. \A i \in DOMAIN stack : Carry(i)
      BY <1>d, <1>k, <2>3, <2>4
    <2> QED BY <1>0, <2>2, <2>5, FramesKeep
  <1>3. ASSUME NEW o \in Node, NEW fn \in Fn, NEW types \in Kinds, NEW d \in BOOLEAN,
               \E n \in Prop : notif[n].status = "fresh", Add(o, NewProp, types, d, fn),
               UNCHANGED <<state, stack>>
        PROVE  Frames'
    <2> DEFINE n == NewProp
    <2>1. /\ n \in Prop /\ o \in Obj \cup {Root}
          /\ props'[o] = <<n>> \o props[o]
          /\ \A p \in Obj \cup {Root} : p # o => props'[p] = props[p]
      BY <1>3, AddFact
    <2> HIDE DEF n
    <2>2. ToSet(props'[o]) = ToSet(props[o]) \cup {n}
      BY <2>1, PropsFact, ConsFacts
    <2>3. \A p \in Obj : ToSet(props[p]) \subseteq ToSet(props'[p])
      BY <2>1, <2>2
    <2>4. \A i \in DOMAIN stack : Carry(i)
      BY <1>3, <1>d, <1>k, <2>3
    <2> QED BY <1>0, <1>3, <2>4, FramesKeep
  <1>4. ASSUME NEW o \in Node, NEW fn \in Fn, TalAddDestructor(o, fn)
        PROVE  Frames'
    <2>1. {"free"} \in Kinds /\ TRUE \in BOOLEAN
      BY DEF Kinds
    <2>2. /\ \E n \in Prop : notif[n].status = "fresh"
          /\ Add(o, NewProp, {"free"}, TRUE, fn) /\ UNCHANGED <<state, stack>>
      BY <1>4 DEF TalAddDestructor
    <2> QED BY <1>3, <2>1, <2>2
  <1>5. ASSUME NEW o \in Node, NEW fn \in Fn, NEW types \in Kinds, TalAddNotifier(o, fn, types)
        PROVE  Frames'
    <2>1. FALSE \in BOOLEAN
      OBVIOUS
    <2>2. /\ \E n \in Prop : notif[n].status = "fresh"
          /\ Add(o, NewProp, types, FALSE, fn) /\ UNCHANGED <<state, stack>>
      BY <1>5 DEF TalAddNotifier
    <2> QED BY <1>3, <2>1, <2>2
  <1>6. ASSUME NEW o \in Node, NEW fn \in Fn, TalDelNotifier(o, fn)
        PROVE  Frames'
    <2>1. PICK i \in 1 .. Len(props[o]) : DelAt(o, i)
      BY <1>6, DelFact
    <2> DEFINE n == props[o][i]
    <2>2. /\ \A p \in Obj \cup {Root} : ToSet(props'[p]) = ToSet(props[p]) \ {n}
          /\ \A j \in DOMAIN stack : stack[j].at = n => ~notif[n].destructor
          /\ notif'[n] = Deleted(notif[n])
          /\ UNCHANGED <<state, stack>> /\ n \in Prop
      BY <2>1, DelSet
    <2>3. AppRuns
      BY <1>6 DEF TalDelNotifier
    <2> HIDE DEF n
    <2>4. notif'[n].status = "deleted"
      BY <2>2 DEF Deleted, Unused
    <2>5. ASSUME NEW j \in DOMAIN stack
          PROVE  Carry(j)
      <3>1. CASE stack[j].at # n
        BY <1>d, <2>2, <3>1 DEF Carry
      <3>2. CASE stack[j].at = n
        <4>1. ~notif[n].destructor /\ n # NoProp
          BY <2>2, <3>2, Consts
        <4>2. stack[j].phase \notin {"notify", "wild", "children"}
          BY <2>3, <3>2, <4>1, NotBetween, FrameFact DEF Sound
        <4>3. Destroys(stack[j]) => stack[j].phase = "call"
          BY <4>2 DEF Destroys
        <4> QED BY <1>d, <2>2, <2>4, <3>2, <4>1, <4>3 DEF Carry
      <3> QED BY <3>1, <3>2
    <2> QED BY <1>0, <2>2, <2>5, FramesKeep
  <1>e. ASSUME NEW o \in Obj, state[o] = "live", state' = [state EXCEPT ![o] = "dying"],
               UNCHANGED <<props, notif>>,
               \/ stack' = Enter(o) /\ \A i \in DOMAIN stack : stack[i].phase \notin {"notify", "wild"}
               \/ stack # <<>> /\ stack' = [stack EXCEPT ![1] = NewFrame(o)]
        PROVE  Frames'
    <2> DEFINE f == NewFrame(o)
    <2>1. f \in Frame /\ f.obj = o /\ f.phase = "notify" /\ f.at = NoProp
      BY DEF NewFrame, Frame
    <2> HIDE DEF f
    <2>2. state'[o] = "dying" /\ \A p \in Obj : p # o => state'[p] = state[p]
      BY <1>0, <1>e DEF TypeOK
    <2>3. \A i \in DOMAIN stack : Destroys(stack[i]) => stack[i].obj # o
      BY <1>d, <1>e
    <2>4. \A i \in DOMAIN stack : Carry(i)
      BY <1>d, <1>e, <1>k, <2>2, <2>3
    <2>5. stack'[1] = f => Sound(stack[1])'
      BY <2>1, <2>2 DEF Sound, Destroys
    <2>6. CASE stack' = Enter(o) /\ \A i \in DOMAIN stack : stack[i].phase \notin {"notify", "wild"}
      <3>1. stack' = <<f>> \o stack /\ stack'[1] = f
        <4>1. stack' = <<f>> \o stack
          BY <2>6 DEF Enter, f
        <4>2. stack \in Seq(Frame)
          BY <1>0 DEF TypeOK, Frame
        <4> QED BY <2>1, <4>1, <4>2, ConsFacts
      <3> QED BY <1>0, <2>1, <2>3, <2>4, <2>5, <2>6, <3>1, FramesPush
    <2>7. CASE stack # <<>> /\ stack' = [stack EXCEPT ![1] = NewFrame(o)]
      <3>1. stack' = [stack EXCEPT ![1] = f] /\ stack'[1] = f
        BY <1>0, <2>1, <2>7, TopFact DEF f
      <3> QED BY <1>0, <2>1, <2>3, <2>4, <2>5, <2>7, <3>1, FramesTop
    <2> QED BY <1>e, <2>6, <2>7
  <1>7. ASSUME NEW o \in Allocated, Starts(o)
        PROVE  Frames'
    <2>1. AppRuns => \A i \in DOMAIN stack : stack[i].phase \notin {"notify", "wild"}
      BY NotBetween
    <2>2. o \in Obj
      BY NodeFact
    <2> QED BY <1>7, <1>e, <2>1, <2>2 DEF Starts, Unlink
  <1>8. CASE FreeChild
    <2>1. PICK c \in Allocated : /\ state[c] = "live" /\ c \in Obj /\ stack' = Enter(c)
                                 /\ state' = [state EXCEPT ![c] = "dying"]
      BY <1>8, ChildFact
    <2>2. stack[1].phase = "children" /\ stack # <<>> /\ UNCHANGED <<props, notif>>
      BY <1>8 DEF FreeChild, Top
    <2>3. \A i \in DOMAIN stack : stack[i].phase \notin {"notify", "wild"}
      BY <2>2, FrameFact
    <2> QED BY <1>e, <2>1, <2>2, <2>3
  <1>9. CASE Tells
    <2>1. PICK f \in Frame :
            /\ TellsOf(f)
            /\ \/ AppRuns /\ f.phase = "told" /\ stack' = <<f>> \o stack
               \/ stack # <<>> /\ stack' = [stack EXCEPT ![1] = f]
      BY <1>9 DEF Tells
    <2>2. UNCHANGED <<state, props, notif>>
      BY <1>9 DEF Tells
    <2>3. \A i \in DOMAIN stack : Carry(i)
      BY <1>k, <2>2
    <2>4. ~Destroys(f) /\ (stack'[1] = f => Sound(stack[1])')
      BY <2>1, <2>2 DEF TellsOf, Sound, Destroys
    <2>5. CASE AppRuns /\ stack' = <<f>> \o stack
      <3>1. stack'[1] = f
        <4>1. stack \in Seq(Frame)
          BY <1>0 DEF TypeOK, Frame
        <4> QED BY <2>5, <4>1, ConsFacts
      <3> QED BY <1>0, <2>3, <2>4, <2>5, <3>1, NotBetween, FramesPush
    <2>6. CASE stack # <<>> /\ stack' = [stack EXCEPT ![1] = f]
      <3>1. stack'[1] = f
        BY <1>0, <2>6, TopFact
      <3> QED BY <1>0, <2>3, <2>4, <2>6, <3>1, FramesTop
    <2> QED BY <2>1, <2>5, <2>6
  <1>t. ASSUME stack # <<>>, NEW f \in Frame, f.obj = stack[1].obj, Destroys(stack[1]), Destroys(f),
               stack' = [stack EXCEPT ![1] = f], UNCHANGED <<state, props>>,
               f.at # NoProp =>
                 /\ f.at \in ToSet(props[f.obj]) /\ notif'[f.at].status # "fresh"
                 /\ notif'[f.at].destructor => notif'[f.at].fn = NoFn,
               f.phase = "call" => f.at # NoProp,
               f.phase = "children" => f.at = NoProp
        PROVE  Frames'
    <2>1. stack'[1] = f /\ 1 \in DOMAIN stack
      BY <1>0, <1>t, TopFact
    <2>2. state[f.obj] = "dying" /\ \A i \in DOMAIN stack : i # 1 /\ Destroys(stack[i]) => stack[i].obj # f.obj
      BY <1>t, <2>1, FrameFact
    <2>3. \A i \in DOMAIN stack : Carry(i)
      BY <1>k, <1>t
    <2>4. Sound(stack[1])'
      BY <1>t, <2>1, <2>2 DEF Sound, Destroys
    <2> QED BY <1>0, <1>t, <2>2, <2>3, <2>4, FramesTop
  <1>10. CASE Resumes
    <2> DEFINE f == [stack[1] EXCEPT !.phase = "notify"]
    <2>1. stack # <<>> /\ stack[1] \in Frame /\ 1 \in DOMAIN stack /\ Top = stack[1]
      BY <1>0, <1>10, TopFact DEF Resumes
    <2>2. f \in Frame /\ f.obj = Top.obj /\ f.at = stack[1].at /\ f.phase = "notify"
      BY <2>1 DEF Frame
    <2>3. /\ stack' = [stack EXCEPT ![1] = f] /\ UNCHANGED <<state, props, notif>>
          /\ stack[1].phase = "call" /\ stack[1].at \in ToSet(props[Top.obj])
      BY <1>10, <2>1 DEF Resumes
    <2> HIDE DEF f
    <2>4. f.at # NoProp => /\ notif[f.at].status # "fresh"
                           /\ notif[f.at].destructor => notif[f.at].fn = NoFn
      BY <2>1, <2>2, FrameFact DEF Sound
    <2> QED BY <1>t, <2>1, <2>2, <2>3, <2>4 DEF Destroys
  <1>11. CASE Notify
    <2>0. /\ stack # <<>> /\ stack[1] \in Frame /\ Top = stack[1] /\ stack[1].phase = "notify"
          /\ UNCHANGED <<state, props>> /\ Top.obj \in Obj
      BY <1>0, <1>11, TopFact DEF Notify
    <2>1. CASE Interested(Rest(Top), "free") # {}
      <3> DEFINE n == Rest(Top)[Min(Interested(Rest(Top), "free"))]
                 f == [stack[1] EXCEPT !.phase = "call", !.at = n]
      <3>1. CallOf(n) /\ n \in ToSet(props[Top.obj])
        BY <1>11, <2>0, <2>1, CallFact, NotifyFact
      <3> HIDE DEF n
      <3>2. stack' = [stack EXCEPT ![1] = f] /\ n \in Prop /\ n # NoProp
        BY <3>1, Consts DEF CallOf
      <3>3. f \in Frame /\ f.obj = Top.obj /\ f.at = n /\ f.phase = "call"
        BY <2>0, <3>2 DEF Frame
      <3> HIDE DEF f
      <3>4. /\ notif'[n].destructor => notif'[n].fn = NoFn
            /\ notif'[n].status = notif[n].status
        BY <3>1 DEF CallOf
      <3>5. notif[n].status = "set"
        BY <2>0, <3>1, OwnedFact
      <3> QED BY <1>t, <2>0, <3>1, <3>2, <3>3, <3>4, <3>5 DEF Destroys
    <2>2. CASE Interested(Rest(Top), "free") = {}
      <3> DEFINE f == [stack[1] EXCEPT !.phase = "children", !.at = NoProp]
      <3>1. f \in Frame /\ f.obj = Top.obj /\ f.at = NoProp /\ f.phase = "children"
        BY <2>0 DEF Frame
      <3>2. stack' = [stack EXCEPT ![1] = f]
        BY <1>11, <2>2 DEF Notify
      <3> HIDE DEF f
      <3> QED BY <1>t, <2>0, <3>1, <3>2 DEF Destroys
    <2> QED BY <2>1, <2>2
  <1>12. CASE FreeSelf
    <2> DEFINE o == Top.obj
    <2>0. /\ stack # <<>> /\ o \in Obj /\ stack' = Tail(stack) /\ 1 \in DOMAIN stack
          /\ Destroys(stack[1]) /\ o = stack[1].obj
      BY <1>0, <1>12, TopFact DEF FreeSelf, Destroys
    <2>1. \A p \in Obj : p # o => state'[p] = state[p] /\ props'[p] = props[p]
      BY <1>12, FreeSelfFact
    <2> HIDE DEF o
    <2>2. \A i \in DOMAIN stack : i # 1 /\ Destroys(stack[i]) => stack[i].obj # o
      BY <2>0, FrameFact
    <2>3. \A i \in DOMAIN stack : i # 1 => Carry(i)
      BY <1>d, <1>k, <2>1, <2>2
    <2> QED BY <1>0, <2>0, <2>3, FramesTail
  <1>13. CASE UNCHANGED <<state, props, notif, stack>>
    BY <1>0, <1>13, <1>k, FramesKeep
  <1> QED BY <1>0, <1>1, <1>2, <1>4, <1>5, <1>6, <1>7, <1>8, <1>9, <1>10, <1>11,
             <1>12, <1>13
          DEF StepCases, StealTo

-----------------------------------------------------------------------------
(* Destructors *)

\* What notify has still to look at is part of the list.
LEMMA RestIn ==
  ASSUME IInv, NEW i \in DOMAIN stack, stack[i].at \in ToSet(props[stack[i].obj]) \cup {NoProp}
  PROVE  /\ stack[i].at = NoProp => Rest(stack[i]) = props[stack[i].obj]
         /\ ToSet(Rest(stack[i])) \subseteq ToSet(props[stack[i].obj])
  <1> DEFINE s == props[stack[i].obj]
             a == stack[i].at
             r == Rest(stack[i])
  <1>1. s \in Seq(Prop) /\ IsInjective(s) /\ NoProp \notin Prop /\ (a = NoProp \/ a \in ToSet(s))
    BY FrameFact, PropsFact, Consts
  <1>2. r = After(s, a)
    BY DEF Rest
  <1> HIDE DEF s, a, r
  <1>t. r \in Seq(Prop) /\ \E k \in 0 .. Len(s) : IsTail(r, s, k)
    BY <1>1, <1>2, AfterTail
  <1>3. PICK k \in 0 .. Len(s) :
          /\ r \in Seq(Prop) /\ Len(r) = Len(s) - k
          /\ \A j \in 1 .. Len(s) - k : r[j] = s[k + j]
    BY <1>t DEF IsTail
  <1>4. Len(s) \in Nat
    BY <1>1
  <1>5. \A j \in 1 .. Len(r) : k + j \in 1 .. Len(s) /\ r[j] = s[k + j]
    BY <1>3, <1>4
  <1>6. ToSet(r) \subseteq ToSet(s)
    <2> SUFFICES ASSUME NEW x \in ToSet(r) PROVE x \in ToSet(s)
      OBVIOUS
    <2>1. PICK j \in 1 .. Len(r) : r[j] = x
      BY ONLY <1>3, ToSetIs, x \in ToSet(r)
    <2>2. k + j \in 1 .. Len(s) /\ s[k + j] = x
      BY <1>5, <2>1
    <2> QED BY ONLY <1>1, <2>2, ToSetIs
  <1>7. a = NoProp => r = s
    BY <1>2 DEF After
  <1> QED BY <1>6, <1>7 DEF s, a, r

\* A frame whose list and notifiers are left alone.
LEMMA FrameSame ==
  ASSUME IInv, NEW i \in DOMAIN stack, NEW j, stack'[j] = stack[i],
         Destroys(stack[i]) =>
           /\ props'[stack[i].obj] = props[stack[i].obj]
           /\ \A n \in ToSet(props[stack[i].obj]) : notif'[n] = notif[n]
  PROVE  FrameRan(stack[j])'
  <1>1. FrameRan(stack[i])
    BY DEF IInv, Ran
  <1>2. CASE ~Destroys(stack[i])
    BY <1>2 DEF FrameRan, Destroys
  <1>3. CASE Destroys(stack[i]) /\ stack[i].at \notin ToSet(props[stack[i].obj]) \cup {NoProp}
    BY <1>3 DEF FrameRan
  <1>4. CASE Destroys(stack[i]) /\ stack[i].at \in ToSet(props[stack[i].obj]) \cup {NoProp}
    <2>1. Rest(stack[j])' = Rest(stack[i])
      BY <1>4 DEF Rest
    <2>2. \A n \in ToSet(props[stack[i].obj]) :
            IF stack[i].phase # "children" /\ n \in ToSet(Rest(stack[i]))
            THEN Waiting(n)' ELSE Served(n)'
      BY <1>1, <1>4 DEF FrameRan, Waiting, Served
    <2> QED BY <1>4, <2>1, <2>2 DEF FrameRan
  <1> QED BY <1>2, <1>3, <1>4

\* Steps that leave the notifiers alone; a new object has none.
LEMMA RanKeep ==
  ASSUME IInv, UNCHANGED <<props, notif>>,
         \A o \in Obj : state'[o] = "live" => state[o] = "live" \/ props[o] = <<>>,
         \A i \in DOMAIN stack' : \/ \E k \in DOMAIN stack : stack'[i] = stack[k]
                                  \/ FrameRan(stack[i])'
  PROVE  Ran'
  <1>1. \A n \in Prop : notif'[n].ran <= 1 /\ (notif'[n].status = "freed" => Served(n)')
    BY DEF IInv, Ran, Served
  <1>2. \A o \in Obj \cup {Root} :
          o = Root \/ state'[o] = "live" => \A n \in ToSet(props'[o]) : Waiting(n)'
    BY EmptySet DEF IInv, Ran, Waiting
  <1>3. ASSUME NEW i \in DOMAIN stack'
        PROVE  FrameRan(stack[i])'
    BY FrameSame
  <1> QED BY <1>1, <1>2, <1>3 DEF Ran

\* A del_tree that begins: its notifiers wait.
LEMMA RanEnter ==
  ASSUME IInv, NEW o \in Obj, state[o] = "live", state' = [state EXCEPT ![o] = "dying"],
         UNCHANGED <<props, notif>>,
         \/ stack' = Enter(o)
         \/ stack # <<>> /\ stack' = [stack EXCEPT ![1] = NewFrame(o)]
  PROVE  Ran'
  <1>1. /\ stack'[1] = NewFrame(o)
        /\ \A i \in DOMAIN stack' : i = 1 \/ \E k \in DOMAIN stack : stack'[i] = stack[k]
    <2>1. CASE stack' = Enter(o)
      BY <2>1, EnterFact DEF IInv, NewFrame
    <2>2. CASE stack # <<>> /\ stack' = [stack EXCEPT ![1] = NewFrame(o)]
      <3>1. NewFrame(o) \in Frame
        BY DEF NewFrame, Frame
      <3> QED BY <2>2, <3>1, TopFact DEF IInv
    <2> QED BY <2>1, <2>2
  <1>2. stack'[1].obj = o /\ stack'[1].phase = "notify" /\ stack'[1].at = NoProp
    BY <1>1 DEF NewFrame
  <1>3. state'[o] = "dying" /\ \A p \in Obj : p # o => state'[p] = state[p]
    BY DEF IInv, TypeOK
  <1>4. FrameRan(stack[1])'
    <2>1. \A n \in ToSet(props[o]) : Waiting(n)'
      BY DEF IInv, Ran, Waiting
    <2>2. Rest(stack[1])' = props[o]
      BY <1>2 DEF Rest, After
    <2> QED BY <1>2, <2>1, <2>2 DEF FrameRan
  <1> QED BY <1>1, <1>3, <1>4, RanKeep

\* A notifier that is added: on an object that is being destroyed it is late.
LEMMA RanAdd ==
  ASSUME IInv, AppRuns, NEW o \in Obj \cup {Root}, NEW n \in Prop,
         notif[n].status = "fresh", notif'[n].status = "set",
         notif'[n].ran = 0, notif'[n].late = (o # Root /\ state[o] = "dying"),
         props'[o] = <<n>> \o props[o],
         \A p \in Obj \cup {Root} : p # o => props'[p] = props[p],
         \A m \in Prop : m # n => notif'[m] = notif[m], UNCHANGED <<state, stack>>
  PROVE  Ran'
  <1> DEFINE Q == Obj \cup {Root}
  <1>1. \A p \in Q : /\ props[p] \in Seq(Prop) /\ IsInjective(props[p])
                     /\ \A m \in ToSet(props[p]) : m \in Prop /\ m # n /\ notif'[m] = notif[m]
    BY OwnedFact
  <1>2. ToSet(props'[o]) = ToSet(props[o]) \cup {n}
    BY <1>1, ConsFacts
  <1>3. \A m \in Prop : notif'[m].ran <= 1 /\ (notif'[m].status = "freed" => Served(m)')
    <2> TAKE m \in Prop
    <2>1. CASE m = n
      BY <2>1
    <2>2. CASE m # n
      BY <2>2 DEF IInv, Ran, Served
    <2> QED BY <2>1, <2>2
  <1>4. \A p \in Q : p = Root \/ state'[p] = "live" => \A m \in ToSet(props'[p]) : Waiting(m)'
    <2> SUFFICES ASSUME NEW p \in Q, p = Root \/ state[p] = "live"
                 PROVE  \A m \in ToSet(props'[p]) : Waiting(m)'
      OBVIOUS
    <2>1. \A m \in ToSet(props[p]) : Waiting(m)'
      BY <1>1 DEF IInv, Ran, Waiting
    <2>2. CASE p = o
      <3>1. Waiting(n)'
        BY <2>2 DEF Waiting
      <3> QED BY <1>2, <2>1, <2>2, <3>1
    <2>3. CASE p # o
      BY <2>1, <2>3
    <2> QED BY <2>2, <2>3
  <1>5. ASSUME NEW i \in DOMAIN stack
        PROVE  FrameRan(stack[i])'
    <2>1. stack[i].obj \in Q /\ stack[i].phase \notin {"notify", "wild"}
      BY FrameFact, NotBetween
    <2>2. CASE stack[i].obj # o \/ ~Destroys(stack[i])
      BY <1>1, <2>1, <2>2, FrameSame
    <2>3. CASE stack[i].obj = o /\ Destroys(stack[i]) /\ stack[i].at \notin ToSet(props[o]) \cup {NoProp}
      <3>1. stack[i].at # n
        BY <2>3, FrameFact DEF Sound
      <3>2. stack'[i] = stack[i] /\ stack[i].at \notin ToSet(props'[o]) \cup {NoProp}
        BY <1>2, <2>3, <3>1
      <3> QED BY <2>3, <3>2 DEF FrameRan
    <2>4. CASE stack[i].obj = o /\ Destroys(stack[i]) /\ stack[i].at \in ToSet(props[o]) \cup {NoProp}
      <3>1. Served(n)'
        BY <2>4, FrameFact, Consts DEF Served
      <3>2. \A m \in ToSet(props[o]) :
              IF stack[i].phase # "children" /\ m \in ToSet(Rest(stack[i]))
              THEN Waiting(m)' ELSE Served(m)'
        <4>1. FrameRan(stack[i])
          BY DEF IInv, Ran
        <4> QED BY <1>1, <2>4, <4>1 DEF FrameRan, Waiting, Served
      <3>3. stack[i].phase # "children" => ToSet(Rest(stack[i])') = ToSet(Rest(stack[i]))
        <4> SUFFICES ASSUME stack[i].phase # "children"
                     PROVE  ToSet(Rest(stack[i])') = ToSet(Rest(stack[i]))
          OBVIOUS
        <4> DEFINE a == stack[i].at
                   s == props[o]
        <4>1. stack[i].phase = "call"
          BY <2>1, <2>4 DEF Destroys
        <4>2. a # NoProp /\ a \in ToSet(s)
          BY <2>4, <4>1, FrameFact DEF Sound
        <4>3. Rest(stack[i]) = After(s, a) /\ Rest(stack[i])' = After(<<n>> \o s, a)
          BY <2>4 DEF Rest
        <4>4. s \in Seq(Prop) /\ IsInjective(s) /\ n \notin ToSet(s)
          BY <1>1
        <4> HIDE DEF a, s
        <4>5. ToSet(After(<<n>> \o s, a)) = ToSet(After(s, a))
          BY <4>2, <4>4, AfterCons
        <4> QED BY <4>3, <4>5
      <3>4. n \notin ToSet(Rest(stack[i]))
        BY <1>1, <2>4, RestIn
      <3> QED BY <1>2, <2>4, <3>1, <3>2, <3>3, <3>4 DEF FrameRan
    <2> QED BY <2>2, <2>3, <2>4
  <1> QED BY <1>3, <1>4, <1>5 DEF Ran

\* A notifier that is deleted.
LEMMA RanDel ==
  ASSUME IInv, AppRuns, NEW o \in Node, NEW i \in 1 .. Len(props[o]), DelAt(o, i)
  PROVE  Ran'
  <1> DEFINE Q == Obj \cup {Root}
             n == props[o][i]
             s == props[o]
  <1>1. /\ o \in Q /\ n \in Prop /\ n \in ToSet(s)
        /\ \A p \in Q : ToSet(props'[p]) = ToSet(props[p]) \ {n}
        /\ \A p \in Q : p # o => props'[p] = props[p]
        /\ \A m \in Prop : m # n => notif'[m] = notif[m]
        /\ notif'[n] = Deleted(notif[n])
        /\ UNCHANGED <<state, stack>>
    <2>1. /\ o \in Q /\ n \in Prop /\ n \in ToSet(s)
          /\ \A p \in Q : ToSet(props'[p]) = ToSet(props[p]) \ {n}
      BY DelSet
    <2> QED BY <2>1, NodeFact DEF DelAt
  <1>2. props'[o] = RemoveAt(s, i)
    BY DEF DelAt
  <1>3. \A p \in Q : /\ props[p] \in Seq(Prop) /\ IsInjective(props[p])
                     /\ \A m \in ToSet(props[p]) : m \in Prop
                     /\ \A q \in Q : p # q => ToSet(props[p]) \cap ToSet(props[q]) = {}
    BY OwnedFact
  <1>4. s \in Seq(Prop) /\ IsInjective(s) /\ s[i] = n
    BY <1>1, <1>3
  <1> HIDE DEF n
  <1>5. notif'[n].ran = 0 /\ notif'[n].status = "deleted"
    BY <1>1 DEF Deleted, Unused
  <1>6. \A m \in Prop : notif'[m].ran <= 1 /\ (notif'[m].status = "freed" => Served(m)')
    <2> TAKE m \in Prop
    <2>1. CASE m = n
      BY <1>5, <2>1
    <2>2. CASE m # n
      BY <1>1, <2>2 DEF IInv, Ran, Served
    <2> QED BY <2>1, <2>2
  <1>7. \A p \in Q : p = Root \/ state'[p] = "live" => \A m \in ToSet(props'[p]) : Waiting(m)'
    <2> SUFFICES ASSUME NEW p \in Q, p = Root \/ state[p] = "live", NEW m \in ToSet(props'[p])
                 PROVE  Waiting(m)'
      BY <1>1
    <2>1. m \in ToSet(props[p]) /\ m # n /\ m \in Prop
      BY <1>1, <1>3
    <2>2. Waiting(m)
      BY <2>1 DEF IInv, Ran
    <2> QED BY <1>1, <2>1, <2>2 DEF Waiting
  <1>8. ASSUME NEW j \in DOMAIN stack
        PROVE  FrameRan(stack[j])'
    <2>1. stack[j].obj \in Q /\ stack[j].phase \notin {"notify", "wild"}
      BY FrameFact, NotBetween
    <2>2. CASE stack[j].obj # o \/ ~Destroys(stack[j])
      <3>1. Destroys(stack[j]) => \A m \in ToSet(props[stack[j].obj]) : m \in Prop /\ m # n
        BY <1>1, <1>3, <2>1, <2>2
      <3> QED BY <1>1, <2>1, <2>2, <3>1, FrameSame
    <2>3. CASE stack[j].obj = o /\ Destroys(stack[j])
               /\ (stack[j].at \notin ToSet(s) \cup {NoProp} \/ stack[j].at = n)
      <3>1. n # NoProp
        BY <1>1, Consts
      <3> QED BY <1>1, <2>3, <3>1 DEF FrameRan
    <2>4. CASE stack[j].obj = o /\ Destroys(stack[j])
               /\ stack[j].at \in ToSet(s) \cup {NoProp} /\ stack[j].at # n
      <3>1. \A m \in ToSet(s) \ {n} :
              IF stack[j].phase # "children" /\ m \in ToSet(Rest(stack[j]))
              THEN Waiting(m)' ELSE Served(m)'
        <4>1. FrameRan(stack[j])
          BY DEF IInv, Ran
        <4> QED BY <1>1, <1>3, <2>4, <4>1 DEF FrameRan, Waiting, Served
      <3>2. stack[j].phase # "children" => ToSet(Rest(stack[j])') = ToSet(Rest(stack[j])) \ {n}
        <4> SUFFICES ASSUME stack[j].phase # "children"
                     PROVE  ToSet(Rest(stack[j])') = ToSet(Rest(stack[j])) \ {n}
          OBVIOUS
        <4> DEFINE a == stack[j].at
        <4>1. stack[j].phase = "call"
          BY <2>1, <2>4 DEF Destroys
        <4>2. a # NoProp /\ a \in ToSet(s) /\ s[i] # a
          BY <1>1, <1>4, <2>4, <4>1, FrameFact DEF Sound
        <4>3. Rest(stack[j]) = After(s, a) /\ Rest(stack[j])' = After(RemoveAt(s, i), a)
          BY <1>1, <1>2, <2>4 DEF Rest
        <4> HIDE DEF a, s
        <4>4. ToSet(After(RemoveAt(s, i), a)) = ToSet(After(s, a)) \ {s[i]}
          BY <1>4, <4>2, AfterRemove DEF s
        <4> QED BY <1>4, <4>3, <4>4
      <3>3. stack' = stack /\ ToSet(props'[o]) = ToSet(s) \ {n}
        BY <1>1
      <3> QED BY <2>4, <3>1, <3>2, <3>3 DEF FrameRan
    <2> QED BY <2>2, <2>3, <2>4
  <1>9. stack' = stack
    BY <1>1
  <1> QED BY <1>6, <1>7, <1>8, <1>9 DEF Ran

\* notify calls one, or finds that all are called.
LEMMA RanNotify ==
  ASSUME IInv, Notify
  PROVE  Ran'
  <1> DEFINE Q == Obj \cup {Root}
             s == props[Top.obj]
  <1>0. /\ stack # <<>> /\ stack[1] \in Frame /\ Top = stack[1] /\ 1 \in DOMAIN stack
        /\ stack[1].phase = "notify" /\ UNCHANGED <<state, props>> /\ Top.obj \in Obj
        /\ state[Top.obj] = "dying" /\ Destroys(Top)
        /\ Top.at \in ToSet(s) \cup {NoProp}
    <2>1. stack # <<>> /\ TypeOK /\ UNCHANGED <<state, props>> /\ Top.phase = "notify"
      BY DEF Notify, IInv
    <2>2. Destroys(Top)
      BY <2>1 DEF Destroys
    <2>3. 1 \in DOMAIN stack /\ Top = stack[1] /\ Top.obj \in Obj /\ stack[1] \in Frame
      BY <2>1, TopFact
    <2>4. Sound(Top)
      BY <2>3, FrameFact
    <2> QED BY <2>1, <2>2, <2>3, <2>4 DEF Sound
  <1>s. \A n \in ToSet(s) :
          IF n \in ToSet(Rest(Top)) THEN Waiting(n) ELSE Served(n)
    <2>1. FrameRan(Top)
      BY <1>0 DEF IInv, Ran
    <2> QED BY <1>0, <2>1 DEF FrameRan
  <1>o. \A p \in Q : p # Top.obj => ToSet(props[p]) \cap ToSet(s) = {}
    BY <1>0, OwnedFact
  <1>p. \A p \in Q : \A n \in ToSet(props[p]) : n \in Prop
    BY OwnedFact
  <1>1. CASE Interested(Rest(Top), "free") # {}
    <2> DEFINE r == Rest(Top)
               i == Min(Interested(Rest(Top), "free"))
               n == r[i]
               f == [stack[1] EXCEPT !.phase = "call", !.at = n]
    <2>1. CallOf(n)
      BY <1>1, CallFact
    <2>2. /\ r \in Seq(Prop) /\ i \in 1 .. Len(r) /\ n \in Prop /\ IsInjective(r)
          /\ \A j \in 1 .. Len(r) : j < i => "free" \notin notif[r[j]].types
          /\ n \in ToSet(s) /\ n \in ToSet(r)
          /\ \A x \in Prop : x \in ToSet(After(s, n)) <=> \E j \in 1 .. Len(r) : j > i /\ r[j] = x
      BY <1>0, <1>1, NotifyFact
    <2>s. \A m \in ToSet(s) : IF m \in ToSet(r) THEN Waiting(m) ELSE Served(m)
      BY <1>s
    <2>n. r[i] = n
      OBVIOUS
    <2> HIDE DEF n, r, i
    <2>3. /\ notif'[n].ran = notif[n].ran + 1 /\ notif'[n].status = notif[n].status
          /\ notif'[n].types = notif[n].types /\ notif'[n].late = notif[n].late
          /\ \A m \in Prop : m # n => notif'[m] = notif[m]
          /\ stack' = [stack EXCEPT ![1] = f]
      BY <2>1 DEF CallOf
    <2>4. f \in Frame /\ f.obj = Top.obj /\ f.at = n /\ f.phase = "call"
      BY <1>0, <2>2 DEF Frame
    <2> HIDE DEF f
    <2>5. /\ DOMAIN stack' = DOMAIN stack /\ stack'[1] = f
          /\ \A j \in DOMAIN stack : j # 1 => stack'[j] = stack[j]
      BY <1>0, <2>3, <2>4, TopFact DEF IInv
    <2>6. notif'[n].ran = 1 /\ notif[n].status = "set"
      <3>1. Waiting(n)
        BY <2>2, <2>s
      <3>2. notif[n].ran = 0
        BY <3>1 DEF Waiting
      <3> QED BY <1>0, <2>2, <2>3, <3>2, OwnedFact
    <2>7. \A m \in Prop : notif'[m].ran <= 1 /\ (notif'[m].status = "freed" => Served(m)')
      <3> TAKE m \in Prop
      <3>1. CASE m = n
        BY <2>3, <2>6, <3>1
      <3>2. CASE m # n
        BY <2>3, <3>2 DEF IInv, Ran, Served
      <3> QED BY <3>1, <3>2
    <2>8. \A p \in Q : p # Top.obj => \A m \in ToSet(props[p]) : notif'[m] = notif[m]
      BY <1>o, <1>p, <2>2, <2>3
    <2>9. \A p \in Q : p = Root \/ state'[p] = "live" => \A m \in ToSet(props'[p]) : Waiting(m)'
      <3> SUFFICES ASSUME NEW p \in Q, p = Root \/ state[p] = "live"
                   PROVE  \A m \in ToSet(props[p]) : Waiting(m)'
        BY <1>0
      <3>1. p # Top.obj
        BY <1>0, Consts
      <3> QED BY <2>8, <3>1 DEF IInv, Ran, Waiting
    <2>10. FrameRan(stack[1])'
      <3>1. Rest(stack[1])' = After(s, n)
        BY <1>0, <2>4, <2>5 DEF Rest
      <3>2. ASSUME NEW m \in ToSet(s), m \in ToSet(After(s, n))
            PROVE  Waiting(m)'
        <4>1. m \in Prop
          BY <1>0, <1>p
        <4>2. PICK j \in 1 .. Len(r) : j > i /\ r[j] = m
          BY <2>2, <3>2, <4>1
        <4>3. m \in ToSet(r)
          BY <2>2, <4>2, ToSetIs
        <4>4. m # n
          BY <2>2, <2>n, <4>2, ToSetIs
        <4>5. Waiting(m)
          BY <2>s, <4>3
        <4> QED BY <2>3, <4>1, <4>4, <4>5 DEF Waiting
      <3>3. ASSUME NEW m \in ToSet(s), m \notin ToSet(After(s, n))
            PROVE  Served(m)'
        <4>1. m \in Prop
          BY <1>0, <1>p
        <4>2. CASE m = n
          BY <2>6, <4>2 DEF Served
        <4>3. CASE m # n /\ m \notin ToSet(r)
          BY <2>3, <2>s, <4>1, <4>3 DEF Served
        <4>4. CASE m # n /\ m \in ToSet(r)
          <5>1. PICK j \in 1 .. Len(r) : r[j] = m
            BY <2>2, <4>4, ToSetIs
          <5>2. ~(j > i)
            BY <2>2, <3>3, <4>1, <5>1
          <5>3. j # i
            BY <2>n, <4>4, <5>1
          <5>4. j < i
            BY <2>2, <5>2, <5>3
          <5>5. "free" \notin notif[m].types
            BY <2>2, <5>1, <5>4
          <5> QED BY <2>3, <4>1, <4>4, <5>5 DEF Served
        <4> QED BY <4>2, <4>3, <4>4
      <3>4. stack'[1].obj = Top.obj /\ stack'[1].phase # "children" /\ props' = props
        BY <1>0, <2>4, <2>5
      <3> QED BY <3>1, <3>2, <3>3, <3>4 DEF FrameRan
    <2>11. \A j \in DOMAIN stack : j # 1 => FrameRan(stack[j])'
      <3> SUFFICES ASSUME NEW j \in DOMAIN stack, j # 1 PROVE FrameRan(stack[j])'
        OBVIOUS
      <3>1. (Destroys(stack[j]) => stack[j].obj # Top.obj) /\ stack[j].obj \in Q
        BY <1>0, FrameFact
      <3>2. Destroys(stack[j]) => \A m \in ToSet(props[stack[j].obj]) : notif'[m] = notif[m]
        BY <2>8, <3>1
      <3>3. stack'[j] = stack[j] /\ props' = props
        BY <1>0, <2>5
      <3> QED BY <3>2, <3>3, FrameSame
    <2> QED BY <2>5, <2>7, <2>9, <2>10, <2>11 DEF Ran
  <1>2. CASE Interested(Rest(Top), "free") = {}
    <2> DEFINE f == [stack[1] EXCEPT !.phase = "children", !.at = NoProp]
    <2>1. f \in Frame /\ f.obj = Top.obj /\ f.phase = "children"
      BY <1>0 DEF Frame
    <2>2. stack' = [stack EXCEPT ![1] = f] /\ UNCHANGED notif
      BY <1>2 DEF Notify
    <2> HIDE DEF f
    <2>3. /\ DOMAIN stack' = DOMAIN stack /\ stack'[1] = f
          /\ \A j \in DOMAIN stack : j # 1 => stack'[j] = stack[j]
      BY <1>0, <2>1, <2>2, TopFact DEF IInv
    <2>4. \A n \in ToSet(Rest(Top)) : "free" \notin notif[n].types
      <3>1. \A i \in DOMAIN Rest(Top) : "free" \notin notif[Rest(Top)[i]].types
        BY <1>2 DEF Interested
      <3> QED BY <3>1 DEF ToSet
    <2>5. \A n \in ToSet(s) : Served(n)
      BY <1>s, <2>4 DEF Served
    <2>6. FrameRan(stack[1])'
      BY <1>0, <2>1, <2>2, <2>3, <2>5 DEF FrameRan, Served
    <2>7. \A j \in DOMAIN stack : j # 1 => FrameRan(stack[j])'
      BY <1>0, <2>2, <2>3, FrameSame
    <2>8. \A n \in Prop : notif'[n].ran <= 1 /\ (notif'[n].status = "freed" => Served(n)')
      BY <2>2 DEF IInv, Ran, Served
    <2>9. \A o \in Q : o = Root \/ state'[o] = "live" => \A n \in ToSet(props'[o]) : Waiting(n)'
      BY <1>0, <2>2 DEF IInv, Ran, Waiting
    <2> QED BY <2>3, <2>6, <2>7, <2>8, <2>9 DEF Ran
  <1> QED BY <1>1, <1>2

\* Ran is preserved.
LEMMA RanStep ==
  ASSUME IInv, Next
  PROVE  Ran'
  <1> DEFINE Q == Obj \cup {Root}
  <1>0. TypeOK /\ StepCases
    BY NextCases DEF IInv
  <1>1. ASSUME NEW ctx \in Node, TalAlloc(ctx)
        PROVE  Ran'
    <2>1. NewObj \in Obj /\ NewObj \notin Node
      BY <1>1, NewObjFact DEF TalAlloc
    <2>2. props[NewObj] = <<>>
      BY <2>1 DEF IInv, Owned, Node
    <2>3. UNCHANGED <<props, notif, stack>> /\ \A p \in Obj : p # NewObj => state'[p] = state[p]
      BY <1>0, <1>1, <2>1 DEF TalAlloc, TypeOK
    <2> QED BY <2>2, <2>3, RanKeep
  <1>2. ASSUME NEW o \in Allocated, TalResize(o)
        PROVE  Ran'
    <2> DEFINE new == NewObj
    <2>1. new \in Obj /\ state[new] = "fresh" /\ o \in Obj /\ state[o] = "live" /\ o # new
      BY <1>2, NewObjFact, NodeFact DEF TalResize
    <2>2. /\ props' = [props EXCEPT ![new] = props[o], ![o] = <<>>]
          /\ state' = [state EXCEPT ![o] = "freed", ![new] = "live"] /\ UNCHANGED <<notif, stack>>
      BY <1>2 DEF TalResize
    <2> HIDE DEF new
    <2>3. /\ props'[new] = props[o] /\ state'[o] = "freed"
          /\ \A p \in Q : p \notin {new, o} => props'[p] = props[p]
          /\ \A p \in Obj : p \notin {new, o} => state'[p] = state[p]
      BY <1>0, <2>1, <2>2 DEF TypeOK
    <2>4. \A i \in DOMAIN stack : stack[i].obj \in Obj /\ (Destroys(stack[i]) => stack[i].obj \notin {new, o})
      BY <2>1, FrameFact
    <2>5. \A i \in DOMAIN stack' : FrameRan(stack[i])'
      BY <2>2, <2>3, <2>4, FrameSame
    <2>6. \A n \in Prop : notif'[n].ran <= 1 /\ (notif'[n].status = "freed" => Served(n)')
      BY <2>2 DEF IInv, Ran, Served
    <2>7. \A p \in Q : p = Root \/ state'[p] = "live" => \A n \in ToSet(props'[p]) : Waiting(n)'
      <3> SUFFICES ASSUME NEW p \in Q, p = Root \/ state'[p] = "live"
                   PROVE  \A n \in ToSet(props'[p]) : Waiting(n)
        BY <2>2 DEF Waiting
      <3>1. CASE p = new
        BY <2>1, <2>3, <3>1 DEF IInv, Ran
      <3>2. CASE p # new
        <4>1. p # o
          BY <2>1, <2>3, Consts
        <4>2. p = Root \/ state[p] = "live"
          BY <2>3, <3>2, <4>1
        <4> QED BY <2>3, <3>2, <4>1, <4>2 DEF IInv, Ran
      <3> QED BY <3>1, <3>2
    <2> QED BY <2>5, <2>6, <2>7 DEF Ran
  <1>3. ASSUME NEW o \in Node, NEW fn \in Fn, NEW types \in Kinds, NEW d \in BOOLEAN, AppRuns,
               \E n \in Prop : notif[n].status = "fresh", Add(o, NewProp, types, d, fn),
               UNCHANGED <<state, stack>>
        PROVE  Ran'
    <2> DEFINE n == NewProp
    <2>1. /\ n \in Prop /\ notif[n].status = "fresh" /\ o \in Obj \cup {Root}
          /\ props'[o] = <<n>> \o props[o]
          /\ \A p \in Obj \cup {Root} : p # o => props'[p] = props[p]
          /\ \A m \in Prop : m # n => notif'[m] = notif[m]
          /\ notif'[n].status = "set" /\ notif'[n].ran = 0
          /\ notif'[n].late = (o # Root /\ state[o] = "dying")
      BY <1>3, AddFact
    <2> HIDE DEF n
    <2> QED BY <1>3, <2>1, RanAdd
  <1>4. ASSUME NEW o \in Node, NEW fn \in Fn, TalAddDestructor(o, fn)
        PROVE  Ran'
    <2>1. {"free"} \in Kinds /\ TRUE \in BOOLEAN
      BY DEF Kinds
    <2>2. /\ \E n \in Prop : notif[n].status = "fresh" /\ AppRuns
          /\ Add(o, NewProp, {"free"}, TRUE, fn) /\ UNCHANGED <<state, stack>>
      BY <1>4 DEF TalAddDestructor
    <2> QED BY <1>3, <2>1, <2>2
  <1>5. ASSUME NEW o \in Node, NEW fn \in Fn, NEW types \in Kinds, TalAddNotifier(o, fn, types)
        PROVE  Ran'
    <2>1. FALSE \in BOOLEAN
      OBVIOUS
    <2>2. /\ \E n \in Prop : notif[n].status = "fresh" /\ AppRuns
          /\ Add(o, NewProp, types, FALSE, fn) /\ UNCHANGED <<state, stack>>
      BY <1>5 DEF TalAddNotifier
    <2> QED BY <1>3, <2>1, <2>2
  <1>6. ASSUME NEW o \in Node, NEW fn \in Fn, TalDelNotifier(o, fn)
        PROVE  Ran'
    <2>1. PICK i \in 1 .. Len(props[o]) : DelAt(o, i)
      BY <1>6, DelFact
    <2>2. AppRuns
      BY <1>6 DEF TalDelNotifier
    <2> QED BY <2>1, <2>2, RanDel
  <1>7. ASSUME NEW o \in Allocated, Starts(o)
        PROVE  Ran'
    <2>1. o \in Obj
      BY NodeFact
    <2> QED BY <1>7, <2>1, RanEnter DEF Starts, Unlink
  <1>8. CASE FreeChild
    <2>1. PICK c \in Allocated : /\ state[c] = "live" /\ c \in Obj /\ stack' = Enter(c)
                                 /\ state' = [state EXCEPT ![c] = "dying"]
      BY <1>8, ChildFact
    <2>2. UNCHANGED <<props, notif>>
      BY <1>8 DEF FreeChild
    <2> QED BY <2>1, <2>2, RanEnter
  <1>9. CASE Resumes
    <2> DEFINE f == [stack[1] EXCEPT !.phase = "notify"]
    <2>1. /\ stack # <<>> /\ stack[1] \in Frame /\ 1 \in DOMAIN stack /\ stack[1].phase = "call"
          /\ stack[1].at \in ToSet(props[stack[1].obj])
      BY <1>0, <1>9, TopFact DEF Resumes, Top
    <2>2. f \in Frame /\ f.obj = stack[1].obj /\ f.at = stack[1].at /\ f.phase = "notify"
      BY <2>1 DEF Frame
    <2>3. stack' = [stack EXCEPT ![1] = f] /\ UNCHANGED <<state, props, notif>>
      BY <1>9 DEF Resumes
    <2> HIDE DEF f
    <2>4. /\ DOMAIN stack' = DOMAIN stack /\ stack'[1] = f
          /\ \A j \in DOMAIN stack : j # 1 => stack'[j] = stack[j]
      BY <1>0, <2>1, <2>2, <2>3, TopFact
    <2>5. FrameRan(stack[1])'
      <3>1. Rest(stack[1])' = Rest(stack[1])
        BY <2>2, <2>3, <2>4 DEF Rest
      <3>2. FrameRan(stack[1])
        BY <2>1 DEF IInv, Ran
      <3>3. \A n \in ToSet(props[stack[1].obj]) :
              IF n \in ToSet(Rest(stack[1])) THEN Waiting(n)' ELSE Served(n)'
        BY <2>1, <2>3, <3>2 DEF FrameRan, Destroys, Waiting, Served
      <3> QED BY <2>2, <2>3, <2>4, <3>1, <3>3 DEF FrameRan
    <2> QED BY <2>3, <2>4, <2>5, RanKeep
  <1>13. CASE Tells
    <2>1. PICK f \in Frame :
            /\ TellsOf(f)
            /\ \/ stack' = <<f>> \o stack
               \/ stack # <<>> /\ stack' = [stack EXCEPT ![1] = f]
      BY <1>13 DEF Tells
    <2>2. UNCHANGED <<state, props, notif>>
      BY <1>13 DEF Tells
    <2>3. \A i \in DOMAIN stack' : stack'[i] = f \/ \E k \in DOMAIN stack : stack'[i] = stack[k]
      <3>0. stack \in Seq(Frame)
        BY <1>0 DEF TypeOK, Frame
      <3>1. CASE stack' = <<f>> \o stack
        BY <3>0, <3>1
      <3>2. CASE stack # <<>> /\ stack' = [stack EXCEPT ![1] = f]
        BY <1>0, <3>2, TopFact
      <3> QED BY <2>1, <3>1, <3>2
    <2>4. ~Destroys(f)
      BY <2>1 DEF TellsOf, Destroys
    <2>5. \A i \in DOMAIN stack' : stack'[i] = f => FrameRan(stack[i])'
      BY <2>4 DEF FrameRan, Destroys
    <2> QED BY <2>2, <2>3, <2>5, RanKeep
  <1>10. CASE Notify
    BY <1>10, RanNotify
  <1>11. CASE FreeSelf
    <2> DEFINE o == Top.obj
    <2>0. /\ stack # <<>> /\ o \in Obj /\ stack' = Tail(stack) /\ 1 \in DOMAIN stack
          /\ stack[1].phase = "children" /\ stack[1].obj = o /\ Top = stack[1]
      BY <1>0, <1>11, TopFact DEF FreeSelf
    <2>1. /\ state'[o] = "freed" /\ props'[o] = <<>>
          /\ \A p \in Q : p # o =>
               /\ props'[p] = props[p]
               /\ \A n \in ToSet(props[p]) : notif'[n] = notif[n]
          /\ \A p \in Obj : p # o => state'[p] = state[p]
          /\ \A n \in Prop : n \notin ToSet(props[o]) => notif'[n] = notif[n]
          /\ \A n \in ToSet(props[o]) :
               /\ n \in Prop /\ notif'[n].ran = notif[n].ran
               /\ notif'[n].types = notif[n].types /\ notif'[n].late = notif[n].late
      BY <1>11, FreeSelfFact
    <2>2. \A i \in DOMAIN stack' :
            /\ i + 1 \in DOMAIN stack /\ stack'[i] = stack[i + 1]
            /\ Destroys(stack[i + 1]) => stack[i + 1].obj # o
      <3>1. Destroys(Top)
        BY <2>0 DEF Destroys
      <3> QED BY <2>0, <3>1, TailFrames
    <2> HIDE DEF o
    <2>3. \A n \in ToSet(props[o]) : Served(n)
      <3>1. FrameRan(stack[1]) /\ stack[1].at = NoProp
        BY <2>0, FrameFact DEF IInv, Ran, Sound
      <3> QED BY <2>0, <3>1 DEF FrameRan, Destroys
    <2>4. \A n \in Prop : notif'[n].ran <= 1 /\ (notif'[n].status = "freed" => Served(n)')
      <3> TAKE n \in Prop
      <3>1. CASE n \in ToSet(props[o])
        BY <2>1, <2>3, <3>1 DEF IInv, Ran, Served
      <3>2. CASE n \notin ToSet(props[o])
        BY <2>1, <3>2 DEF IInv, Ran, Served
      <3> QED BY <3>1, <3>2
    <2>5. \A p \in Q : p = Root \/ state'[p] = "live" => \A n \in ToSet(props'[p]) : Waiting(n)'
      <3> SUFFICES ASSUME NEW p \in Q, p = Root \/ state'[p] = "live"
                   PROVE  \A n \in ToSet(props'[p]) : Waiting(n)'
        OBVIOUS
      <3>1. p # o
        BY <2>0, <2>1, Consts
      <3>2. p = Root \/ state[p] = "live"
        BY <2>1, <3>1
      <3>3. \A n \in ToSet(props[p]) : Waiting(n)
        BY <3>2 DEF IInv, Ran
      <3> QED BY <2>1, <3>1, <3>3 DEF Waiting
    <2>6. ASSUME NEW i \in DOMAIN stack'
          PROVE  FrameRan(stack[i])'
      <3> DEFINE j == i + 1
      <3>1. j \in DOMAIN stack /\ stack'[i] = stack[j] /\ (Destroys(stack[j]) => stack[j].obj # o)
        BY <2>2
      <3> HIDE DEF j
      <3>2. stack[j].obj \in Q
        BY <3>1, FrameFact
      <3> QED BY <2>1, <3>1, <3>2, FrameSame
    <2> QED BY <2>4, <2>5, <2>6 DEF Ran
  <1>12. CASE UNCHANGED <<state, props, notif, stack>>
    BY <1>12, RanKeep
  <1> QED BY <1>0, <1>1, <1>2, <1>4, <1>5, <1>6, <1>7, <1>8, <1>9, <1>10, <1>11,
             <1>12, <1>13
          DEF StepCases, StealTo

-----------------------------------------------------------------------------
(* The count of notifiers *)

\* Kinded is preserved.
LEMMA KindedStep ==
  ASSUME IInv, Next
  PROVE  Kinded'
  <1>0. /\ StepCases
        /\ \A n \in Prop : notif[n].status = "set" =>
             notif[n].types \in Kinds /\ (notif[n].destructor => notif[n].types = {"free"})
    BY NextCases DEF IInv, Kinded
  <1>1. ASSUME NEW o \in Node, NEW fn \in Fn, TalAddDestructor(o, fn)
        PROVE  Kinded'
    <2>1. {"free"} \in Kinds /\ TRUE \in BOOLEAN
      BY DEF Kinds
    <2>2. /\ \A n \in Prop : n # NewProp => notif'[n] = notif[n]
          /\ notif'[NewProp].types = {"free"}
      BY <1>1, <2>1, AddFact DEF TalAddDestructor
    <2> QED BY <1>0, <2>1, <2>2 DEF Kinded
  <1>2. ASSUME NEW o \in Node, NEW fn \in Fn, NEW types \in Kinds, TalAddNotifier(o, fn, types)
        PROVE  Kinded'
    <2>1. FALSE \in BOOLEAN
      OBVIOUS
    <2>2. /\ \E n \in Prop : notif[n].status = "fresh"
          /\ Add(o, NewProp, types, FALSE, fn)
      BY <1>2 DEF TalAddNotifier
    <2>3. /\ \A n \in Prop : n # NewProp => notif'[n] = notif[n]
          /\ notif'[NewProp].types = types /\ notif'[NewProp].destructor = FALSE
      BY <2>1, <2>2, AddFact
    <2> QED BY <1>0, <2>3 DEF Kinded
  <1>3. ASSUME NEW o \in Node, NEW fn \in Fn, TalDelNotifier(o, fn)
        PROVE  Kinded'
    <2>1. PICK i \in 1 .. Len(props[o]) : DelAt(o, i)
      BY <1>3, DelFact
    <2> DEFINE n == props[o][i]
    <2>2. /\ \A m \in Prop : m # n => notif'[m] = notif[m]
          /\ notif'[n] = Deleted(notif[n])
      BY <2>1, DelSet
    <2> HIDE DEF n
    <2>3. notif'[n].status = "deleted"
      BY <2>2 DEF Deleted, Unused
    <2> QED BY <1>0, <2>2, <2>3 DEF Kinded
  <1>4. CASE Notify
    BY <1>0, <1>4, CallFact DEF Kinded
  <1>5. CASE FreeSelf
    <2>1. \A n \in Prop : n \in ToSet(props[Top.obj]) \/ notif'[n] = notif[n]
      BY <1>5, FreeSelfFact
    <2>2. \A n \in ToSet(props[Top.obj]) : notif'[n].status = "freed"
      BY <1>5, FreeSelfFact
    <2> QED BY <1>0, <2>1, <2>2 DEF Kinded
  <1>6. CASE UNCHANGED notif
    BY <1>0, <1>6 DEF Kinded
  <1> QED BY <1>0, <1>1, <1>2, <1>3, <1>4, <1>5, <1>6
          DEF StepCases, TalAlloc, StealTo, Starts, TalResize, Tells, Resumes,
              FreeChild

\* Who is to be told of children.
Others == {n \in Prop : notif[n].status = "set" /\ "del_child" \in notif[n].types}

\* NotifiersCounted is preserved.
LEMMA CountedStep ==
  ASSUME IInv, Next
  PROVE  NotifiersCounted'
  <1>0. /\ StepCases /\ notifiers \in Nat
        /\ IsFiniteSet(Others) /\ Cardinality(Others) \in Nat
        /\ Cardinality(Others) <= notifiers
    <2>1. IsFiniteSet(Others)
      BY Consts, FS_Subset DEF Others
    <2> QED BY <2>1, NextCases, FS_CardinalityType DEF IInv, TypeOK, NotifiersCounted,
               Others
  <1>g. NotifiersCounted' <=> Cardinality(Others') <= notifiers'
    BY DEF NotifiersCounted, Others
  <1>u. ASSUME Others' \subseteq Others, UNCHANGED notifiers
        PROVE  NotifiersCounted'
    <2>1. Cardinality(Others') <= Cardinality(Others) /\ Cardinality(Others') \in Nat
      BY <1>0, <1>u, FS_Subset, FS_CardinalityType
    <2> QED BY <1>0, <1>g, <1>u, <2>1
  <1>1. ASSUME NEW o \in Node, NEW fn \in Fn, TalAddDestructor(o, fn)
        PROVE  NotifiersCounted'
    <2>1. {"free"} \in Kinds /\ TRUE \in BOOLEAN
      BY DEF Kinds
    <2>2. /\ \A n \in Prop : n # NewProp => notif'[n] = notif[n]
          /\ notif'[NewProp].types = {"free"} /\ UNCHANGED notifiers
      BY <1>1, <2>1, AddFact DEF TalAddDestructor
    <2>3. Others' \subseteq Others
      BY <2>2 DEF Others
    <2> QED BY <1>u, <2>2, <2>3
  <1>2. ASSUME NEW o \in Node, NEW fn \in Fn, NEW types \in Kinds, TalAddNotifier(o, fn, types)
        PROVE  NotifiersCounted'
    <2>1. FALSE \in BOOLEAN
      OBVIOUS
    <2>2. /\ \A n \in Prop : n # NewProp => notif'[n] = notif[n]
          /\ notif'[NewProp].types = types /\ NewProp \in Prop
      BY <1>2, <2>1, AddFact DEF TalAddNotifier
    <2>3. notifiers' = IF types = {"free"} THEN notifiers ELSE notifiers + 1
      BY <1>2 DEF TalAddNotifier
    <2>4. CASE types = {"free"}
      <3>1. Others' \subseteq Others
        BY <2>2, <2>4 DEF Others
      <3> QED BY <1>u, <2>3, <2>4, <3>1
    <2>5. CASE types # {"free"}
      <3>1. Others' \subseteq Others \cup {NewProp}
        BY <2>2 DEF Others
      <3>2. /\ IsFiniteSet(Others \cup {NewProp})
            /\ Cardinality(Others \cup {NewProp}) = Cardinality(Others)
                 \/ Cardinality(Others \cup {NewProp}) = Cardinality(Others) + 1
        BY <1>0, FS_AddElement
      <3>3. /\ Cardinality(Others') <= Cardinality(Others \cup {NewProp})
            /\ Cardinality(Others') \in Nat
        BY <3>1, <3>2, FS_Subset, FS_CardinalityType
      <3> QED BY <1>0, <1>g, <2>3, <2>5, <3>2, <3>3
    <2> QED BY <2>4, <2>5
  <1>3. ASSUME NEW o \in Node, NEW fn \in Fn, TalDelNotifier(o, fn)
        PROVE  NotifiersCounted'
    <2>1. PICK i \in 1 .. Len(props[o]) : DelAt(o, i)
      BY <1>3, DelFact
    <2> DEFINE n == props[o][i]
    <2>2. /\ \A m \in Prop : m # n => notif'[m] = notif[m]
          /\ notif'[n] = Deleted(notif[n])
      BY <2>1, DelSet
    <2>3. /\ n \in Prop /\ notif[n].status = "set"
          /\ notifiers' = IF notif[n].types = {"free"} THEN notifiers ELSE notifiers - 1
      BY <2>1 DEF DelAt
    <2> HIDE DEF n
    <2>4. Others' \subseteq Others \ {n}
      BY <2>2 DEF Others, Deleted, Unused
    <2>5. CASE notif[n].types = {"free"}
      BY <1>u, <2>3, <2>4, <2>5
    <2>6. CASE notif[n].types # {"free"}
      <3>1. n \in Others
        BY <2>3, <2>6 DEF Others, IInv, Kinded, Kinds
      <3>2. IsFiniteSet(Others \ {n}) /\ Cardinality(Others \ {n}) = Cardinality(Others) - 1
        BY <1>0, <3>1, FS_RemoveElement
      <3>3. Cardinality(Others') <= Cardinality(Others \ {n}) /\ Cardinality(Others') \in Nat
        BY <2>4, <3>2, FS_Subset, FS_CardinalityType
      <3> QED BY <1>0, <1>g, <2>3, <2>6, <3>2, <3>3
    <2> QED BY <2>5, <2>6
  <1>4. CASE Notify
    <2>1. Others' \subseteq Others
      BY <1>4, CallFact DEF Others
    <2> QED BY <1>4, <1>u, <2>1 DEF Notify
  <1>5. CASE FreeSelf
    <2>1. \A n \in Prop : n \in ToSet(props[Top.obj]) \/ notif'[n] = notif[n]
      BY <1>5, FreeSelfFact
    <2>2. \A n \in ToSet(props[Top.obj]) : notif'[n].status = "freed"
      BY <1>5, FreeSelfFact
    <2>3. Others' \subseteq Others
      BY <2>1, <2>2 DEF Others
    <2> QED BY <1>5, <1>u, <2>3 DEF FreeSelf
  <1>6. CASE UNCHANGED <<notif, notifiers>>
    BY <1>6, <1>u DEF Others
  <1> QED BY <1>0, <1>1, <1>2, <1>3, <1>4, <1>5, <1>6
          DEF StepCases, TalAlloc, StealTo, Starts, TalResize, Tells, Resumes,
              FreeChild
-----------------------------------------------------------------------------
(* The theorems *)

\* The invariant holds at the start.
LEMMA InitHolds ==
  ASSUME Init
  PROVE  IInv
  <1> DEFINE Q == Obj \cup {Root}
  <1>1. state = [o \in Obj |-> "fresh"] /\ notif = [n \in Prop |-> Unused]
    BY DEF Init
  <1>2. /\ parent = [o \in Obj |-> Root] /\ kids = [o \in Q |-> <<>>]
        /\ props = [o \in Q |-> <<>>] /\ notifiers = 0 /\ stack = <<>>
    BY DEF Init
  <1>3. Unused \in Notifier /\ Unused.status = "fresh" /\ Unused.ran = 0
    BY DEF Unused, Notifier
  <1>4. /\ notif \in [Prop -> Notifier]
        /\ \A n \in Prop : notif[n].status = "fresh" /\ notif[n].ran = 0
    BY <1>1, <1>3
  <1>5. state \in [Obj -> {"fresh", "live", "dying", "freed"}] /\ Allocated = {}
    BY <1>1 DEF Allocated
  <1>6. TypeOK
    <2>1. <<>> \in Seq(Obj) /\ <<>> \in Seq(Prop) /\ <<>> \in Seq(Frame)
      BY EmptySeq
    <2>2. /\ parent \in [Obj -> Q] /\ kids \in [Q -> Seq(Obj)] /\ props \in [Q -> Seq(Prop)]
          /\ notifiers \in Nat /\ stack \in Seq(Frame)
      BY <1>2, <2>1
    <2> QED BY <1>4, <1>5, <2>2 DEF TypeOK, Frame
  <1>7. \A o \in Q : /\ kids[o] = <<>> /\ props[o] = <<>> /\ ToSet(kids[o]) = {}
                     /\ ToSet(props[o]) = {} /\ IsInjective(kids[o]) /\ IsInjective(props[o])
    BY <1>2, EmptySet
  <1>8. Lists
    BY <1>1, <1>7 DEF Lists
  <1>9. NoCycle /\ Known
    BY <1>5 DEF NoCycle, Known
  <1>10. Owned
    BY <1>7 DEF Owned
  <1>11. DOMAIN stack = {}
    BY <1>2
  <1>12. Frames
    BY <1>11 DEF Frames
  <1>13. Ran
    BY <1>4, <1>7, <1>11 DEF Ran
  <1>14. Kinded
    BY <1>4 DEF Kinded
  <1>15. NotifiersCounted
    <2>1. {n \in Prop : notif[n].status = "set" /\ "del_child" \in notif[n].types} = {}
      BY <1>4
    <2>2. Cardinality({n \in Prop : notif[n].status = "set" /\ "del_child" \in notif[n].types}) = 0
      BY <2>1, FS_EmptySet
    <2> QED BY <1>2, <2>2 DEF NotifiersCounted
  <1> QED BY <1>6, <1>8, <1>9, <1>10, <1>12, <1>13, <1>14, <1>15 DEF IInv

\* The invariant is preserved when nothing happens.
LEMMA Stutter ==
  ASSUME IInv, UNCHANGED vars
  PROVE  IInv'
  <1>0. UNCHANGED <<state, parent, kids, props, notif, notifiers, stack>>
    BY DEF vars
  <1>1. TypeOK'
    BY <1>0 DEF IInv, TypeOK
  <1>2. Allocated' = Allocated /\ Node' = Node
    BY <1>0 DEF Allocated, Node
  <1>3. Lists' /\ NoCycle' /\ Known'
    BY <1>0, <1>2 DEF IInv, Lists, NoCycle, Known
  <1>4. Owned'
    BY <1>0, <1>2 DEF IInv, Owned
  <1>5. Frames'
    <2>1. NotifKeep
      BY <1>0 DEF NotifKeep
    <2>2. \A i \in DOMAIN stack : Carry(i)
      BY <1>0, FrameFact DEF Carry
    <2> QED BY <1>0, <2>1, <2>2, FramesKeep
  <1>6. Ran'
    BY <1>0, RanKeep
  <1>7. Kinded' /\ NotifiersCounted'
    BY <1>0 DEF IInv, Kinded, NotifiersCounted
  <1> QED BY <1>1, <1>3, <1>4, <1>5, <1>6, <1>7 DEF IInv

\* The invariant holds of every behaviour, for any number of objects,
\* notifiers and nested calls of tal_free.
THEOREM Inductive == Spec => []IInv
  <1>1. Init => IInv
    BY InitHolds
  <1>2. IInv /\ [Next]_vars => IInv'
    <2>1. IInv /\ Next => IInv'
      <3> SUFFICES ASSUME IInv, Next PROVE IInv'
        OBVIOUS
      <3>1. TypeOK' /\ Lists' /\ NoCycle' /\ Known'
        BY TypeStep, ListsStep, NoCycleStep, KnownStep
      <3>2. Owned' /\ Frames' /\ Ran'
        BY OwnedStep, FramesStep, RanStep
      <3>3. Kinded' /\ NotifiersCounted'
        BY KindedStep, CountedStep
      <3> QED BY <3>1, <3>2, <3>3 DEF IInv
    <2>2. IInv /\ UNCHANGED vars => IInv'
      BY Stutter
    <2> QED BY <2>1, <2>2
  <1> QED BY <1>1, <1>2, PTL DEF Spec

\* The fields of tal_hdr, children and notifier keep their types, and
\* tal_del_notifier_ never takes the count of notifiers below 0.
THEOREM TypeCorrect == Spec => []TypeOK
  <1>1. IInv => TypeOK
    BY DEF IInv
  <1> QED BY <1>1, Inductive, PTL

\* What tal_check looks for, at every point where a callback can call tal: a
\* live object is in the list of its parent, once, below an allocated object,
\* and the tree has no cycle, whatever is stolen, resized and freed.
THEOREM TreeCorrect == Spec => []TreeOK
  <1>1. IInv => TreeOK
    BY TreeLemma DEF IInv
  <1> QED BY <1>1, Inductive, PTL

\* del_tree and notify go on, after a callback, with an object and a property
\* that are still there, unless a notifier was deleted in its own callback,
\* which tal.h:253 does not rule out: no destructor, whatever it does, makes
\* notify read freed memory at tal.c:228.
THEOREM FramesCorrect == Spec => []FramesLive
  <1>1. IInv => FramesLive
    BY DEF IInv, Frames, Sound, FramesLive, Destroys
  <1> QED BY <1>1, Inductive, PTL

\* A destructor runs once, before its object is freed, and never for an
\* object that is not being destroyed, whatever destructors allocate, add,
\* delete, move and free.
THEOREM DestructorsCorrect == Spec => []DestructorsOnce
  <1>1. IInv => DestructorsOnce
    <2> SUFFICES ASSUME IInv, NEW n \in Prop
                 PROVE  /\ notif[n].ran <= 1
                        /\ notif[n].status = "freed" /\ "free" \in notif[n].types
                             /\ ~notif[n].late => notif[n].ran = 1
                        /\ \A o \in Obj : n \in ToSet(props[o]) /\ notif[n].ran = 1 =>
                             state[o] = "dying"
      BY DEF DestructorsOnce
    <2>1. notif[n].ran <= 1 /\ (notif[n].status = "freed" => Served(n))
      BY DEF IInv, Ran
    <2>2. ASSUME NEW o \in Obj, n \in ToSet(props[o]), notif[n].ran = 1
          PROVE  state[o] = "dying"
      <3>1. o \in Allocated
        <4> SUFFICES ASSUME o \notin Allocated PROVE FALSE
          OBVIOUS
        <4>1. props[o] = <<>>
          BY DEF IInv, Owned
        <4> QED BY <2>2, <4>1, EmptySet
      <3>2. state[o] # "live"
        <4> SUFFICES ASSUME state[o] = "live" PROVE FALSE
          OBVIOUS
        <4>1. Waiting(n)
          BY <2>2 DEF IInv, Ran
        <4> QED BY <2>2, <4>1 DEF Waiting
      <3> QED BY <3>1, <3>2 DEF Allocated
    <2> QED BY <2>1, <2>2 DEF Served
  <1> QED BY <1>1, Inductive, PTL

\* The count of notifiers that lets tal_alloc_, tal_free, tal_steal_ and
\* tal_resize_ skip notify is never less than the number of those to notify.
THEOREM NotifiersCorrect == Spec => []NotifiersCounted
  <1>1. IInv => NotifiersCounted
    BY DEF IInv
  <1> QED BY <1>1, Inductive, PTL
=============================================================================
