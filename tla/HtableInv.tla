----------------------------- MODULE HtableInv -----------------------------
(***************************************************************************)
(* The inductive invariant of Htable, and what its steps are to the bag.   *)
(***************************************************************************)
EXTENDS Htable

\* A struct htable: its fields, the bits that were taken out of the buckets,
\* and the perfect bit among them.
Words(t) ==
  /\ t = [bits |-> t.bits, perfect |-> t.perfect, elems |-> t.elems,
          deleted |-> t.deleted, locked |-> t.locked, mask |-> t.mask,
          common |-> t.common, table |-> t.table, heap |-> t.heap]
  /\ t.bits \in 0 .. MaxBits /\ t.perfect \in Bit /\ t.heap \in BOOLEAN
  /\ t.elems \in Nat /\ t.deleted \in Nat /\ t.locked \in Nat
  /\ t.table \in [Buckets(t) -> Word]
  /\ t.mask \in Word /\ t.common \subseteq t.mask /\ PerfectMask(t) \subseteq t.mask

\* The bits that an entry has in place of the common ones, k buckets after
\* the one its hash h selects.
Mark(t, h, k) == HashBits(t, h) \cup (IF k = 0 THEN PerfectMask(t) ELSE {})

\* Bucket i, k places after that of the hash of the pointer in it, has the
\* bits that lookup expects there.
At(t, i, k) ==
  LET p == Raw(t, t.table[i]) IN
  /\ p \in Ptr
  /\ i = Probe(t, hash[p], k)
  /\ Extra(t, t.table[i]) = Mark(t, hash[p], k)

\* No bucket that lookup passes on its way to k is empty.
Path(t, p, k) == \A j \in 0 .. k - 1 : t.table[Probe(t, hash[p], j)] # Empty

\* Every entry can be found.
Chain(t) ==
  \A i \in Used(t) : \E k \in Buckets(t) : At(t, i, k) /\ Path(t, Raw(t, t.table[i]), k)

Markers(t) == {i \in Buckets(t) : t.table[i] = Deleted}

\* elems counts the entries, and deleted is not less than the markers.
Counted(t) ==
  Cardinality(Used(t)) = t.elems /\ Cardinality(Markers(t)) <= t.deleted

\* Lookup finds every entry before an empty bucket, and the counters that
\* keep an empty bucket there are right.
Sound(t) ==
  /\ Words(t) /\ Chain(t) /\ Counted(t)
  /\ t.elems + t.deleted <= Max7(t)
  /\ ~t.heap => t.bits = 0

\* The inductive invariant.
IInv == TypeOK /\ Sound(ht)

\* double_table changes the mask while entries of the old one are left.
Loses ==
  /\ Full(ht) /\ ~MayClean(ht) /\ ht.bits < MaxBits
  /\ DoubleTable(ht).t.mask # ht.mask

\* The assertion of update_common_fix_invalid holds (htable.c:279).
NoAssert == ret.res # "assert"

\* Apart from the two defects, a double_table that loses common bits and the
\* failing assertion of htable.c:279, the table is a bag of pointers.
BagSteps ==
  [][\/ ret'.res = "assert"
     \/ Loses /\ (ht'.bits > ht.bits \/ ret'.res = "wild")
     \/ HtableBag!Next \/ UNCHANGED HtableBag!vars]_vars
=============================================================================
