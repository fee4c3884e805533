------------------------------- MODULE Htable -------------------------------
(***************************************************************************)
(* ccan/htable: an open-addressing hash table of pointers.  The bits that  *)
(* all the pointers have in common (common_mask, common_bits) are taken    *)
(* out of the buckets, and bits of the hash are kept in their place, one   *)
(* of them, the perfect bit, for "this entry is in its own bucket".  When  *)
(* a pointer comes that differs in those bits, the mask shrinks and every  *)
(* bucket is fixed up.                                                     *)
(*                                                                         *)
(* A word of uintptr_t is the set of its bits that are 1, so that & | ^ ~  *)
(* are operations on sets.  The whole htable is one record, and a function *)
(* of htable.c is an operator from records to records.                     *)
(***************************************************************************)
EXTENDS Integers, FiniteSets, FiniteSetsExt

CONSTANTS
  W,        \* the bits of a word: sizeof(uintptr_t) * CHAR_BIT
  Ptr,      \* the pointers that may be added
  Rehash,   \* the hash functions the table may be used with
  MaxBits,  \* bound: no memory for more than 2^MaxBits buckets
  MaxElems, \* bound: elements in the table
  MaxLocks  \* bound: nested locks

Bit == 0 .. W - 1
Word == SUBSET Bit

\* A bucket that was never used, and HTABLE_DELETED.
Empty == {}
Deleted == {0}

\* entry_is_valid
Valid(e) == e \notin {Empty, Deleted}

ASSUME HtableAssumption ==
  /\ W \in Nat \ {0, 1}
  /\ Ptr \subseteq Word /\ \A p \in Ptr : Valid(p)
  /\ Rehash \subseteq [Ptr -> Word] /\ Rehash # {}
  /\ MaxBits \in Nat \ {0} /\ MaxElems \in Nat /\ MaxLocks \in Nat

VARIABLES
  ht,    \* the struct htable
  hash,  \* the hash of each pointer
  ret    \* what the last call returned

vars == <<ht, hash, ret>>
-----------------------------------------------------------------------------
(* Words and buckets *)

Xor(v, w) == (v \ w) \cup (w \ v)
Shr(v, k) == {b - k : b \in {c \in v : c >= k}}

\* 1 << n
Pow2[n \in 0 .. MaxBits] == IF n = 0 THEN 1 ELSE 2 * Pow2[n - 1]

\* The number that the lowest n bits of v are.
Low(v, n) ==
  LET num[b \in 0 .. n] ==
        IF b = 0 THEN 0 ELSE num[b - 1] + (IF b - 1 \in v THEN Pow2[b - 1] ELSE 0)
  IN num[n]

NO_PERFECT_BIT == W - 1

\* get_extra_ptr_bits, get_raw_ptr, make_hval
Extra(t, e) == e \cap t.mask
Raw(t, e) == (e \ t.mask) \cup t.common
HVal(t, p, x) == (p \ t.mask) \cup x

\* 2 << perfect_bitnum is 0 for NO_PERFECT_BIT
PerfectMask(t) == {t.perfect + 1} \cap Bit

\* get_hash_ptr_bits
HashBits(t, h) == (Xor(h, Shr(h, t.bits)) \cap t.mask) \ PerfectMask(t)

Size(t) == Pow2[t.bits]
Buckets(t) == 0 .. Size(t) - 1
Used(t) == {i \in Buckets(t) : Valid(t.table[i])}

\* ht_max, ht_max_deleted
Max7(t) == (7 * Size(t)) \div 8
MaxDeleted(t) == Size(t) \div 8

\* hash_bucket, and the bucket k places after that of h.
HashBucket(t, h) == Low(h, t.bits)
Probe(t, h, k) == (HashBucket(t, h) + k) % Size(t)

\* Without memory of its own the table is the field common_bits, one empty
\* bucket.
NoTable == [i \in {0} |-> Empty]

\* htable_init
NewHtable ==
  [bits |-> 0, perfect |-> 0, elems |-> 0, deleted |-> 0, locked |-> 0,
   mask |-> Bit, common |-> Empty, table |-> NoTable, heap |-> FALSE]

Zeroed(b) == [i \in 0 .. Pow2[b] - 1 |-> Empty]

\* htable_init_sized
Sized(expect) ==
  LET b == Min({c \in 1 .. MaxBits : Max7([bits |-> c]) >= expect})
  IN [NewHtable EXCEPT !.bits = b, !.table = Zeroed(b), !.heap = TRUE]
-----------------------------------------------------------------------------
(* Lookup *)

\* How far htable_val looks: to the first empty bucket.  Without one it does
\* not end.
Reach(t, h) ==
  LET home == HashBucket(t, h)
      gaps == {k \in Buckets(t) : t.table[(home + k) % Size(t)] = Empty}
  IN IF gaps = {} THEN Size(t) ELSE Min(gaps)

\* Mutant: the perfect bit is still expected after the first bucket.
CandidatesAllPerfect(t, h) ==
  LET home == HashBucket(t, h)
      h2 == HashBits(t, h)
  IN {k \in 0 .. Reach(t, h) - 1 :
       LET e == t.table[(home + k) % Size(t)] IN
       Valid(e) /\ Extra(t, e) = h2 \cup PerfectMask(t)}

\* The places that htable_firstval and htable_nextval stop at.
Candidates(t, h) ==
  LET home == HashBucket(t, h)
      h2 == HashBits(t, h)
  IN {k \in 0 .. Reach(t, h) - 1 :
       LET e == t.table[(home + k) % Size(t)] IN
       /\ Valid(e)
       /\ Extra(t, e) = h2 \cup (IF k = 0 THEN PerfectMask(t) ELSE {})}

\* Where htable_get and htable_del find p.
Found(t, h, p) ==
  {k \in Candidates(t, h) : Raw(t, t.table[Probe(t, h, k)]) = p}
-----------------------------------------------------------------------------
(* Adding *)

\* unset_another_common_bit: d is maskdiff.
AnotherBit(t, d, p) == Max((p \cap (t.mask \ d)) \ {0})

\* A bucket of fixup_table_common
FixUp(t, d, e) == (e \ d) \cup (t.common \cap d)

\* One turn of its loop: the first entry that would look invalid needs
\* another bit.
Expose(t, d) ==
  LET lost == {i \in Used(t) : ~Valid(FixUp(t, d, t.table[i]))}
  IN IF lost = {} THEN d
     ELSE d \cup {AnotherBit(t, d, Raw(t, FixUp(t, d, t.table[Min(lost)])))}

\* The maskdiff it ends with, after at most a turn for each bit.
Exposed(t, d) ==
  LET e[n \in 0 .. W] == IF n = 0 THEN d ELSE Expose(t, e[n - 1]) IN e[W]

\* fixup_table_common
FixTable(t, maskdiff) ==
  LET d == Exposed(t, maskdiff) IN
  [t EXCEPT
    !.table = [i \in Buckets(t) |->
                IF Valid(@[i]) THEN FixUp(t, d, @[i]) ELSE @[i]],
    !.mask = @ \ d,
    !.common = @ \ d,
    !.perfect = IF PerfectMask(t) \cap d # {} THEN NO_PERFECT_BIT ELSE @]

\* The first bucket without an entry, as a distance.
Distance(t, h) ==
  LET home == HashBucket(t, h)
  IN Min({k \in Buckets(t) : ~Valid(t.table[(home + k) % Size(t)])})

\* What ht_add puts there.
Entry(t, p, h) ==
  HVal(t, p, HashBits(t, h) \cup
             (IF Distance(t, h) = 0 THEN PerfectMask(t) ELSE {}))

Place(t, p, h) ==
  [t EXCEPT !.table[Probe(t, h, Distance(t, h))] = Entry(t, p, h)]

\* ht_add, with update_common_fix_invalid for an entry that looks invalid.
HtAdd(t, p, h) ==
  IF Valid(Entry(t, p, h)) THEN Place(t, p, h)
  ELSE Place(FixTable(Place(t, p, h), {AnotherBit(t, {}, p)}), p, h)

\* A bucket of double_table's loop; wild says that a pointer was decoded that
\* nobody added, whose hash cannot be read.
ReAddBucket(prev, e) ==
  LET p == Raw(prev.t, e) IN
  CASE prev.wild \/ ~Valid(e) -> prev
    [] ~prev.wild /\ Valid(e) /\ p \notin Ptr -> [prev EXCEPT !.wild = TRUE]
    [] OTHER -> [prev EXCEPT !.t = HtAdd(prev.t, p, hash[p])]

\* Adding to t all that the buckets of old hold, in order.
ReAdd(t, old) ==
  LET add[i \in 0 .. Cardinality(DOMAIN old)] ==
        IF i = 0 THEN [t |-> t, wild |-> FALSE]
        ELSE ReAddBucket(add[i - 1], old[i - 1])
  IN add[Cardinality(DOMAIN old)]

\* Mutant: the larger table is still used as if it had its old size.
DoubledSameBits(t) ==
  [t EXCEPT !.table = Zeroed(t.bits + 1), !.heap = TRUE, !.deleted = 0]

\* double_table gets a lost perfect bit back.
Doubled(t) ==
  [t EXCEPT
    !.bits = @ + 1, !.table = Zeroed(t.bits + 1), !.heap = TRUE, !.deleted = 0,
    !.perfect = IF @ = NO_PERFECT_BIT /\ t.mask \ {0} # {}
                THEN Min(t.mask \ {0}) - 1 ELSE @]

\* double_table
DoubleTable(t) ==
  IF t.heap THEN ReAdd(Doubled(t), t.table) ELSE [t |-> Doubled(t), wild |-> FALSE]

\* A bucket of rehash_table: an entry with the perfect bit, which was read
\* once, stays.
RehashBucket(t, i, perfect) ==
  LET e == t.table[i]
      cleared == [t EXCEPT !.table[i] = Empty]
  IN CASE e = Empty \/ (Valid(e) /\ e \cap perfect # {}) -> t
       [] e = Deleted -> cleared
       [] OTHER -> HtAdd(cleared, Raw(t, e), hash[Raw(t, e)])

\* Mutant: the entries that wrapped round to bucket 0 come first.
RehashTableFrom0(t) ==
  LET done[n \in 0 .. Size(t)] ==
        IF n = 0 THEN t
        ELSE RehashBucket(done[n - 1], n - 1, PerfectMask(t))
  IN [done[Size(t)] EXCEPT !.deleted = 0]

\* rehash_table starts from the first empty bucket, because of entries that
\* wrapped round.
RehashTable(t) ==
  LET start == Min({i \in Buckets(t) : t.table[i] = Empty})
      done[n \in 0 .. Size(t)] ==
        IF n = 0 THEN t
        ELSE RehashBucket(done[n - 1], (start + n - 1) % Size(t), PerfectMask(t))
  IN [done[Size(t)] EXCEPT !.deleted = 0]

\* update_common
UpdateCommon(t, p) ==
  CASE p \cap t.mask = t.common -> t
    [] p \cap t.mask # t.common /\ t.elems = 0 ->
         [t EXCEPT !.mask = Bit, !.common = p, !.perfect = 0]
    [] OTHER -> FixTable(t, Xor(t.common, p \cap t.mask))
-----------------------------------------------------------------------------
(* The calls *)

Return(op, p, r) == ret' = [op |-> op, ptr |-> p, res |-> r]

\* The program runs on until an assertion fails or a wild pointer is used.
Running == ret.res \in {"true", "false"}

\* Mutant: deleted markers do not count.
FullOfElems(t) == t.elems + 1 > Max7(t)

\* htable_add: the table is full and has to be cleaned, or to grow.
Full(t) == t.elems + 1 + t.deleted > Max7(t)
MayClean(t) == t.deleted > MaxDeleted(t)

\* The rest of htable_add, in a table t with room.
AddTo(t, p) ==
  LET u == UpdateCommon(t, p) IN
  \/ /\ Valid(Entry(u, p, hash[p])) \/ u.elems # 0
     /\ ht' = [HtAdd(u, p, hash[p]) EXCEPT !.elems = @ + 1]
     /\ Return("add", p, "true")
  \/ /\ ~Valid(Entry(u, p, hash[p])) /\ u.elems = 0
     /\ Return("add", p, "assert")
     /\ UNCHANGED ht

HtableAdd(p) ==
  /\ Running /\ ht.locked = 0 /\ ht.elems < MaxElems
  /\ \/ ~Full(ht) /\ AddTo(ht, p)
     \/ Full(ht) /\ MayClean(ht) /\ AddTo(RehashTable(ht), p)
     \/ /\ Full(ht) /\ ~MayClean(ht) /\ ht.bits < MaxBits
        /\ LET d == DoubleTable(ht) IN
           \/ ~d.wild /\ AddTo(d.t, p)
           \/ d.wild /\ Return("add", p, "wild") /\ UNCHANGED ht
     \/ /\ Full(ht) /\ ~MayClean(ht)
        /\ Return("add", p, "false")
        /\ UNCHANGED ht
  /\ UNCHANGED hash

\* Mutant: no deleted marker is left.
DelvalNoMarker(t, i) == [t EXCEPT !.elems = @ - 1, !.table[i] = Empty]

\* Mutant: the next entry is moved up instead of leaving a marker.
DelvalShift(t, i) ==
  [t EXCEPT !.elems = @ - 1, !.table[i] = t.table[(i + 1) % Size(t)],
            !.table[(i + 1) % Size(t)] = Empty]

\* htable_delval
Delval(t, i) ==
  IF t.table[(i + 1) % Size(t)] # Empty
  THEN [t EXCEPT !.elems = @ - 1, !.table[i] = Deleted, !.deleted = @ + 1]
  ELSE [t EXCEPT !.elems = @ - 1, !.table[i] = Empty]

\* htable_del
HtableDel(p) ==
  /\ Running
  /\ LET at == Found(ht, hash[p], p) IN
     \/ /\ at # {}
        /\ ht' = Delval(ht, Probe(ht, hash[p], Min(at)))
        /\ Return("del", p, "true")
     \/ /\ at = {}
        /\ Return("del", p, "false")
        /\ UNCHANGED ht
  /\ UNCHANGED hash

\* htable_first, htable_next or htable_pick, then htable_delval.
HtableDelval(i) ==
  /\ Running
  /\ ht' = Delval(ht, i)
  /\ Return("del", Raw(ht, ht.table[i]), "true")
  /\ UNCHANGED hash

HtableClear ==
  /\ Running
  /\ ht' = NewHtable
  /\ Return("clear", Empty, "true")
  /\ UNCHANGED hash

\* htable_copy, to go on with the copy.
HtableCopy ==
  /\ Running
  /\ ht' = [ht EXCEPT !.locked = 0, !.heap = TRUE]
  /\ UNCHANGED <<hash, ret>>

HtableLock ==
  /\ Running /\ ht.locked < MaxLocks
  /\ ht' = [ht EXCEPT !.locked = @ + 1]
  /\ UNCHANGED <<hash, ret>>

HtableUnlock ==
  /\ Running /\ ht.locked # 0
  /\ ht' = [ht EXCEPT !.locked = @ - 1]
  /\ UNCHANGED <<hash, ret>>

Init ==
  /\ ht \in {NewHtable} \cup {Sized(n) : n \in 0 .. Max7([bits |-> MaxBits])}
  /\ hash \in Rehash
  /\ ret = [op |-> "init", ptr |-> Empty, res |-> "true"]

Next ==
  \/ \E p \in Ptr : HtableAdd(p) \/ HtableDel(p)
  \/ \E i \in Used(ht) : HtableDelval(i)
  \/ HtableClear \/ HtableCopy \/ HtableLock \/ HtableUnlock

Spec == Init /\ [][Next]_vars
-----------------------------------------------------------------------------
(* Properties *)

\* The type invariant: the fields of struct htable, and a table of as many
\* words as bits says (htable.h:24).
TypeOK ==
  /\ ht.bits \in 0 .. MaxBits /\ ht.perfect \in Bit
  /\ ht.elems \in 0 .. MaxElems /\ ht.deleted \in Nat /\ ht.locked \in 0 .. MaxLocks
  /\ ht.mask \in Word /\ ht.common \in SUBSET ht.mask
  /\ ht.table \in [Buckets(ht) -> Word] /\ ht.heap \in BOOLEAN
  /\ hash \in Rehash

\* htable_check: the pointers decoded from the table were added, each of
\* them finds itself by its hash, and elems counts them.
HtableCheck ==
  /\ \A i \in Used(ht) :
       LET p == Raw(ht, ht.table[i]) IN
       p \in Ptr /\ \E k \in Found(ht, hash[p], p) : TRUE
  /\ Cardinality(Used(ht)) = ht.elems

\* htable_val stops at an empty bucket: however elements come and go there
\* is one, since the table is never filled beyond ht_max and deleted never
\* counts less than the markers (htable.c:358).
RoomToProbe ==
  LET markers == {i \in Buckets(ht) : ht.table[i] = Deleted} IN
  /\ Cardinality(markers) <= ht.deleted
  /\ ht.elems + ht.deleted <= Max7(ht)
  /\ \E i \in Buckets(ht) : ht.table[i] = Empty

\* Number of copies of each pointer in the table.
Bag == [p \in Ptr |-> Cardinality({i \in Used(ht) : Raw(ht, ht.table[i]) = p})]

HtableBag == INSTANCE HtableBag WITH bag <- Bag

\* Whatever is cleaned, doubled, fixed up or deleted, the table holds
\* exactly what was added and not deleted, htable_del finds it, and
\* htable_add fails only for want of memory (htable.h:155, htable.h:167).
ImplementsBag == HtableBag!Spec

\* "Note that iteration is safe over htable_del" (htable.h:171): a call that
\* adds nothing moves no entry to another bucket.
IterationSafe ==
  [][ht'.elems <= ht.elems =>
       /\ Used(ht') \subseteq Used(ht)
       /\ \A i \in Used(ht') : Raw(ht', ht'.table[i]) = Raw(ht, ht.table[i])]_vars

\* No pointer is decoded that nobody added: the table's bits are put back as
\* they were (htable.c:41, htable.c:333).
NoWildPointer == ret.res # "wild"
=============================================================================
