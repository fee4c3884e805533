---------------------------- MODULE NtdbProofs ----------------------------
(***************************************************************************)
(* What holds of ntdb transactions whatever dies, fails or crashes, for    *)
(* any number of processes, pages and recovery areas: Safe is inductive,   *)
(* and with it the types, the durability of a commit and the stability of  *)
(* what is read under a lock.                                              *)
(***************************************************************************)
EXTENDS NtdbInv, FiniteSetTheorems, WellFoundedInduction, TLAPS

(* Cells *)

LEMMA CellFacts ==
  /\ \A p, q : Data(p) = Data(q) => p = q
  /\ \A a, b : Head(a) = Head(b) => a = b
  /\ \A a, b : Body(a) = Body(b) => a = b
  /\ \A p, a : Data(p) # Head(a) /\ Data(p) # Body(a) /\ Head(p) # Body(a)
  /\ \A a : /\ Size # Data(a) /\ Size # Head(a) /\ Size # Body(a)
            /\ Recovery # Data(a) /\ Recovery # Head(a) /\ Recovery # Body(a)
  /\ Size # Recovery
  BY DEF Data, Head, Body, Size, Recovery

LEMMA KindFacts ==
  /\ Size \in Cell /\ Recovery \in Cell
  /\ HeaderCell \cap DataCell = {} /\ HeaderCell \cap HeadCell = {}
  /\ HeaderCell \cap BodyCell = {} /\ DataCell \cap HeadCell = {}
  /\ DataCell \cap BodyCell = {} /\ HeadCell \cap BodyCell = {}
  /\ DataCell \subseteq Cell /\ HeadCell \subseteq Cell /\ BodyCell \subseteq Cell
  /\ \A a : Head(a) \in Cell <=> a \in Area
  /\ \A a : Body(a) \in Cell <=> a \in Area
  /\ \A a : Data(a) \in Cell <=> a \in Page
  /\ Size \in HeaderCell /\ Recovery \in HeaderCell
  /\ \A a : Head(a) \in HeadCell <=> a \in Area
  /\ \A a : Body(a) \in BodyCell <=> a \in Area
  /\ \A a : Data(a) \in DataCell <=> a \in Page
  BY CellFacts DEF Cell, HeaderCell, DataCell, HeadCell, BodyCell

LEMMA CellFinite == IsFiniteSet(DataCell \cup HeadCell)
  <1>1. IsFiniteSet(Page) /\ IsFiniteSet(Area)
    BY FS_Interval, NtdbAssumption DEF Page, Area
  <1>2. IsFiniteSet(DataCell)
    <2> DEFINE f == [p \in Page |-> Data(p)]
    <2>1. f \in Surjection(Page, DataCell)
      BY DEF Surjection, DataCell
    <2> QED BY <1>1, <2>1, FS_Surjection
  <1>3. IsFiniteSet(HeadCell)
    <2> DEFINE f == [p \in Area |-> Head(p)]
    <2>1. f \in Surjection(Area, HeadCell)
      BY DEF Surjection, HeadCell
    <2> QED BY <1>1, <2>1, FS_Surjection
  <1> QED BY <1>2, <1>3, FS_Union

\* A non-empty set of numbers has a least element: the least-number
\* principle for a set, so that it needs no operator.
LEMMA LeastIn ==
  ASSUME NEW R, IsWellFoundedOn(R, Nat),
         \A x, y \in Nat : y < x => <<y, x>> \in R,
         NEW T, T \subseteq Nat, T # {}
  PROVE  \E x \in T : \A y \in T : x <= y
  <1>1. PICK x \in T : \A y \in T : ~(<<y, x>> \in R)
    BY WFMin, Zenon
  <1>2. \A y \in T : ~(y < x)
    BY <1>1
  <1> QED BY <1>2

LEMMA LeastNat ==
  ASSUME NEW T, T \subseteq Nat, T # {}
  PROVE  \E x \in T : \A y \in T : x <= y
  <1>1. \A x, y \in Nat : y < x => <<y, x>> \in OpToRel(<, Nat)
    BY DEF OpToRel
  <1> QED BY <1>1, NatLessThanWellFounded, LeastIn, Zenon

LEMMA FirstFact ==
  ASSUME NEW cells, cells \subseteq DataCell \cup HeadCell, cells # {}
  PROVE  First(cells) \in cells
  <1>1. \A c \in cells : Where(c) \in Nat
     BY NtdbAssumption DEF Where, DataCell, HeadCell, Data, Head, Page, Area
  <1>2. PICK n \in {Where(c) : c \in cells} : \A m \in {Where(c) : c \in cells} : n <= m
     BY <1>1, LeastNat
  <1>3. \E c \in cells : \A d \in cells : Where(c) <= Where(d)
     BY <1>2
  <1> QED BY <1>3 DEF First
-----------------------------------------------------------------------------
(* What is written is of the right kind *)

LEMMA FileFacts ==
  ASSUME StoreTyped
  PROVE  /\ file[Size] \in 0 .. NAreas /\ file[Recovery] \in 0 .. NAreas
         /\ \A a \in Area : /\ file[Head(a)] \in HeadRecord
                            /\ Typed(Body(a), file[Body(a)])
         /\ \A c \in Cell : Typed(c, file[c])
  BY KindFacts DEF StoreTyped, FileTyped, Typed

LEMMA BodyFacts ==
  ASSUME StoreTyped, NEW a \in Area
  PROVE  /\ DOMAIN file[Body(a)] \subseteq DataCell \cup HeadCell
         /\ \A c \in DOMAIN file[Body(a)] : Typed(c, file[Body(a)][c])
  BY FileFacts, KindFacts DEF Typed

LEMMA RecoveryAreaFacts ==
  ASSUME StoreTyped
  PROVE  RecoveryArea \in 0 .. NAreas
  BY FileFacts, NtdbAssumption DEF RecoveryArea

LEMMA RecordTyped ==
  ASSUME NEW r \in HeadRecord, NEW e \in 0 .. NAreas
  PROVE  [r EXCEPT !.magic = "invalid", !.eof = e] \in HeadRecord
  <1>1. [r EXCEPT !.magic = "invalid"] \in HeadRecord
    BY DEF HeadRecord
  <1>2. \A q \in HeadRecord : [q EXCEPT !.eof = e] \in HeadRecord
    BY NtdbAssumption DEF HeadRecord
  <1>3. [r EXCEPT !.magic = "invalid", !.eof = e] = [[r EXCEPT !.magic = "invalid"] EXCEPT !.eof = e]
    OBVIOUS
  <1> QED BY <1>1, <1>2, <1>3

LEMMA PutTyped ==
  ASSUME StoreTyped, NEW f, Put(f), \A c \in DOMAIN f \cap Cell : Typed(c, f[c])
  PROVE  StoreTyped'
  <1>1. \A c \in BodyCell : Typed(c, Torn)
    BY KindFacts DEF Typed, Torn
  <1>2. \A c \in Cell : \A v : v \in disk'[c] <=>
          v \in disk[c] \/ (c \in DOMAIN f /\ v \in Leaves(c, f[c]))
    BY DEF Put
  <1>3. \A c \in Cell : file'[c] = IF c \in DOMAIN f THEN f[c] ELSE file[c]
    BY DEF Put
  <1>4. FileTyped'
    BY <1>1, <1>2, <1>3 DEF FileTyped, Leaves, StoreTyped
  <1> QED BY <1>4 DEF StoreTyped, Put

LEMMA Put1Typed ==
  ASSUME StoreTyped, NEW c, NEW v, Put1(c, v), c \in Cell => Typed(c, v)
  PROVE  StoreTyped'
  BY PutTyped DEF Put1

LEMMA PutFacts ==
  ASSUME NEW f, Put(f)
  PROVE  \A d \in Cell : file'[d] = IF d \in DOMAIN f THEN f[d] ELSE file[d]
  BY DEF Put

\* What Put1 leaves in the file.
LEMMA Put1Facts ==
  ASSUME NEW c, NEW v, Put1(c, v)
  PROVE  \A d \in Cell : file'[d] = IF d = c THEN v ELSE file[d]
  BY DEF Put1, Put

LEMMA SyncTyped ==
  ASSUME StoreTyped, Sync
  PROVE  StoreTyped'
  BY DEF FileTyped, StoreTyped, Sync

LEMMA StoreSame ==
  ASSUME StoreTyped, UNCHANGED store
  PROVE  StoreTyped'
  BY DEF StoreTyped, FileTyped, store

LEMMA ErrorTyped ==
  ASSUME StoreTyped, budget \in Budget, IoError
  PROVE  StoreTyped' /\ budget' \in Budget
  BY StoreSame DEF IoError, Budget

LEMMA ImageFacts ==
  ASSUME NEW f \in Images
  PROVE  f = [c \in Cell |-> f[c]] /\ \A c \in Cell : f[c] \in disk[c]
  <1>1. PICK h \in Left(HeaderCell), d \in Left(DataCell),
             r \in Left(HeadCell), b \in Left(BodyCell) : f = Joined(h, d, r, b)
    BY SMT DEF Images
  <1>2. \A c \in Cell : f[c] \in disk[c]
    <2>1. \A c \in HeaderCell : f[c] = h[c] /\ h[c] \in disk[c]
      BY <1>1, KindFacts DEF Cell, Left, Joined
    <2>2. \A c \in DataCell : f[c] = d[c] /\ d[c] \in disk[c]
      BY <1>1, KindFacts DEF Cell, Left, Joined
    <2>3. \A c \in HeadCell : f[c] = r[c] /\ r[c] \in disk[c]
      BY <1>1, KindFacts DEF Cell, Left, Joined
    <2>4. \A c \in BodyCell : f[c] = b[c] /\ b[c] \in disk[c]
      BY <1>1, KindFacts DEF Cell, Left, Joined
    <2> QED BY <2>1, <2>2, <2>3, <2>4 DEF Cell
  <1>3. f = [c \in Cell |-> f[c]]
    <2> DEFINE e(c) == CASE c \in HeaderCell -> h[c] [] c \in DataCell -> d[c]
                         [] c \in HeadCell -> r[c] [] c \in BodyCell -> b[c]
    <2>1. f = [c \in Cell |-> e(c)]
      BY <1>1 DEF Joined
    <2> HIDE DEF e
    <2> QED BY <2>1
  <1> QED BY <1>2, <1>3

LEMMA NoTxnTyped ==
  /\ TxnTyped(NoTxn) /\ TxnShape(NoTxn)
  /\ \A e \in 0 .. NAreas : TxnTyped([NoTxn EXCEPT !.eof = e])
                            /\ TxnShape([NoTxn EXCEPT !.eof = e])
  BY NtdbAssumption DEF TxnTyped, TxnShape, NoTxn, NoBlocks

LEMMA NoTxnFacts ==
  /\ NoTxn.magic = 0 /\ DOMAIN NoTxn.blocks = {} /\ NoTxn.null = TRUE
  /\ NoTxn.prepared = FALSE
  /\ \A e : LET t == [NoTxn EXCEPT !.eof = e] IN
       t.magic = 0 /\ DOMAIN t.blocks = {} /\ t.null = TRUE /\ t.prepared = FALSE
  BY DEF NoTxn, NoBlocks

\* A cancel only counts levels, and remembers that there was one.
LEMMA CancelFacts ==
  ASSUME TxnShape(txn), NEW p, CancelTxn(p)
  PROVE  /\ txn'.prepared = txn.prepared /\ txn'.null = txn.null
         /\ txn'.blocks = txn.blocks /\ txn'.recovery = txn.recovery
         /\ txn'.magic = txn.magic
         /\ \/ UNCHANGED pc
            \/ pc' = [pc EXCEPT ![p] = CancelPc(txn.magic)] /\ UNCHANGED txn
  BY DEF TxnShape, CancelTxn, Cancelling, Goto

LEMMA CancelTyped ==
  ASSUME TxnTyped(txn), TxnShape(txn), NEW p, CancelTxn(p)
  PROVE  TxnTyped(txn)' /\ TxnShape(txn)'
  <1>1. CASE txn.nesting # 0 /\ txn' = [txn EXCEPT !.nesting = @ - 1, !.error = TRUE]
    <2>1. TxnShape(txn)' /\ txn'.nesting = txn.nesting - 1 /\ txn'.error = TRUE
      BY <1>1 DEF TxnShape
    <2>2. /\ txn'.prepared = txn.prepared /\ txn'.null = txn.null
          /\ txn'.blocks = txn.blocks /\ txn'.recovery = txn.recovery
          /\ txn'.magic = txn.magic /\ txn'.eof = txn.eof
      BY <1>1 DEF TxnShape
    <2>3. txn'.nesting \in Nat
      BY <1>1, <2>1 DEF TxnTyped
    <2> QED BY <2>1, <2>2, <2>3 DEF TxnTyped
  <1>2. CASE UNCHANGED txn
    BY <1>2 DEF TxnTyped, TxnShape
  <1> QED BY <1>1, <1>2 DEF CancelTxn

LEMMA WriteFacts ==
  ASSUME TxnShape(txn), NEW p, NEW pg, NEW v, Write(p, pg, v)
  PROVE  /\ txn'.prepared = txn.prepared /\ txn'.magic = txn.magic
         /\ \/ /\ txn'.blocks = txn.blocks /\ txn'.null = txn.null
               /\ txn'.recovery = txn.recovery
            \/ /\ ~txn.prepared
               /\ txn'.blocks = [c \in DOMAIN txn.blocks \cup {Data(pg)} |->
                                  IF c = Data(pg) THEN v ELSE txn.blocks[c]]
               /\ txn'.recovery = IF pg = 1 /\ Data(1) \notin DOMAIN txn.blocks
                                  THEN file[Recovery] ELSE txn.recovery
  <1>1. CASE txn' = [txn EXCEPT !.error = TRUE]
    BY <1>1 DEF TxnShape
  <1>2. CASE txn' # [txn EXCEPT !.error = TRUE]
    <2> DEFINE bb == [c \in DOMAIN txn.blocks \cup {Data(pg)} |->
                       IF c = Data(pg) THEN v ELSE txn.blocks[c]]
               rr == IF pg = 1 /\ Data(1) \notin DOMAIN txn.blocks
                     THEN file[Recovery] ELSE txn.recovery
    <2>1. ~txn.prepared /\ txn' = [txn EXCEPT !.null = FALSE, !.blocks = bb, !.recovery = rr]
      BY <1>2 DEF Write
    <2> HIDE DEF bb, rr
    <2>2. txn'.prepared = txn.prepared /\ txn'.magic = txn.magic /\ txn'.blocks = bb /\ txn'.recovery = rr
      BY <2>1 DEF TxnShape
    <2> QED BY <2>1, <2>2 DEF bb, rr
  <1> QED BY <1>1, <1>2

\* The header in a block is the one in the file.
LEMMA WriteHeader ==
  ASSUME TxnShape(txn), NEW p, NEW pg, NEW v, Write(p, pg, v),
         Data(1) \in DOMAIN txn.blocks => txn.recovery = file[Recovery],
         Data(1) \in DOMAIN txn'.blocks
  PROVE  txn'.recovery = file[Recovery]
  <1> DEFINE bb == [c \in DOMAIN txn.blocks \cup {Data(pg)} |->
                     IF c = Data(pg) THEN v ELSE txn.blocks[c]]
             rr == IF pg = 1 /\ Data(1) \notin DOMAIN txn.blocks
                   THEN file[Recovery] ELSE txn.recovery
  <1>1. \/ txn'.blocks = txn.blocks /\ txn'.recovery = txn.recovery
        \/ txn'.blocks = bb /\ txn'.recovery = rr
    BY WriteFacts
  <1>2. Data(1) \in DOMAIN bb => pg = 1 \/ Data(1) \in DOMAIN txn.blocks
    BY CellFacts
  <1>3. pg = 1 \/ Data(1) \in DOMAIN txn.blocks => rr = file[Recovery]
    OBVIOUS
  <1> HIDE DEF bb, rr
  <1> QED BY <1>1, <1>2, <1>3

LEMMA ExpandFacts ==
  ASSUME StoreTyped, NEW p, Expand(p)
  PROVE  \/ /\ file[Size] + 1 \in Area /\ area' = file[Size] + 1
            /\ pc' = [pc EXCEPT ![p] = "point"]
            /\ file'[Size] = file[Size] + 1
            /\ file'[Head(area')].magic = "fill"
            /\ \A c \in Cell \ {Size, Head(area'), Body(area')} : file'[c] = file[c]
            /\ UNCHANGED budget
         \/ /\ UNCHANGED <<store, area>> /\ PrepareFails(p, txn.magic)
            /\ IoError \/ UNCHANGED budget
  <1> DEFINE n == file[Size] + 1
             need == Cardinality(Changed(txn.blocks))
             new(cap) == [c \in {Size, Head(n), Body(n)} |->
                           IF c = Size THEN n
                           ELSE IF c = Head(n) THEN [Fill EXCEPT !.cap = cap] ELSE Torn]
  <1>1. ASSUME NEW cap, Put(new(cap)), n \in Area, area' = n
        PROVE  /\ file'[Size] = n
               /\ file'[Head(area')].magic = "fill"
               /\ \A c \in Cell \ {Size, Head(area'), Body(area')} : file'[c] = file[c]
    <2>1. \A d \in Cell : file'[d] = IF d \in DOMAIN new(cap) THEN new(cap)[d] ELSE file[d]
      BY <1>1, PutFacts
    <2>2. [Fill EXCEPT !.cap = cap].magic = "fill"
      BY DEF Fill
    <2>3. file'[Head(n)] = [Fill EXCEPT !.cap = cap]
      BY <1>1, <2>1, CellFacts, KindFacts
    <2> QED BY <1>1, <2>1, <2>2, <2>3, CellFacts, KindFacts
  <1> QED BY <1>1 DEF Expand, Goto, IoError

LEMMA RecordFacts ==
  ASSUME StoreTyped, area \in Area, NEW p, Record(p)
  PROVE  \/ /\ pc' = [pc EXCEPT ![p] = "sync1"] /\ UNCHANGED budget
            /\ file'[Head(area)].magic = "invalid"
            /\ file'[Body(area)] = [d \in Changed(txn.blocks) |-> file[d]]
            /\ \A c \in Cell \ {Head(area), Body(area)} : file'[c] = file[c]
         \/ UNCHANGED store /\ IoError /\ PrepareFails(p, txn.magic)
  <1> DEFINE new == [c \in {Head(area), Body(area)} |->
                 IF c = Body(area) THEN [d \in Changed(txn.blocks) |-> file[d]]
                 ELSE [file[c] EXCEPT !.magic = "invalid", !.eof = txn.eof]]
  <1>1. ASSUME Put(new)
        PROVE  /\ file'[Head(area)].magic = "invalid"
               /\ file'[Body(area)] = [d \in Changed(txn.blocks) |-> file[d]]
               /\ \A c \in Cell \ {Head(area), Body(area)} : file'[c] = file[c]
    <2>1. \A d \in Cell : file'[d] = IF d \in DOMAIN new THEN new[d] ELSE file[d]
      BY <1>1, PutFacts
    <2>2. file'[Head(area)] = [file[Head(area)] EXCEPT !.magic = "invalid", !.eof = txn.eof]
      BY <2>1, CellFacts, KindFacts
    <2>3. "magic" \in DOMAIN file[Head(area)]
      BY FileFacts DEF HeadRecord
    <2>4. file'[Head(area)].magic = "invalid"
      BY <2>2, <2>3
    <2> QED BY <2>1, <2>4, CellFacts, KindFacts
  <1> QED BY <1>1 DEF Record, Goto, IoError

LEMMA UnlockTyped ==
  ASSUME TypeOK, TxnShape(txn), NEW p \in Proc, Unlock(p)
  PROVE  /\ TxnTyped(txn)' /\ TxnShape(txn)'
         /\ tlock' \in Proc \cup {NULL} /\ olock' \in Proc \cup {NULL}
         /\ rd' \subseteq Proc /\ wr' \in Proc \cup {NULL}
         /\ area' \in 0 .. NAreas /\ todo' \subseteq DataCell \cup HeadCell
  <1>1. txn' = NoTxn \/ txn' = txn
    BY DEF Unlock
  <1>2. TxnTyped(txn)' /\ TxnShape(txn)'
    BY <1>1, NoTxnTyped DEF TypeOK, TxnTyped, TxnShape
  <1> QED BY <1>2, NtdbAssumption DEF Unlock, TypeOK

LEMMA TypeStep ==
  ASSUME NEW p \in Proc, Safe, Calls(p) \/ Steps(p) \/ Die(p)
  PROVE  Typing'
  <1> USE NtdbAssumption DEF TypeOK, PcLabel, Goal, locks, Budget, Typing
  <1>0. Typing /\ LockInv
    BY DEF Safe
  <1> USE <1>0
  <1>1. ASSUME Open(p) PROVE Typing'
    <2>1. StoreTyped' /\ UNCHANGED txn
      BY <1>1, StoreSame DEF Open
    <2> QED
      BY <1>1, <2>1 DEF Open, Goto, StoreTyped, TxnTyped, TxnShape
  <1>2. ASSUME LockHash(p) PROVE Typing'
    <2>1. StoreTyped' /\ UNCHANGED txn
      BY <1>2, StoreSame DEF LockHash
    <2> QED
      BY <1>2, <2>1 DEF LockHash, Goto, GoFor, StoreTyped, TxnTyped, TxnShape
  <1>3. ASSUME UnlockHash(p) PROVE Typing'
    <2>1. StoreTyped' /\ UNCHANGED txn
      BY <1>3, StoreSame DEF UnlockHash
    <2> QED
      BY <1>3, <2>1 DEF UnlockHash, Goto, StoreTyped, TxnTyped, TxnShape
  <1>4. ASSUME Start(p) PROVE Typing'
    <2>1. StoreTyped' /\ UNCHANGED txn
      BY <1>4, StoreSame DEF Start
    <2> QED
      BY <1>4, <2>1 DEF Start, Goto, GoFor, StoreTyped, TxnTyped, TxnShape
  <1>5. ASSUME NEW pg \in Page, NEW v \in Values, Write(p, pg, v) PROVE Typing'
    <2>1. StoreTyped'
      BY <1>5, StoreSame, ErrorTyped DEF Write
    <2>2. TxnTyped(txn)' /\ TxnShape(txn)'
      <3>1. CASE txn' = [txn EXCEPT !.error = TRUE]
        BY <3>1 DEF TxnTyped, TxnShape
      <3>2. CASE txn' # [txn EXCEPT !.error = TRUE]
        <4> DEFINE bb == [c \in DOMAIN txn.blocks \cup {Data(pg)} |->
                           IF c = Data(pg) THEN v ELSE txn.blocks[c]]
                   rr == IF pg = 1 /\ Data(1) \notin DOMAIN txn.blocks
                         THEN file[Recovery] ELSE txn.recovery
        <4>1. txn' = [txn EXCEPT !.null = FALSE, !.blocks = bb, !.recovery = rr]
          BY <1>5, <3>2 DEF Write
        <4>2. Data(pg) \in DataCell /\ Typed(Data(pg), v)
          BY KindFacts, CellFacts DEF Typed
        <4>3. DOMAIN bb \subseteq DataCell \cup HeadCell /\ \A c \in DOMAIN bb : Typed(c, bb[c])
          BY <4>2 DEF TxnTyped
        <4>4. rr \in 0 .. NAreas
          BY FileFacts DEF TxnTyped
        <4> HIDE DEF bb, rr
        <4> QED BY <4>1, <4>3, <4>4 DEF TxnTyped, TxnShape
      <3> QED BY <3>1, <3>2
    <2> QED
      BY <1>5, <2>1, <2>2, ErrorTyped DEF Write, StoreTyped
  <1>6. ASSUME NestedStart(p) PROVE Typing'
    <2>1. StoreTyped'
      BY <1>6, StoreSame DEF NestedStart
    <2>2. TxnTyped(txn)' /\ TxnShape(txn)'
      BY <1>6 DEF NestedStart, TxnTyped, TxnShape
    <2> QED
      BY <1>6, <2>1, <2>2 DEF NestedStart, StoreTyped, TxnTyped
  <1>7. ASSUME Cancel(p) PROVE Typing'
    <2>1. StoreTyped'
      BY <1>7, StoreSame DEF Cancel
    <2>2. TxnTyped(txn)' /\ TxnShape(txn)'
      BY <1>7, CancelTyped DEF Cancel, TxnTyped, TxnShape
    <2> QED
      BY <1>7, <2>1, <2>2 DEF Cancel, CancelTxn, Cancelling, CancelPc, Goto, StoreTyped
  <1>8. ASSUME Prepare(p) PROVE Typing'
    <2>1. StoreTyped'
      BY <1>8, StoreSame DEF Prepare
    <2>2. TxnTyped(txn)' /\ TxnShape(txn)'
      BY <1>8, CancelTyped DEF Prepare, TxnTyped, TxnShape
    <2> QED
      BY <1>8, <2>1, <2>2 DEF Prepare, CancelTxn, Cancelling, CancelPc, Goto, GoFor,
         StoreTyped
  <1>9. ASSUME Commit(p) PROVE Typing'
    <2>1. StoreTyped'
      BY <1>9, StoreSame DEF Commit
    <2>2. TxnTyped(txn)' /\ TxnShape(txn)'
      BY <1>9 DEF Commit, TxnTyped, TxnShape
    <2> QED
      BY <1>9, <2>1, <2>2 DEF Commit, Cancelling, CancelPc, Goto, GoFor, StoreTyped,
         TxnTyped
  <1>10. ASSUME Close(p) PROVE Typing'
    <2>1. StoreTyped' /\ Unlock(p)
      BY <1>10, StoreSame DEF Close, Gone, store
    <2> QED
      BY <1>10, <2>1, UnlockTyped DEF Close, Gone, Goto, GoFor, StoreTyped
  <1>11. ASSUME OpenCheck(p) PROVE Typing'
    <2>1. StoreTyped' /\ UNCHANGED txn
      BY <1>11, StoreSame DEF OpenCheck
    <2> QED
      BY <1>11, <2>1 DEF OpenCheck, Goto, GoFor, StoreTyped, TxnTyped, TxnShape
  <1>12. ASSUME RelockHash(p) PROVE Typing'
    <2>1. StoreTyped' /\ UNCHANGED txn
      BY <1>12, StoreSame DEF RelockHash
    <2> QED
      BY <1>12, <2>1 DEF RelockHash, Goto, GoFor, StoreTyped, TxnTyped, TxnShape
  <1>13. ASSUME Restart(p) PROVE Typing'
    <2>1. StoreTyped' /\ UNCHANGED txn
      BY <1>13, StoreSame DEF Restart
    <2> QED
      BY <1>13, <2>1 DEF Restart, Goto, GoFor, StoreTyped, TxnTyped, TxnShape
  <1>14. ASSUME LockAllRead(p) PROVE Typing'
    <2>1. StoreTyped'
      BY <1>14, StoreSame DEF LockAllRead
    <2>2. TxnTyped(txn)' /\ TxnShape(txn)'
      BY <1>14, NoTxnTyped, FileFacts DEF LockAllRead, TxnTyped, TxnShape
    <2> QED
      BY <1>14, <2>1, <2>2 DEF LockAllRead, Goto, GoFor, StoreTyped
  <1>15. ASSUME Upgrade(p) PROVE Typing'
    <2>1. StoreTyped' /\ UNCHANGED txn
      BY <1>15, StoreSame DEF Upgrade
    <2> QED
      BY <1>15, <2>1 DEF Upgrade, PrepareFails, CancelPc, Goto, StoreTyped, TxnTyped,
         TxnShape
  <1>16. ASSUME LockOpen(p) PROVE Typing'
    <2>1. StoreTyped' /\ UNCHANGED txn
      BY <1>16, StoreSame DEF LockOpen
    <2> QED
      BY <1>16, <2>1 DEF LockOpen, Goto, StoreTyped, TxnTyped, TxnShape
  <1>17. ASSUME SetupNull(p) PROVE Typing'
    <2>1. StoreTyped'
      BY <1>17, StoreSame DEF SetupNull
    <2>2. TxnTyped(txn)' /\ TxnShape(txn)'
      BY <1>17 DEF SetupNull, TxnTyped, TxnShape
    <2> QED
      BY <1>17, <2>1, <2>2 DEF SetupNull, CancelPc, Goto, StoreTyped, TxnTyped
  <1>18. ASSUME Setup(p) PROVE Typing'
    <2>1. StoreTyped'
      BY <1>18, StoreSame DEF Setup
    <2>2. TxnTyped(txn)' /\ TxnShape(txn)'
      <3>1. CASE UNCHANGED txn
        BY <3>1 DEF TxnTyped, TxnShape
      <3>2. CASE txn' # txn
        <4> DEFINE bb == [c \in DOMAIN txn.blocks \cup {Head(RecoveryArea)} |->
                           IF c = Head(RecoveryArea) THEN Free ELSE txn.blocks[c]]
        <4>1. txn' = [txn EXCEPT !.blocks = bb] /\ RecoveryArea # 0
          BY <1>18, <3>2 DEF Setup
        <4>2. Head(RecoveryArea) \in HeadCell
          BY <4>1, RecoveryAreaFacts, KindFacts DEF Area
        <4>3. Typed(Head(RecoveryArea), Free)
          BY <4>2, KindFacts DEF Typed, Free, HeadRecord
        <4>4. DOMAIN bb \subseteq DataCell \cup HeadCell /\ \A c \in DOMAIN bb : Typed(c, bb[c])
          BY <4>2, <4>3 DEF TxnTyped
        <4> HIDE DEF bb
        <4> QED BY <4>1, <4>4 DEF TxnTyped, TxnShape
      <3> QED BY <3>1, <3>2
    <2>3. area' \in 0 .. NAreas
      BY <1>18, RecoveryAreaFacts DEF Setup
    <2> QED
      BY <1>18, <2>1, <2>2, <2>3 DEF Setup, Goto, StoreTyped
  <1>19. ASSUME Expand(p) PROVE Typing'
    <2> DEFINE n == file[Size] + 1
               need == Cardinality(Changed(txn.blocks))
               new(cap) == [c \in {Size, Head(n), Body(n)} |->
                             IF c = Size THEN n
                             ELSE IF c = Head(n) THEN [Fill EXCEPT !.cap = cap] ELSE Torn]
    <2>1. need \in Nat
      BY CellFinite, FS_Subset, FS_CardinalityType DEF Changed, TxnTyped
    <2>2. StoreTyped' /\ budget' \in Budget /\ area' \in 0 .. NAreas
      <3>1. CASE IoError /\ UNCHANGED area
        BY <3>1, ErrorTyped
      <3>2. CASE UNCHANGED <<store, area, budget>>
        BY <3>2, StoreSame
      <3>3. ASSUME NEW cap \in {need, NPages + NAreas}, Put(new(cap)), n \in Area,
                   area' = n, UNCHANGED budget
            PROVE  StoreTyped' /\ budget' \in Budget /\ area' \in 0 .. NAreas
        <4>1. Typed(Size, n) /\ Typed(Body(n), Torn)
          BY <3>3, KindFacts, CellFacts DEF Typed, Area, Torn
        <4>2. [Fill EXCEPT !.cap = cap] \in HeadRecord
          BY <2>1 DEF Fill, HeadRecord
        <4>3. Typed(Head(n), [Fill EXCEPT !.cap = cap])
          BY <3>3, <4>2, KindFacts DEF Typed
        <4>4. \A c \in DOMAIN new(cap) : Typed(c, new(cap)[c])
          BY <4>1, <4>3, CellFacts
        <4>5. StoreTyped'
          BY <3>3, <4>4, PutTyped
        <4> QED BY <3>3, <4>5 DEF Area
      <3> QED BY <1>19, <3>1, <3>2, <3>3 DEF Expand
    <2>3. pc' \in [Proc -> PcLabel]
      BY <1>19 DEF Expand, PrepareFails, CancelPc, Goto
    <2>4. UNCHANGED <<locks, txn, goal, todo>>
      BY <1>19 DEF Expand
    <2> QED
      BY <2>2, <2>3, <2>4 DEF StoreTyped, TxnTyped, TxnShape
  <1>20. ASSUME Point(p) PROVE Typing'
    <2>1. Typed(Recovery, area)
      BY KindFacts DEF Typed
    <2>7. StoreTyped' /\ budget' \in Budget
      BY <1>20, <2>1, ErrorTyped, Put1Typed DEF Point
    <2>8. TxnTyped(txn)' /\ TxnShape(txn)'
      BY <1>20 DEF Point, WriteExisting, TxnTyped, TxnShape
    <2> QED
      BY <1>20, <2>7, <2>8 DEF Point, PrepareFails, CancelPc, Goto, WriteExisting,
         StoreTyped
  <1>21. ASSUME Record(p) PROVE Typing'
    <2> DEFINE new == [c \in {Head(area), Body(area)} |->
                 IF c = Body(area) THEN [d \in Changed(txn.blocks) |-> file[d]]
                 ELSE [file[c] EXCEPT !.magic = "invalid", !.eof = txn.eof]]
    <2>1. ASSUME Put(new) PROVE StoreTyped'
      <3>1. Head(area) \in Cell =>
              Typed(Head(area), [file[Head(area)] EXCEPT !.magic = "invalid", !.eof = txn.eof])
        <4>1. ASSUME area \in Area
              PROVE  [file[Head(area)] EXCEPT !.magic = "invalid", !.eof = txn.eof] \in HeadRecord
          BY <4>1, FileFacts, RecordTyped DEF TxnTyped
        <4> QED BY <4>1, KindFacts DEF Typed
      <3>2. Typed(Body(area), [d \in Changed(txn.blocks) |-> file[d]])
        <4>1. Changed(txn.blocks) \subseteq DataCell \cup HeadCell
          BY DEF Changed, TxnTyped
        <4>2. \A d \in HeadCell : file[d] \in HeadRecord
          BY FileFacts, KindFacts DEF Typed
        <4>3. Body(area) \notin HeaderCell \cup HeadCell
          BY CellFacts DEF HeaderCell, HeadCell
        <4> QED BY <4>1, <4>2, <4>3 DEF Typed
      <3>3. \A c \in DOMAIN new \cap Cell : Typed(c, new[c])
        BY <3>1, <3>2, CellFacts
      <3> HIDE DEF new
      <3> QED BY <2>1, <3>3, PutTyped
    <2>7. StoreTyped' /\ budget' \in Budget
      BY <1>21, <2>1, ErrorTyped DEF Record
    <2>8. TxnTyped(txn)' /\ TxnShape(txn)'
      BY <1>21 DEF Record, TxnTyped, TxnShape
    <2> QED
      BY <1>21, <2>7, <2>8 DEF Record, PrepareFails, CancelPc, Goto, StoreTyped
  <1>22. ASSUME Sync1(p) PROVE Typing'
    <2>7. StoreTyped' /\ budget' \in Budget
      BY <1>22, ErrorTyped, SyncTyped DEF Sync1
    <2>8. TxnTyped(txn)' /\ TxnShape(txn)'
      BY <1>22 DEF Sync1, TxnTyped, TxnShape
    <2> QED
      BY <1>22, <2>7, <2>8 DEF Sync1, PrepareFails, CancelPc, Goto, StoreTyped
  <1>23. ASSUME Mark(p) PROVE Typing'
    <2>1. \A a, m : m \in {"invalid", "valid"} /\ Head(a) \in Cell =>
            Typed(Head(a), [file[Head(a)] EXCEPT !.magic = m])
      BY FileFacts, KindFacts DEF Typed, HeadRecord
    <2>7. StoreTyped' /\ budget' \in Budget
      BY <1>23, <2>1, ErrorTyped, Put1Typed DEF Mark
    <2>8. TxnTyped(txn)' /\ TxnShape(txn)'
      BY <1>23 DEF Mark, TxnTyped, TxnShape
    <2> QED
      BY <1>23, <2>7, <2>8 DEF Mark, PrepareFails, CancelPc, Goto, StoreTyped
  <1>24. ASSUME Sync2(p) PROVE Typing'
    <2>7. StoreTyped' /\ budget' \in Budget
      BY <1>24, ErrorTyped, SyncTyped DEF Sync2
    <2>8. TxnTyped(txn)' /\ TxnShape(txn)'
      <3>1. CASE UNCHANGED txn
        BY <3>1 DEF TxnTyped, TxnShape
      <3>2. CASE txn' = [txn EXCEPT !.prepared = TRUE]
        BY <3>2 DEF TxnTyped, TxnShape
      <3> QED BY <1>24, <3>1, <3>2 DEF Sync2
    <2> QED
      BY <1>24, <2>7, <2>8 DEF Sync2, PrepareFails, CancelPc, Goto, StoreTyped, TxnTyped
  <1>25. ASSUME CommitWrite(p) PROVE Typing'
    <2> DEFINE c == First(todo)
               new == [d \in {c} \cup (IF c = Data(1) THEN {Recovery} ELSE {}) |->
                        IF d = Recovery THEN txn.recovery ELSE txn.blocks[d]]
    <2>1. ASSUME Put(new), pc[p] = "write", todo # {} PROVE StoreTyped'
      <3>1. c \in DOMAIN txn.blocks
        BY <2>1, FirstFact DEF Safe, CommitInv, CommitOK
      <3>2. Typed(c, txn.blocks[c]) /\ Typed(Recovery, txn.recovery)
        BY <3>1, KindFacts DEF Typed, TxnTyped
      <3>3. \A d \in DOMAIN new : Typed(d, new[d])
        BY <3>2
      <3> HIDE DEF new
      <3> QED BY <2>1, <3>3, PutTyped
    <2>7. StoreTyped' /\ budget' \in Budget
      BY <1>25, <2>1, ErrorTyped DEF CommitWrite
    <2>8. TxnTyped(txn)' /\ TxnShape(txn)'
      BY <1>25 DEF CommitWrite, TxnTyped, TxnShape
    <2> QED
      BY <1>25, <2>7, <2>8 DEF CommitWrite, Goto, GoFor, StoreTyped
  <1>26. ASSUME CommitSync(p) PROVE Typing'
    <2>7. StoreTyped' /\ budget' \in Budget
      BY <1>26, ErrorTyped, SyncTyped DEF CommitSync
    <2>8. TxnTyped(txn)' /\ TxnShape(txn)'
      BY <1>26 DEF CommitSync, TxnTyped, TxnShape
    <2> QED
      BY <1>26, <2>7, <2>8 DEF CommitSync, CancelPc, Goto, GoFor, StoreTyped
  <1>27. ASSUME Unmark(p) PROVE Typing'
    <2>1. \A a, m : m \in {"invalid", "valid"} /\ Head(a) \in Cell =>
            Typed(Head(a), [file[Head(a)] EXCEPT !.magic = m])
      BY FileFacts, KindFacts DEF Typed, HeadRecord
    <2>7. StoreTyped' /\ budget' \in Budget
      BY <1>27, <2>1, ErrorTyped, Put1Typed DEF Unmark, UnmarkFails
    <2>8. TxnTyped(txn)' /\ TxnShape(txn)'
      BY <1>27 DEF Unmark, UnmarkFails, TxnTyped, TxnShape
    <2> QED
      BY <1>27, <2>7, <2>8 DEF Unmark, UnmarkFails, Goto, GoFor, StoreTyped
  <1>28. ASSUME UnmarkSync(p) PROVE Typing'
    <2>7. StoreTyped' /\ budget' \in Budget
      BY <1>28, ErrorTyped, SyncTyped DEF UnmarkSync, UnmarkFails
    <2>8. TxnTyped(txn)' /\ TxnShape(txn)'
      BY <1>28 DEF UnmarkSync, UnmarkFails, TxnTyped, TxnShape
    <2> QED
      BY <1>28, <2>7, <2>8 DEF UnmarkSync, UnmarkFails, Goto, GoFor, StoreTyped
  <1>29. ASSUME Release(p) PROVE Typing'
    <2>1. StoreTyped' /\ Unlock(p)
      BY <1>29, StoreSame DEF Release, store
    <2> QED
      BY <1>29, <2>1, UnlockTyped DEF Release, Goto, GoFor, StoreTyped
  <1>30. ASSUME LockAll(p) PROVE Typing'
    <2>1. StoreTyped' /\ UNCHANGED txn
      BY <1>30, StoreSame DEF LockAll
    <2> QED
      BY <1>30, <2>1 DEF LockAll, Goto, StoreTyped, TxnTyped, TxnShape
  <1>31. ASSUME RecoverLockOpen(p) PROVE Typing'
    <2>1. StoreTyped' /\ UNCHANGED txn
      BY <1>31, StoreSame DEF RecoverLockOpen
    <2> QED
      BY <1>31, <2>1 DEF RecoverLockOpen, Goto, StoreTyped, TxnTyped, TxnShape
  <1>32. ASSUME Check(p) PROVE Typing'
    <2>1. StoreTyped' /\ UNCHANGED txn
      BY <1>32, StoreSame DEF Check
    <2>2. area' \in 0 .. NAreas /\ todo' \subseteq DataCell \cup HeadCell
      BY <1>32, FileFacts, BodyFacts DEF Check, NeedsRecovery, Area
    <2> QED
      BY <1>32, <2>1, <2>2 DEF Check, Goto, StoreTyped, TxnTyped, TxnShape
  <1>33. ASSUME Restore(p) PROVE Typing'
    <2>1. ASSUME Put1(First(todo), file[Body(area)][First(todo)]), pc[p] = "restore", todo # {}
          PROVE  StoreTyped'
      <3>1. area \in Area /\ First(todo) \in DOMAIN file[Body(area)]
        BY <2>1, FirstFact DEF Safe, TodoInv, TodoOK, Area
      <3>2. Typed(First(todo), file[Body(area)][First(todo)])
        BY <3>1, BodyFacts
      <3> QED BY <2>1, <3>2, Put1Typed
    <2>7. StoreTyped' /\ budget' \in Budget
      BY <1>33, <2>1, ErrorTyped DEF Restore, RecoverFails
    <2>8. TxnTyped(txn)' /\ TxnShape(txn)'
      BY <1>33 DEF Restore, TxnTyped, TxnShape
    <2> QED
      BY <1>33, <2>7, <2>8 DEF Restore, RecoverFails, Goto, StoreTyped
  <1>34. ASSUME RestoreSync(p) PROVE Typing'
    <2>7. StoreTyped' /\ budget' \in Budget
      BY <1>34, ErrorTyped, SyncTyped DEF RestoreSync, RecoverFails
    <2>8. TxnTyped(txn)' /\ TxnShape(txn)'
      BY <1>34 DEF RestoreSync, TxnTyped, TxnShape
    <2> QED
      BY <1>34, <2>7, <2>8 DEF RestoreSync, RecoverFails, Goto, StoreTyped
  <1>35. ASSUME Unpoint(p) PROVE Typing'
    <2>1. Typed(Recovery, 0)
      BY KindFacts DEF Typed
    <2>7. StoreTyped' /\ budget' \in Budget
      BY <1>35, <2>1, ErrorTyped, Put1Typed, StoreSame DEF Unpoint, RecoverFails
    <2>8. TxnTyped(txn)' /\ TxnShape(txn)'
      BY <1>35 DEF Unpoint, TxnTyped, TxnShape
    <2> QED
      BY <1>35, <2>7, <2>8 DEF Unpoint, RecoverFails, Goto, StoreTyped
  <1>36. ASSUME Invalidate(p) PROVE Typing'
    <2>1. \A a, m : m \in {"invalid", "valid"} /\ Head(a) \in Cell =>
            Typed(Head(a), [file[Head(a)] EXCEPT !.magic = m])
      BY FileFacts, KindFacts DEF Typed, HeadRecord
    <2>7. StoreTyped' /\ budget' \in Budget
      BY <1>36, <2>1, ErrorTyped, Put1Typed DEF Invalidate, RecoverFails
    <2>8. TxnTyped(txn)' /\ TxnShape(txn)'
      BY <1>36 DEF Invalidate, TxnTyped, TxnShape
    <2> QED
      BY <1>36, <2>7, <2>8 DEF Invalidate, RecoverFails, Goto, StoreTyped
  <1>37. ASSUME InvalidateSync(p) PROVE Typing'
    <2>7. StoreTyped' /\ budget' \in Budget
      BY <1>37, ErrorTyped, SyncTyped DEF InvalidateSync, RecoverFails
    <2>8. TxnTyped(txn)' /\ TxnShape(txn)'
      BY <1>37 DEF InvalidateSync, TxnTyped, TxnShape
    <2> QED
      BY <1>37, <2>7, <2>8 DEF InvalidateSync, RecoverFails, Goto, StoreTyped
  <1>38. ASSUME Recovered(p) PROVE Typing'
    <2>1. StoreTyped'
      BY <1>38, StoreSame DEF Recovered
    <2>2. goal[p] # "abort" => AfterRecovery(goal[p]) \in PcLabel
      BY <1>38 DEF LockInv, Recovering, AfterRecovery, Recovered
    <2>3. pc' \in [Proc -> PcLabel] /\ goal' \in [Proc -> Goal]
      BY <1>38, <2>2 DEF Recovered, CancelPc, Goto, GoFor
    <2>4. CASE Unlock(p)
      BY <1>38, <2>1, <2>3, <2>4, UnlockTyped DEF Recovered, StoreTyped
    <2>5. CASE ~Unlock(p)
      BY <1>38, <2>1, <2>3, <2>5 DEF Recovered, StoreTyped, TxnTyped, TxnShape
    <2> QED BY <2>4, <2>5
  <1>39. ASSUME Die(p) PROVE Typing'
    <2>1. StoreTyped' /\ Unlock(p)
      BY <1>39, StoreSame DEF Die, Gone, store
    <2> QED
      BY <1>39, <2>1, UnlockTyped DEF Die, Gone, Goto, GoFor, StoreTyped
  <1> QED
    BY <1>1, <1>2, <1>3, <1>4, <1>5, <1>6, <1>7, <1>8, <1>9, <1>10, <1>11, <1>12,
       <1>13, <1>14, <1>15, <1>16, <1>17, <1>18, <1>19, <1>20, <1>21, <1>22, <1>23,
       <1>24, <1>25, <1>26, <1>27, <1>28, <1>29, <1>30, <1>31, <1>32, <1>33, <1>34,
       <1>35, <1>36, <1>37, <1>38, <1>39 DEF Calls, Steps
-----------------------------------------------------------------------------
(* Locks, and who changes what *)

LEMMA LockStep ==
  ASSUME NEW p \in Proc, Safe, Calls(p) \/ Steps(p) \/ Die(p)
  PROVE  LockInv'
  <1>0. TypeOK /\ LockInv /\ StartInv /\ CommitInv
    BY DEF Safe, Typing
  <1> USE <1>0, NtdbAssumption
      DEF TypeOK, LockInv, StartInv, locks, Committing, Recovering, Unmarking, InTxn,
          Nested
  <1>1. ASSUME Open(p) PROVE LockInv'
    BY <1>1 DEF Open, Goto
  <1>2. ASSUME LockHash(p) PROVE LockInv'
    BY <1>2 DEF LockHash, Goto, GoFor
  <1>3. ASSUME UnlockHash(p) PROVE LockInv'
    BY <1>3 DEF UnlockHash, Goto
  <1>4. ASSUME Start(p) PROVE LockInv'
    BY <1>4 DEF Start, Goto, GoFor
  <1>5. ASSUME NEW pg \in Page, NEW v \in Values, Write(p, pg, v) PROVE LockInv'
    BY <1>5 DEF Write, IoError
  <1>6. ASSUME NestedStart(p) PROVE LockInv'
    BY <1>6 DEF NestedStart
  <1>7. ASSUME Cancel(p) PROVE LockInv'
    BY <1>7 DEF Cancel, CancelTxn, Cancelling, CancelPc, Goto
  <1>8. ASSUME Prepare(p) PROVE LockInv'
    BY <1>8 DEF Prepare, CancelTxn, Cancelling, CancelPc, Goto, GoFor
  <1>9. ASSUME Commit(p) PROVE LockInv'
    <2>1. txn.nesting = 0 /\ ~txn.null /\ txn.prepared => wr = p /\ olock = p
      BY <1>9 DEF Commit, CommitInv, CommitOK
    <2>2. CASE txn.nesting # 0
      BY <1>9, <2>2 DEF Commit
    <2>3. CASE txn.nesting = 0
      <3>1. UNCHANGED <<locks, txn>> /\ pc[p] = "txn"
        BY <1>9, <2>3 DEF Commit
      <3>2. \/ pc' = [pc EXCEPT ![p] = CancelPc(txn.magic)] /\ UNCHANGED goal
            \/ /\ \/ pc' = [pc EXCEPT ![p] = "upgrade"]
                  \/ pc' = [pc EXCEPT ![p] = "write"] /\ wr = p /\ olock = p
               /\ goal' = [goal EXCEPT ![p] = "commit"]
        BY <1>9, <2>1, <2>3 DEF Commit, Cancelling, Goto, GoFor
      <3> QED BY <3>1, <3>2 DEF CancelPc
    <2> QED BY <2>2, <2>3
  <1>10. ASSUME Close(p) PROVE LockInv'
    BY <1>10 DEF Close, Gone, Unlock, Goto, GoFor
  <1>11. ASSUME OpenCheck(p) PROVE LockInv'
    BY <1>11 DEF OpenCheck, Goto, GoFor
  <1>12. ASSUME RelockHash(p) PROVE LockInv'
    BY <1>12 DEF RelockHash, Goto, GoFor
  <1>13. ASSUME Restart(p) PROVE LockInv'
    BY <1>13 DEF Restart, Goto, GoFor
  <1>14. ASSUME LockAllRead(p) PROVE LockInv'
    BY <1>14 DEF LockAllRead, Goto, GoFor
  <1>15. ASSUME Upgrade(p) PROVE LockInv'
    BY <1>15 DEF Upgrade, PrepareFails, CancelPc, Goto
  <1>16. ASSUME LockOpen(p) PROVE LockInv'
    BY <1>16 DEF LockOpen, Goto
  <1>17. ASSUME SetupNull(p) PROVE LockInv'
    BY <1>17 DEF SetupNull, CancelPc, Goto
  <1>18. ASSUME Setup(p) PROVE LockInv'
    BY <1>18 DEF Setup, Goto
  <1>19. ASSUME Expand(p) PROVE LockInv'
    BY <1>19 DEF Expand, PrepareFails, CancelPc, Goto, IoError
  <1>20. ASSUME Point(p) PROVE LockInv'
    BY <1>20 DEF Point, PrepareFails, CancelPc, Goto, IoError, WriteExisting
  <1>21. ASSUME Record(p) PROVE LockInv'
    BY <1>21 DEF Record, PrepareFails, CancelPc, Goto, IoError
  <1>22. ASSUME Sync1(p) PROVE LockInv'
    BY <1>22 DEF Sync1, PrepareFails, CancelPc, Goto, IoError
  <1>23. ASSUME Mark(p) PROVE LockInv'
    BY <1>23 DEF Mark, PrepareFails, CancelPc, Goto, IoError
  <1>24. ASSUME Sync2(p) PROVE LockInv'
    BY <1>24 DEF Sync2, PrepareFails, CancelPc, Goto, IoError
  <1>25. ASSUME CommitWrite(p) PROVE LockInv'
    BY <1>25 DEF CommitWrite, Goto, GoFor, IoError
  <1>26. ASSUME CommitSync(p) PROVE LockInv'
    BY <1>26 DEF CommitSync, CancelPc, Goto, GoFor, IoError
  <1>27. ASSUME Unmark(p) PROVE LockInv'
    BY <1>27 DEF Unmark, UnmarkFails, Goto, GoFor, IoError
  <1>28. ASSUME UnmarkSync(p) PROVE LockInv'
    BY <1>28 DEF UnmarkSync, UnmarkFails, Goto, GoFor, IoError
  <1>29. ASSUME Release(p) PROVE LockInv'
    BY <1>29 DEF Release, Unlock, Goto, GoFor
  <1>30. ASSUME LockAll(p) PROVE LockInv'
    BY <1>30 DEF LockAll, Goto
  <1>31. ASSUME RecoverLockOpen(p) PROVE LockInv'
    BY <1>31 DEF RecoverLockOpen, Goto
  <1>32. ASSUME Check(p) PROVE LockInv'
    BY <1>32 DEF Check, Goto
  <1>33. ASSUME Restore(p) PROVE LockInv'
    BY <1>33 DEF Restore, RecoverFails, IoError, Goto
  <1>34. ASSUME RestoreSync(p) PROVE LockInv'
    BY <1>34 DEF RestoreSync, RecoverFails, IoError, Goto
  <1>35. ASSUME Unpoint(p) PROVE LockInv'
    BY <1>35 DEF Unpoint, RecoverFails, IoError, Goto
  <1>36. ASSUME Invalidate(p) PROVE LockInv'
    BY <1>36 DEF Invalidate, RecoverFails, IoError, Goto
  <1>37. ASSUME InvalidateSync(p) PROVE LockInv'
    BY <1>37 DEF InvalidateSync, RecoverFails, IoError, Goto
  <1>38. ASSUME Recovered(p) PROVE LockInv'
    BY <1>38 DEF Recovered, Unlock, CancelPc, AfterRecovery, Goto, GoFor
  <1>39. ASSUME Die(p) PROVE LockInv'
    BY <1>39 DEF Die, Gone, Unlock, Goto, GoFor
  <1> QED
    BY <1>1, <1>2, <1>3, <1>4, <1>5, <1>6, <1>7, <1>8, <1>9, <1>10, <1>11, <1>12,
       <1>13, <1>14, <1>15, <1>16, <1>17, <1>18, <1>19, <1>20, <1>21, <1>22, <1>23,
       <1>24, <1>25, <1>26, <1>27, <1>28, <1>29, <1>30, <1>31, <1>32, <1>33, <1>34,
       <1>35, <1>36, <1>37, <1>38, <1>39 DEF Calls, Steps

\* Only the holder of the write lock changes the file, the recovery area in
\* use and what is left to write, and only the holder of the transaction
\* lock the transaction.
LEMMA Owners ==
  ASSUME NEW p \in Proc, Safe, Calls(p) \/ Steps(p) \/ Die(p)
  PROVE  /\ wr # p => UNCHANGED <<store, area, todo>>
         /\ tlock # p => UNCHANGED txn
         /\ \A q \in Proc \ {p} :
              /\ pc'[q] = pc[q] /\ goal'[q] = goal[q]
              /\ (wr' = q) = (wr = q) /\ (tlock' = q) = (tlock = q)
  <1> DEFINE Owned == /\ wr # p => UNCHANGED <<store, area, todo>>
                      /\ tlock # p => UNCHANGED txn
                      /\ \A q \in Proc \ {p} :
                          /\ pc'[q] = pc[q] /\ goal'[q] = goal[q]
                          /\ (wr' = q) = (wr = q) /\ (tlock' = q) = (tlock = q)
  <1>0. TypeOK /\ LockInv /\ StartInv /\ CommitInv
    BY DEF Safe, Typing
  <1> USE <1>0, NtdbAssumption
      DEF TypeOK, LockInv, locks, Committing, Recovering, Unmarking, InTxn, Nested
  <1>1. ASSUME Open(p) PROVE Owned
    BY <1>1 DEF Open, Goto
  <1>2. ASSUME LockHash(p) PROVE Owned
    BY <1>2 DEF LockHash, Goto, GoFor
  <1>3. ASSUME UnlockHash(p) PROVE Owned
    BY <1>3 DEF UnlockHash, Goto
  <1>4. ASSUME Start(p) PROVE Owned
    BY <1>4 DEF Start, Goto, GoFor
  <1>5. ASSUME NEW pg \in Page, NEW v \in Values, Write(p, pg, v) PROVE Owned
    BY <1>5 DEF Write, IoError
  <1>6. ASSUME NestedStart(p) PROVE Owned
    BY <1>6 DEF NestedStart
  <1>7. ASSUME Cancel(p) PROVE Owned
    BY <1>7 DEF Cancel, CancelTxn, Cancelling, CancelPc, Goto
  <1>8. ASSUME Prepare(p) PROVE Owned
    BY <1>8 DEF Prepare, CancelTxn, Cancelling, CancelPc, Goto, GoFor
  <1>9. ASSUME Commit(p) PROVE Owned
    <2>1. txn.nesting = 0 /\ ~txn.null /\ txn.prepared => wr = p
      BY <1>9 DEF Commit, CommitInv, CommitOK, StartInv
    <2> QED BY <1>9, <2>1 DEF Commit, Cancelling, CancelPc, Goto, GoFor
  <1>10. ASSUME Close(p) PROVE Owned
    BY <1>10 DEF Close, Gone, Unlock, Goto, GoFor
  <1>11. ASSUME OpenCheck(p) PROVE Owned
    BY <1>11 DEF OpenCheck, Goto, GoFor
  <1>12. ASSUME RelockHash(p) PROVE Owned
    BY <1>12 DEF RelockHash, Goto, GoFor
  <1>13. ASSUME Restart(p) PROVE Owned
    BY <1>13 DEF Restart, Goto, GoFor
  <1>14. ASSUME LockAllRead(p) PROVE Owned
    BY <1>14 DEF LockAllRead, Goto, GoFor
  <1>15. ASSUME Upgrade(p) PROVE Owned
    BY <1>15 DEF Upgrade, PrepareFails, CancelPc, Goto
  <1>16. ASSUME LockOpen(p) PROVE Owned
    BY <1>16 DEF LockOpen, Goto
  <1>17. ASSUME SetupNull(p) PROVE Owned
    BY <1>17 DEF SetupNull, CancelPc, Goto
  <1>18. ASSUME Setup(p) PROVE Owned
    BY <1>18 DEF Setup, Goto
  <1>19. ASSUME Expand(p) PROVE Owned
    BY <1>19 DEF Expand, PrepareFails, CancelPc, Goto, IoError
  <1>20. ASSUME Point(p) PROVE Owned
    BY <1>20 DEF Point, PrepareFails, CancelPc, Goto, IoError, WriteExisting
  <1>21. ASSUME Record(p) PROVE Owned
    BY <1>21 DEF Record, PrepareFails, CancelPc, Goto, IoError
  <1>22. ASSUME Sync1(p) PROVE Owned
    BY <1>22 DEF Sync1, PrepareFails, CancelPc, Goto, IoError
  <1>23. ASSUME Mark(p) PROVE Owned
    BY <1>23 DEF Mark, PrepareFails, CancelPc, Goto, IoError
  <1>24. ASSUME Sync2(p) PROVE Owned
    BY <1>24 DEF Sync2, PrepareFails, CancelPc, Goto, IoError
  <1>25. ASSUME CommitWrite(p) PROVE Owned
    BY <1>25 DEF CommitWrite, Goto, GoFor, IoError
  <1>26. ASSUME CommitSync(p) PROVE Owned
    BY <1>26 DEF CommitSync, CancelPc, Goto, GoFor, IoError
  <1>27. ASSUME Unmark(p) PROVE Owned
    BY <1>27 DEF Unmark, UnmarkFails, Goto, GoFor, IoError
  <1>28. ASSUME UnmarkSync(p) PROVE Owned
    BY <1>28 DEF UnmarkSync, UnmarkFails, Goto, GoFor, IoError
  <1>29. ASSUME Release(p) PROVE Owned
    BY <1>29 DEF Release, Unlock, Goto, GoFor
  <1>30. ASSUME LockAll(p) PROVE Owned
    BY <1>30 DEF LockAll, Goto
  <1>31. ASSUME RecoverLockOpen(p) PROVE Owned
    BY <1>31 DEF RecoverLockOpen, Goto
  <1>32. ASSUME Check(p) PROVE Owned
    BY <1>32 DEF Check, Goto
  <1>33. ASSUME Restore(p) PROVE Owned
    BY <1>33 DEF Restore, RecoverFails, IoError, Goto
  <1>34. ASSUME RestoreSync(p) PROVE Owned
    BY <1>34 DEF RestoreSync, RecoverFails, IoError, Goto
  <1>35. ASSUME Unpoint(p) PROVE Owned
    BY <1>35 DEF Unpoint, RecoverFails, IoError, Goto
  <1>36. ASSUME Invalidate(p) PROVE Owned
    BY <1>36 DEF Invalidate, RecoverFails, IoError, Goto
  <1>37. ASSUME InvalidateSync(p) PROVE Owned
    BY <1>37 DEF InvalidateSync, RecoverFails, IoError, Goto
  <1>38. ASSUME Recovered(p) PROVE Owned
    BY <1>38 DEF Recovered, Unlock, CancelPc, AfterRecovery, Goto, GoFor
  <1>39. ASSUME Die(p) PROVE Owned
    BY <1>39 DEF Die, Gone, Unlock, Goto, GoFor
  <1> QED
    BY <1>1, <1>2, <1>3, <1>4, <1>5, <1>6, <1>7, <1>8, <1>9, <1>10, <1>11, <1>12,
       <1>13, <1>14, <1>15, <1>16, <1>17, <1>18, <1>19, <1>20, <1>21, <1>22, <1>23,
       <1>24, <1>25, <1>26, <1>27, <1>28, <1>29, <1>30, <1>31, <1>32, <1>33, <1>34,
       <1>35, <1>36, <1>37, <1>38, <1>39 DEF Calls, Steps

LEMMA StartStep ==
  ASSUME NEW p \in Proc, Safe, Calls(p) \/ Steps(p) \/ Die(p)
  PROVE  StartInv'
  <1>0. TypeOK /\ TxnShape(txn) /\ LockInv /\ StartInv /\ CommitInv
    BY DEF Safe, Typing
  <1> USE <1>0, NtdbAssumption
      DEF TypeOK, TxnShape, LockInv, StartInv, locks, Committing, Recovering,
          Unmarking, InTxn, Nested
  <1>1. ASSUME Open(p) PROVE StartInv'
    BY <1>1, NoTxnFacts DEF Open, Goto
  <1>2. ASSUME LockHash(p) PROVE StartInv'
    BY <1>2, NoTxnFacts DEF LockHash, Goto, GoFor
  <1>3. ASSUME UnlockHash(p) PROVE StartInv'
    BY <1>3, NoTxnFacts DEF UnlockHash, Goto
  <1>4. ASSUME Start(p) PROVE StartInv'
    BY <1>4, NoTxnFacts DEF Start, Goto, GoFor
  <1>5. ASSUME NEW pg \in Page, NEW v \in Values, Write(p, pg, v) PROVE StartInv'
    <2>1. txn'.magic = txn.magic
      BY <1>5, NoTxnFacts DEF Write
    <2> QED BY <1>5, <2>1 DEF Write
  <1>6. ASSUME NestedStart(p) PROVE StartInv'
    BY <1>6, NoTxnFacts DEF NestedStart
  <1>7. ASSUME Cancel(p) PROVE StartInv'
    <2>1. txn'.magic = txn.magic
      BY <1>7, CancelFacts DEF Cancel
    <2> QED BY <1>7, <2>1, NoTxnFacts DEF Cancel, CancelTxn, Cancelling, CancelPc,
               Goto, GoFor
  <1>8. ASSUME Prepare(p) PROVE StartInv'
    <2>1. txn'.magic = txn.magic
      BY <1>8, CancelFacts DEF Prepare
    <2> QED BY <1>8, <2>1, NoTxnFacts DEF Prepare, CancelTxn, Cancelling, CancelPc,
               Goto, GoFor
  <1>9. ASSUME Commit(p) PROVE StartInv'
    BY <1>9, NoTxnFacts DEF Commit, Cancelling, CancelPc, Goto, GoFor
  <1>10. ASSUME Close(p) PROVE StartInv'
    BY <1>10, NoTxnFacts DEF Close, Gone, Unlock, Goto, GoFor
  <1>11. ASSUME OpenCheck(p) PROVE StartInv'
    BY <1>11, NoTxnFacts DEF OpenCheck, Goto, GoFor
  <1>12. ASSUME RelockHash(p) PROVE StartInv'
    BY <1>12, NoTxnFacts DEF RelockHash, Goto, GoFor
  <1>13. ASSUME Restart(p) PROVE StartInv'
    BY <1>13, NoTxnFacts DEF Restart, Goto, GoFor
  <1>14. ASSUME LockAllRead(p) PROVE StartInv'
    BY <1>14, NoTxnFacts DEF LockAllRead, Goto, GoFor
  <1>15. ASSUME Upgrade(p) PROVE StartInv'
    BY <1>15, NoTxnFacts DEF Upgrade, PrepareFails, CancelPc, Goto
  <1>16. ASSUME LockOpen(p) PROVE StartInv'
    BY <1>16, NoTxnFacts DEF LockOpen, Goto
  <1>17. ASSUME SetupNull(p) PROVE StartInv'
    BY <1>17, NoTxnFacts DEF SetupNull, CancelPc, Goto
  <1>18. ASSUME Setup(p) PROVE StartInv'
    BY <1>18, NoTxnFacts DEF Setup, Goto
  <1>19. ASSUME Expand(p) PROVE StartInv'
    BY <1>19, NoTxnFacts DEF Expand, PrepareFails, CancelPc, Goto, IoError
  <1>20. ASSUME Point(p) PROVE StartInv'
    BY <1>20, NoTxnFacts DEF Point, PrepareFails, CancelPc, Goto, IoError, WriteExisting
  <1>21. ASSUME Record(p) PROVE StartInv'
    BY <1>21, NoTxnFacts DEF Record, PrepareFails, CancelPc, Goto, IoError
  <1>22. ASSUME Sync1(p) PROVE StartInv'
    BY <1>22, NoTxnFacts DEF Sync1, PrepareFails, CancelPc, Goto, IoError
  <1>23. ASSUME Mark(p) PROVE StartInv'
    BY <1>23, NoTxnFacts DEF Mark, PrepareFails, CancelPc, Goto, IoError
  <1>24. ASSUME Sync2(p) PROVE StartInv'
    BY <1>24, NoTxnFacts DEF Sync2, PrepareFails, CancelPc, Goto, IoError
  <1>25. ASSUME CommitWrite(p) PROVE StartInv'
    BY <1>25, NoTxnFacts DEF CommitWrite, Goto, GoFor, IoError
  <1>26. ASSUME CommitSync(p) PROVE StartInv'
    BY <1>26, NoTxnFacts DEF CommitSync, CancelPc, Goto, GoFor, IoError
  <1>27. ASSUME Unmark(p) PROVE StartInv'
    BY <1>27, NoTxnFacts DEF Unmark, UnmarkFails, Goto, GoFor, IoError
  <1>28. ASSUME UnmarkSync(p) PROVE StartInv'
    BY <1>28, NoTxnFacts DEF UnmarkSync, UnmarkFails, Goto, GoFor, IoError
  <1>29. ASSUME Release(p) PROVE StartInv'
    BY <1>29, NoTxnFacts DEF Release, Unlock, Goto, GoFor
  <1>30. ASSUME LockAll(p) PROVE StartInv'
    BY <1>30, NoTxnFacts DEF LockAll, Goto
  <1>31. ASSUME RecoverLockOpen(p) PROVE StartInv'
    BY <1>31, NoTxnFacts DEF RecoverLockOpen, Goto
  <1>32. ASSUME Check(p) PROVE StartInv'
    BY <1>32, NoTxnFacts DEF Check, Goto
  <1>33. ASSUME Restore(p) PROVE StartInv'
    BY <1>33, NoTxnFacts DEF Restore, RecoverFails, IoError, Goto
  <1>34. ASSUME RestoreSync(p) PROVE StartInv'
    BY <1>34, NoTxnFacts DEF RestoreSync, RecoverFails, IoError, Goto
  <1>35. ASSUME Unpoint(p) PROVE StartInv'
    BY <1>35, NoTxnFacts DEF Unpoint, RecoverFails, IoError, Goto
  <1>36. ASSUME Invalidate(p) PROVE StartInv'
    BY <1>36, NoTxnFacts DEF Invalidate, RecoverFails, IoError, Goto
  <1>37. ASSUME InvalidateSync(p) PROVE StartInv'
    BY <1>37, NoTxnFacts DEF InvalidateSync, RecoverFails, IoError, Goto
  <1>38. ASSUME Recovered(p) PROVE StartInv'
    BY <1>38, NoTxnFacts DEF Recovered, Unlock, CancelPc, AfterRecovery, Goto, GoFor
  <1>39. ASSUME Die(p) PROVE StartInv'
    BY <1>39, NoTxnFacts DEF Die, Gone, Unlock, Goto, GoFor
  <1> QED
    BY <1>1, <1>2, <1>3, <1>4, <1>5, <1>6, <1>7, <1>8, <1>9, <1>10, <1>11, <1>12,
       <1>13, <1>14, <1>15, <1>16, <1>17, <1>18, <1>19, <1>20, <1>21, <1>22, <1>23,
       <1>24, <1>25, <1>26, <1>27, <1>28, <1>29, <1>30, <1>31, <1>32, <1>33, <1>34,
       <1>35, <1>36, <1>37, <1>38, <1>39 DEF Calls, Steps

-----------------------------------------------------------------------------
(* A commit writes what it should, and all of it *)

LEMMA CommitOwn ==
  ASSUME NEW p \in Proc, Safe, Calls(p) \/ Steps(p) \/ Die(p)
  PROVE  CommitOK(p)' /\ TodoOK(p)'
  <1>0. /\ TypeOK /\ StoreTyped /\ TxnShape(txn) /\ CommitOK(p) /\ TodoOK(p)
        /\ goal[p] = "committed" => pc[p] \in Unmarking \cup {"release"}
        /\ goal[p] = "logged" => pc[p] = "release"
        /\ pc[p] \in Recovering \cup {"lockall"} =>
            goal[p] \in {"open", "read", "start", "startall", "abort"}
        /\ pc[p] \in Unmarking => txn.magic # 0
    BY DEF Safe, Typing, CommitInv, TodoInv, LockInv, StartInv
  <1> USE <1>0, NtdbAssumption
      DEF TypeOK, TxnShape, CommitOK, TodoOK, locks, store, Committing, Recovering,
          Unmarking, Success
  <1>1. ASSUME Open(p) PROVE CommitOK(p)' /\ TodoOK(p)'
    BY <1>1, NoTxnFacts DEF Open, Goto
  <1>2. ASSUME LockHash(p) PROVE CommitOK(p)' /\ TodoOK(p)'
    BY <1>2, NoTxnFacts DEF LockHash, Goto, GoFor
  <1>3. ASSUME UnlockHash(p) PROVE CommitOK(p)' /\ TodoOK(p)'
    BY <1>3, NoTxnFacts DEF UnlockHash, Goto
  <1>4. ASSUME Start(p) PROVE CommitOK(p)' /\ TodoOK(p)'
    BY <1>4, NoTxnFacts DEF Start, Goto, GoFor
  <1>5. ASSUME NEW pg \in Page, NEW v \in Values, Write(p, pg, v) PROVE CommitOK(p)' /\ TodoOK(p)'
    <2>1. /\ pc[p] = "txn" /\ UNCHANGED <<file, pc, goal, area, todo>> /\ goal[p] \notin Success
          /\ txn'.magic = txn.magic /\ txn'.prepared = txn.prepared
      BY <1>5 DEF Write, IoError
    <2>2. CASE txn.prepared
      <3>1. txn'.null = txn.null /\ txn'.blocks = txn.blocks /\ txn'.recovery = txn.recovery
        BY <1>5, <2>2 DEF Write
      <3> QED BY <2>1, <3>1
    <2>3. CASE ~txn.prepared
      <3>1. Data(1) \in DOMAIN txn.blocks => txn.recovery = file[Recovery]
        BY <2>1
      <3>2. Data(1) \in DOMAIN txn'.blocks => txn'.recovery = file[Recovery]
        BY <1>0, <1>5, <3>1, WriteHeader
      <3> QED BY <2>1, <2>3, <3>2
    <2> QED BY <2>2, <2>3 DEF TxnTyped
  <1>6. ASSUME NestedStart(p) PROVE CommitOK(p)' /\ TodoOK(p)'
    BY <1>6, NoTxnFacts DEF NestedStart
  <1>7. ASSUME Cancel(p) PROVE CommitOK(p)' /\ TodoOK(p)'
    <2>1. pc[p] = "txn" /\ UNCHANGED <<file, area, todo>> /\ goal'[p] \notin Success
      BY <1>7 DEF Cancel, GoFor
    <2>2. /\ txn'.prepared = txn.prepared /\ txn'.null = txn.null
          /\ txn'.blocks = txn.blocks /\ txn'.recovery = txn.recovery
          /\ txn'.magic = txn.magic
      BY <1>7, CancelFacts DEF Cancel
    <2>3. \/ pc'[p] \in {"txn", "release", "unmark"}
          \/ pc'[p] = "upgrade" /\ ~txn.prepared
      BY <1>7, CancelFacts DEF Cancel, GoFor, Goto, CancelPc
    <2> QED BY <2>1, <2>2, <2>3 DEF TxnTyped
  <1>8. ASSUME Prepare(p) PROVE CommitOK(p)' /\ TodoOK(p)'
    <2>1. pc[p] = "txn" /\ UNCHANGED <<file, area, todo>> /\ goal'[p] \notin Success
      BY <1>8 DEF Prepare, GoFor
    <2>2. /\ txn'.prepared = txn.prepared /\ txn'.null = txn.null
          /\ txn'.blocks = txn.blocks /\ txn'.recovery = txn.recovery
          /\ txn'.magic = txn.magic
      BY <1>8, CancelFacts DEF Prepare
    <2>3. \/ pc'[p] \in {"txn", "release", "unmark"}
          \/ pc'[p] = "upgrade" /\ ~txn.prepared
      BY <1>8, CancelFacts DEF Prepare, GoFor, Goto, CancelPc
    <2> QED BY <2>1, <2>2, <2>3 DEF TxnTyped
  <1>9. ASSUME Commit(p) PROVE CommitOK(p)' /\ TodoOK(p)'
    BY <1>9, NoTxnFacts DEF Commit, Cancelling, CancelPc, Goto, GoFor
  <1>10. ASSUME Close(p) PROVE CommitOK(p)' /\ TodoOK(p)'
    BY <1>10, NoTxnFacts DEF Close, Gone, Unlock, Goto, GoFor
  <1>11. ASSUME OpenCheck(p) PROVE CommitOK(p)' /\ TodoOK(p)'
    BY <1>11, NoTxnFacts DEF OpenCheck, Goto, GoFor
  <1>12. ASSUME RelockHash(p) PROVE CommitOK(p)' /\ TodoOK(p)'
    BY <1>12, NoTxnFacts DEF RelockHash, Goto, GoFor
  <1>13. ASSUME Restart(p) PROVE CommitOK(p)' /\ TodoOK(p)'
    BY <1>13, NoTxnFacts DEF Restart, Goto, GoFor
  <1>14. ASSUME LockAllRead(p) PROVE CommitOK(p)' /\ TodoOK(p)'
    <2>1. UNCHANGED <<file, area, todo>> /\ goal'[p] \notin Success /\ pc'[p] \in {"lockall", "txn"}
      BY <1>14 DEF LockAllRead, Goto, GoFor
    <2>2. pc'[p] = "txn" => DOMAIN txn'.blocks = {} /\ txn'.null
      <3>1. pc'[p] = "txn" => txn' = [NoTxn EXCEPT !.eof = file[Size]]
        BY <1>14 DEF LockAllRead, GoFor, Goto
      <3>2. LET t == [NoTxn EXCEPT !.eof = file[Size]] IN DOMAIN t.blocks = {} /\ t.null = TRUE
        BY NoTxnFacts
      <3> QED BY ONLY <3>1, <3>2
    <2> QED BY <2>1, <2>2
  <1>15. ASSUME Upgrade(p) PROVE CommitOK(p)' /\ TodoOK(p)'
    <2>1. /\ pc[p] = "upgrade" /\ ~txn.prepared /\ goal[p] \notin Success
          /\ UNCHANGED <<file, txn, goal, area, todo>>
      BY <1>15 DEF Upgrade
    <2>2. pc'[p] \in {"lockopen", "txn", "unmark", "release"}
      BY <1>15 DEF Upgrade, PrepareFails, CancelPc, Goto
    <2> QED BY <2>1, <2>2
  <1>16. ASSUME LockOpen(p) PROVE CommitOK(p)' /\ TodoOK(p)'
    BY <1>16, NoTxnFacts DEF LockOpen, Goto
  <1>17. ASSUME SetupNull(p) PROVE CommitOK(p)' /\ TodoOK(p)'
    BY <1>17, NoTxnFacts DEF SetupNull, CancelPc, Goto
  <1>18. ASSUME Setup(p) PROVE CommitOK(p)' /\ TodoOK(p)'
    <2>1. /\ pc[p] = "setup" /\ ~txn.prepared /\ goal[p] \notin Success
          /\ UNCHANGED <<file, goal, todo>>
      BY <1>18 DEF Setup
    <2>2. /\ txn'.prepared = txn.prepared /\ txn'.recovery = txn.recovery
          /\ Data(1) \in DOMAIN txn'.blocks => Data(1) \in DOMAIN txn.blocks
      BY <1>18, CellFacts DEF Setup
    <2>3. \/ pc'[p] = "record" /\ area' = file[Recovery] /\ area' # 0
          \/ pc'[p] = "expand"
      BY <1>18 DEF Setup, Goto, Fits, RecoveryArea
    <2> QED BY <2>1, <2>2, <2>3
  <1>19. ASSUME Expand(p) PROVE CommitOK(p)' /\ TodoOK(p)'
    <2>1. /\ pc[p] = "expand" /\ ~txn.prepared /\ goal[p] \notin Success
          /\ UNCHANGED <<txn, goal, todo>>
      BY <1>19 DEF Expand
    <2>2. file'[Recovery] = file[Recovery]
      BY <1>19, ExpandFacts, CellFacts, KindFacts
    <2>3. \/ pc'[p] = "point" /\ area' # 0
          \/ pc'[p] \in {"txn", "unmark", "release"}
      BY <1>19 DEF Expand, PrepareFails, CancelPc, Goto, Area
    <2> QED BY <2>1, <2>2, <2>3
  <1>20. ASSUME Point(p) PROVE CommitOK(p)' /\ TodoOK(p)'
    <2>1. /\ pc[p] = "point" /\ ~txn.prepared /\ goal[p] \notin Success /\ area # 0
          /\ UNCHANGED <<goal, area, todo>>
      BY <1>20 DEF Point
    <2>2. txn'.prepared = txn.prepared /\ txn'.blocks = txn.blocks
      BY <1>20 DEF Point, WriteExisting
    <2>3. \/ pc'[p] = "record" /\ file'[Recovery] = area /\ txn'.recovery = area
          \/ pc'[p] \in {"txn", "unmark", "release"} /\ UNCHANGED file /\ txn'.recovery = txn.recovery
      BY <1>20, Put1Facts, KindFacts DEF Point, PrepareFails, CancelPc, Goto, IoError,
         WriteExisting
    <2> QED BY <2>1, <2>2, <2>3
  <1>21. ASSUME Record(p) PROVE CommitOK(p)' /\ TodoOK(p)'
    <2>1. /\ pc[p] = "record" /\ ~txn.prepared /\ goal[p] \notin Success /\ area # 0
          /\ UNCHANGED <<txn, goal, area, todo>>
      BY <1>21 DEF Record
    <2>2. file'[Recovery] = file[Recovery]
      <3>1. area \in Area
        BY <2>1 DEF Area
      <3> QED BY <1>21, <3>1, RecordFacts, CellFacts, KindFacts DEF store
    <2>3. pc'[p] \in {"sync1", "txn", "unmark", "release"}
      BY <1>21 DEF Record, PrepareFails, CancelPc, Goto
    <2> QED BY <2>1, <2>2, <2>3
  <1>22. ASSUME Sync1(p) PROVE CommitOK(p)' /\ TodoOK(p)'
    <2>1. /\ pc[p] = "sync1" /\ ~txn.prepared /\ goal[p] \notin Success
          /\ UNCHANGED <<file, txn, goal, area, todo>>
      BY <1>22 DEF Sync1, Sync, IoError
    <2>2. pc'[p] \in {"mark", "txn", "unmark", "release"}
      BY <1>22 DEF Sync1, PrepareFails, CancelPc, Goto
    <2> QED BY <2>1, <2>2
  <1>23. ASSUME Mark(p) PROVE CommitOK(p)' /\ TodoOK(p)'
    <2>1. /\ pc[p] = "mark" /\ ~txn.prepared /\ goal[p] \notin Success
          /\ UNCHANGED <<goal, area, todo>>
      BY <1>23 DEF Mark
    <2>2. /\ txn'.prepared = txn.prepared /\ txn'.blocks = txn.blocks
          /\ txn'.recovery = txn.recovery /\ txn'.magic = area
      BY <1>23 DEF Mark
    <2>3. file'[Recovery] = file[Recovery]
      BY <1>23, Put1Facts, CellFacts, KindFacts DEF Mark, IoError
    <2>4. pc'[p] \in {"sync2", "txn", "unmark", "release"}
      BY <1>23 DEF Mark, PrepareFails, CancelPc, Goto
    <2> QED BY <2>1, <2>2, <2>3, <2>4
  <1>24. ASSUME Sync2(p) PROVE CommitOK(p)' /\ TodoOK(p)'
    <2>1. /\ pc[p] = "sync2" /\ ~txn.prepared /\ goal[p] \notin Success
          /\ UNCHANGED <<file, goal, area>>
      BY <1>24 DEF Sync2, Sync, IoError
    <2>2. /\ txn'.blocks = txn.blocks /\ txn'.recovery = txn.recovery
          /\ txn'.magic = txn.magic
      BY <1>24 DEF Sync2
    <2>3. \/ pc'[p] = "write" /\ todo' = DOMAIN txn.blocks
          \/ pc'[p] = "txn"
          \/ pc'[p] \in {"unmark", "release"}
      BY <1>24 DEF Sync2, PrepareFails, CancelPc, Goto
    <2> QED BY <2>1, <2>2, <2>3
  <1>25. ASSUME CommitWrite(p) PROVE CommitOK(p)' /\ TodoOK(p)'
    <2>1. /\ pc[p] = "write" /\ todo # {} /\ goal[p] \notin Success /\ First(todo) \in todo
          /\ UNCHANGED <<txn, area>>
      BY <1>25, FirstFact DEF CommitWrite
    <2>2. CASE pc'[p] = "check"
      <3>1. goal'[p] = "abort"
        BY <1>25, <2>1, <2>2 DEF CommitWrite, GoFor
      <3> QED BY <2>2, <3>1
    <2>3. CASE pc'[p] # "check"
      <3> DEFINE c == First(todo)
                 new == [d \in {c} \cup (IF c = Data(1) THEN {Recovery} ELSE {}) |->
                          IF d = Recovery THEN txn.recovery ELSE txn.blocks[d]]
      <3>1. Put(new) /\ todo' = todo \ {c} /\ UNCHANGED <<pc, goal>>
        BY <1>25, <2>3 DEF CommitWrite, GoFor, Goto
      <3>2. c \in DOMAIN txn.blocks /\ c \in DataCell \cup HeadCell /\ c # Recovery
        BY <2>1, KindFacts
      <3>3. file'[c] = txn.blocks[c]
        BY <3>1, <3>2, KindFacts DEF Put
      <3>4. file'[Recovery] = file[Recovery]
        BY <2>1, <3>1, <3>2, KindFacts DEF Put
      <3>5. \A d \in DataCell \ {c} : file'[d] = file[d]
        BY <3>1, KindFacts DEF Put
      <3> HIDE DEF c, new
      <3> QED BY <2>1, <3>1, <3>3, <3>4, <3>5
    <2> QED BY <2>2, <2>3
  <1>26. ASSUME CommitSync(p) PROVE CommitOK(p)' /\ TodoOK(p)'
    <2>1. /\ pc[p] = "write" /\ todo = {} /\ UNCHANGED <<file, area, todo>>
      BY <1>26 DEF CommitSync, Sync, IoError
    <2>2. /\ txn'.blocks = txn.blocks /\ txn'.recovery = txn.recovery
          /\ txn'.magic = txn.magic /\ txn'.null = TRUE
      BY <1>26 DEF CommitSync
    <2>3. \/ pc'[p] = "txn" /\ goal'[p] = "none"
          \/ pc'[p] = "unmark" /\ goal'[p] = "committed"
      BY <1>26, <2>1 DEF CommitSync, GoFor, CancelPc, Goto
    <2> QED BY <2>1, <2>2, <2>3
  <1>27. ASSUME Unmark(p) PROVE CommitOK(p)' /\ TodoOK(p)'
    <2>1. pc[p] = "unmark" /\ UNCHANGED <<txn, area, todo>>
      BY <1>27 DEF Unmark
    <2>2. CASE goal'[p] = "committed"
      <3>1. /\ Put1(Head(txn.magic), [file[Head(txn.magic)] EXCEPT !.magic = "invalid"])
            /\ pc'[p] = "unmarksync" /\ UNCHANGED goal
        BY <1>27, <2>2 DEF Unmark, UnmarkFails, Goto, GoFor
      <3>2. txn.magic \in Area
        BY <2>1 DEF TxnTyped, Area
      <3>3. /\ file'[Recovery] = file[Recovery]
            /\ \A c \in DataCell : file'[c] = file[c]
            /\ file'[Head(txn.magic)] = [file[Head(txn.magic)] EXCEPT !.magic = "invalid"]
        BY <3>1, <3>2, Put1Facts, CellFacts, KindFacts
      <3>4. file'[Head(txn.magic)].magic = "invalid"
        BY <3>2, <3>3, FileFacts DEF HeadRecord
      <3> QED BY <2>1, <2>2, <3>1, <3>3, <3>4
    <2>3. CASE goal'[p] = "logged"
      <3>1. UNCHANGED file /\ pc'[p] = "release" /\ goal[p] = "committed"
        BY <1>27, <2>3 DEF Unmark, UnmarkFails, Goto, GoFor, IoError
      <3> QED BY <2>1, <2>3, <3>1
    <2>4. CASE goal'[p] \notin Success
      <3>1. pc'[p] \in {"unmarksync", "release"}
        BY <1>27 DEF Unmark, UnmarkFails, Goto, GoFor
      <3> QED BY <2>1, <2>4, <3>1
    <2> QED BY <2>2, <2>3, <2>4
  <1>28. ASSUME UnmarkSync(p) PROVE CommitOK(p)' /\ TodoOK(p)'
    <2>1. pc[p] = "unmarksync" /\ pc'[p] = "release" /\ UNCHANGED <<file, txn, area, todo>>
      BY <1>28 DEF UnmarkSync, UnmarkFails, Goto, GoFor, Sync, IoError
    <2>2. goal'[p] = "committed" => goal[p] = "committed" /\ \A c \in Cell : disk'[c] = {file[c]}
      BY <1>28 DEF UnmarkSync, UnmarkFails, Sync, GoFor
    <2>3. goal'[p] = "logged" => goal[p] = "committed"
      BY <1>28 DEF UnmarkSync, UnmarkFails, GoFor
    <2> QED BY <2>1, <2>2, <2>3
  <1>29. ASSUME Release(p) PROVE CommitOK(p)' /\ TodoOK(p)'
    BY <1>29, NoTxnFacts DEF Release, Unlock, Goto, GoFor
  <1>30. ASSUME LockAll(p) PROVE CommitOK(p)' /\ TodoOK(p)'
    BY <1>30, NoTxnFacts DEF LockAll, Goto
  <1>31. ASSUME RecoverLockOpen(p) PROVE CommitOK(p)' /\ TodoOK(p)'
    BY <1>31, NoTxnFacts DEF RecoverLockOpen, Goto
  <1>32. ASSUME Check(p) PROVE CommitOK(p)' /\ TodoOK(p)'
    <2>1. /\ pc[p] = "check" /\ goal[p] \notin Success /\ UNCHANGED <<file, txn, goal>>
          /\ pc'[p] \in {"recovered", "restore"}
      BY <1>32 DEF Check, Goto
    <2>2. pc'[p] = "restore" => area' # 0 /\ todo' \subseteq DOMAIN file[Body(area')]
      BY <1>32 DEF Check, Goto, NeedsRecovery
    <2> QED BY <2>1, <2>2
  <1>33. ASSUME Restore(p) PROVE CommitOK(p)' /\ TodoOK(p)'
    <2>1. /\ pc[p] = "restore" /\ todo # {} /\ goal[p] \notin Success /\ First(todo) \in todo
          /\ pc'[p] \in {"restore", "failed"} /\ todo' \subseteq todo /\ UNCHANGED <<txn, goal, area>>
      BY <1>33, FirstFact DEF Restore, RecoverFails, Goto
    <2>2. area \in Area /\ First(todo) \in DataCell \cup HeadCell
      BY <2>1 DEF Area
    <2>3. file'[Body(area)] = file[Body(area)]
      BY <1>33, <2>2, Put1Facts, KindFacts DEF Restore, RecoverFails, IoError
    <2> QED BY <2>1, <2>3
  <1>34. ASSUME RestoreSync(p) PROVE CommitOK(p)' /\ TodoOK(p)'
    BY <1>34, NoTxnFacts DEF RestoreSync, RecoverFails, IoError, Goto
  <1>35. ASSUME Unpoint(p) PROVE CommitOK(p)' /\ TodoOK(p)'
    BY <1>35, NoTxnFacts DEF Unpoint, RecoverFails, IoError, Goto
  <1>36. ASSUME Invalidate(p) PROVE CommitOK(p)' /\ TodoOK(p)'
    BY <1>36, NoTxnFacts DEF Invalidate, RecoverFails, IoError, Goto
  <1>37. ASSUME InvalidateSync(p) PROVE CommitOK(p)' /\ TodoOK(p)'
    BY <1>37, NoTxnFacts DEF InvalidateSync, RecoverFails, IoError, Goto
  <1>38. ASSUME Recovered(p) PROVE CommitOK(p)' /\ TodoOK(p)'
    BY <1>38, NoTxnFacts DEF Recovered, Unlock, CancelPc, AfterRecovery, Goto, GoFor
  <1>39. ASSUME Die(p) PROVE CommitOK(p)' /\ TodoOK(p)'
    BY <1>39, NoTxnFacts DEF Die, Gone, Unlock, Goto, GoFor
  <1> QED
    BY <1>1, <1>2, <1>3, <1>4, <1>5, <1>6, <1>7, <1>8, <1>9, <1>10, <1>11, <1>12,
       <1>13, <1>14, <1>15, <1>16, <1>17, <1>18, <1>19, <1>20, <1>21, <1>22, <1>23,
       <1>24, <1>25, <1>26, <1>27, <1>28, <1>29, <1>30, <1>31, <1>32, <1>33, <1>34,
       <1>35, <1>36, <1>37, <1>38, <1>39 DEF Calls, Steps

\* The same for a process that does not take the step: whatever the
\* invariant says of it, it says of what that process alone may change.
LEMMA CommitOther ==
  ASSUME NEW p \in Proc, Safe, Calls(p) \/ Steps(p) \/ Die(p), NEW q \in Proc, q # p
  PROVE  CommitOK(q)' /\ TodoOK(q)'
  <1>0. /\ LockInv /\ StartInv /\ CommitOK(q) /\ TodoOK(q)
        /\ pc'[q] = pc[q] /\ goal'[q] = goal[q]
        /\ wr # p => UNCHANGED <<store, area, todo>>
        /\ tlock # p => UNCHANGED txn
    BY Owners DEF Safe, CommitInv, TodoInv
  <1>1. pc[q] \in InTxn => tlock = q
    BY <1>0 DEF LockInv
  <1>2. pc[q] \in Committing \cup Unmarking \cup Recovering => wr = q
    BY <1>0 DEF LockInv
  <1>3. pc[q] \in {"txn", "upgrade"} => wr # p
    BY <1>0, NtdbAssumption DEF LockInv
  <1>4. goal[q] \in Success => wr = q /\ pc[q] \in InTxn
    BY <1>0, <1>1, <1>2 DEF LockInv, StartInv, CommitOK, InTxn, Unmarking, Success
  <1>5. CASE pc[q] \in Committing \cup {"txn", "upgrade"} \/ goal[q] \in Success
    <2>1. UNCHANGED <<store, area, todo, txn>>
      BY <1>0, <1>1, <1>2, <1>3, <1>4, <1>5 DEF InTxn
    <2>2. pc[q] # "restore"
      BY <1>4, <1>5 DEF InTxn, Committing, Unmarking
    <2>3. CommitOK(q)'
      BY <1>0, <2>1 DEF CommitOK, store, Success
    <2> QED BY <1>0, <2>2, <2>3 DEF TodoOK
  <1>6. CASE ~(pc[q] \in Committing \cup {"txn", "upgrade"} \/ goal[q] \in Success)
    <2>1. CommitOK(q)'
      BY <1>0, <1>6 DEF CommitOK, Committing, Success
    <2>2. TodoOK(q)'
      BY <1>0, <1>2 DEF TodoOK, store, Recovering
    <2> QED BY <2>1, <2>2
  <1> QED BY <1>5, <1>6
-----------------------------------------------------------------------------
(* The invariant *)

LEMMA SafeInit == Init => Safe
  <1> SUFFICES ASSUME Init PROVE Safe
    OBVIOUS
  <1>1. Blank \in Values /\ budget \in Budget
    BY NtdbAssumption DEF Blank, Init
  <1> DEFINE e(c) == CASE c[1] = "data" -> Blank
                       [] c[1] = "head" -> Fill
                       [] c[1] = "body" -> Torn
                       [] OTHER -> 0
  <1>2. file = [c \in Cell |-> e(c)]
    BY DEF Init
  <1>3. \A c \in Cell : Typed(c, e(c))
    <2>1. \A c \in HeaderCell : e(c) = 0
      BY DEF HeaderCell, Size, Recovery
    <2>2. \A c \in HeadCell : e(c) = Fill
      BY DEF HeadCell, Head
    <2>3. \A c \in BodyCell : e(c) = Torn
      BY DEF BodyCell, Body
    <2> HIDE DEF e
    <2>4. \A c \in HeaderCell : Typed(c, e(c))
      BY <2>1, KindFacts, NtdbAssumption DEF Typed
    <2>5. \A c \in DataCell : Typed(c, e(c))
      BY KindFacts DEF Typed
    <2>6. \A c \in HeadCell : Typed(c, e(c))
      BY <2>2, KindFacts DEF Typed, HeadRecord, Fill
    <2>7. \A c \in BodyCell : Typed(c, e(c))
      BY <2>3, KindFacts DEF Typed, Torn
    <2> QED BY <2>4, <2>5, <2>6, <2>7 DEF Cell
  <1> HIDE DEF e
  <1>4. StoreTyped
    <2>1. \A c \in Cell : file[c] = e(c) /\ disk[c] = {file[c]}
      BY <1>2 DEF Init
    <2>2. file = [c \in Cell |-> file[c]]
      BY <1>2
    <2>3. disk = [c \in Cell |-> disk[c]]
      BY DEF Init
    <2> QED BY <1>3, <2>1, <2>2, <2>3 DEF StoreTyped, FileTyped
  <1>5. Typing
    BY <1>1, <1>4, NoTxnTyped, NtdbAssumption DEF Init, Typing, TypeOK, StoreTyped,
       PcLabel, Goal
  <1>6. LockInv
    BY NtdbAssumption
       DEF Init, LockInv, Committing, Recovering, Unmarking, InTxn, Nested
  <1>7. StartInv
    BY NoTxnFacts DEF Init, StartInv, Nested, Recovering, Unmarking
  <1>8. CommitInv /\ TodoInv
    BY DEF Init, CommitInv, CommitOK, TodoInv, TodoOK, Committing, Success
  <1> QED BY <1>5, <1>6, <1>7, <1>8 DEF Safe

\* After a machine crash there are no processes, and the file has values
\* that were on their way to the disk.
LEMMA SafeCrash ==
  ASSUME Safe, Crash
  PROVE  Safe'
  <1>1. TypeOK /\ StoreTyped
    BY DEF Safe, Typing
  <1>2. budget' \in Budget
    BY <1>1 DEF TypeOK, Crash, Budget
  <1>3. file' = [c \in Cell |-> file'[c]] /\ \A c \in Cell : file'[c] \in disk[c]
    BY ImageFacts DEF Crash
  <1>4. disk' = [c \in Cell |-> disk'[c]] /\ \A c \in Cell : disk'[c] = {file'[c]}
    BY DEF Crash
  <1>5. StoreTyped'
    BY <1>1, <1>3, <1>4 DEF StoreTyped, FileTyped
  <1>6. Typing'
    BY <1>2, <1>5, NoTxnTyped, NtdbAssumption DEF Crash, Typing, TypeOK, StoreTyped,
       PcLabel, Goal
  <1>7. LockInv'
    BY NtdbAssumption
       DEF Crash, LockInv, Committing, Recovering, Unmarking, InTxn, Nested
  <1>8. StartInv'
    BY NoTxnFacts DEF Crash, StartInv, Nested, Recovering, Unmarking
  <1>9. CommitInv' /\ TodoInv'
    BY DEF Crash, CommitInv, CommitOK, TodoInv, TodoOK, Committing, Success
  <1> QED BY <1>6, <1>7, <1>8, <1>9 DEF Safe

LEMMA SafeStep ==
  ASSUME NEW p \in Proc, Safe, Calls(p) \/ Steps(p) \/ Die(p)
  PROVE  Safe'
  <1>1. Typing' /\ LockInv' /\ StartInv'
    BY TypeStep, LockStep, StartStep
  <1>2. \A q \in Proc : CommitOK(q)' /\ TodoOK(q)'
    BY CommitOwn, CommitOther
  <1> QED BY <1>1, <1>2 DEF Safe, CommitInv, TodoInv

LEMMA SafeStutter ==
  ASSUME Safe, UNCHANGED vars
  PROVE  Safe'
  <1>1. Typing'
    BY DEF Safe, Typing, TypeOK, StoreTyped, FileTyped, TxnTyped, TxnShape, vars
  <1>2. LockInv' /\ StartInv'
    BY DEF Safe, LockInv, StartInv, Nested, vars
  <1>3. CommitInv' /\ TodoInv'
    BY DEF Safe, CommitInv, CommitOK, TodoInv, TodoOK, vars
  <1> QED BY <1>1, <1>2, <1>3 DEF Safe

\* Safe is an inductive invariant of ntdb transactions, however many
\* processes, deaths, crashes and I/O errors there are: the locks of lock.c
\* are where the code of transaction.c relies on them, the header that a
\* commit writes is the one in the file, and what it has written is there.
THEOREM Inductive == Spec => []Safe
  <1>1. Init => Safe
    BY SafeInit
  <1>2. Safe /\ [Next]_vars => Safe'
    BY SafeCrash, SafeStep, SafeStutter DEF Next
  <1> QED BY <1>1, <1>2, PTL DEF Spec

\* The file, what a crash may leave of it, the locks, the transaction and
\* the processes always hold what their declarations in lock.c,
\* transaction.c and private.h say.
THEOREM TypeCorrect == Spec => []TypeOK
  <1>1. Safe => TypeOK
    BY DEF Safe, Typing
  <1> QED BY <1>1, Inductive, PTL
-----------------------------------------------------------------------------
(* Durability *)

\* If nothing is left to sync, a crash leaves the file as it is.
LEMMA SyncedImages ==
  ASSUME StoreTyped, \A c \in Cell : disk[c] = {file[c]}
  PROVE  Images = {file}
  <1>1. \A f \in Images : f = file
    BY ImageFacts DEF StoreTyped
  <1>2. ASSUME NEW cells, cells \subseteq Cell
        PROVE  [c \in cells |-> file[c]] \in Left(cells)
    BY <1>2 DEF Left
  <1>3. PICK h \in Left(HeaderCell) : TRUE
    BY <1>2 DEF Cell
  <1>4. PICK d \in Left(DataCell) : TRUE
    BY <1>2, KindFacts
  <1>5. PICK r \in Left(HeadCell) : TRUE
    BY <1>2, KindFacts
  <1>6. PICK b \in Left(BodyCell) : TRUE
    BY <1>2, KindFacts
  <1>7. Joined(h, d, r, b) \in Images
    BY DEF Images
  <1> QED BY <1>1, <1>7

LEMMA DurableLemma ==
  ASSUME Safe
  PROVE  CommitDurable
  <1> SUFFICES ASSUME NEW p \in Proc, pc[p] = "release", goal[p] \in Success
               PROVE  /\ \A pg \in DOMAIN Pending : file[Data(pg)] = Pending[pg]
                      /\ goal[p] = "committed" => Durable
    BY DEF CommitDurable
  <1>1. /\ txn.magic = file[Recovery]
        /\ \A c \in DOMAIN txn.blocks \cap DataCell : file[c] = txn.blocks[c]
    BY DEF Safe, CommitInv, CommitOK
  <1>2. \A pg \in DOMAIN Pending : file[Data(pg)] = Pending[pg]
    BY <1>1, KindFacts DEF Pending
  <1>3. ASSUME goal[p] = "committed" PROVE Durable
    <2>1. file[Head(txn.magic)].magic # "valid" /\ \A c \in Cell : disk[c] = {file[c]}
      BY <1>3 DEF Safe, CommitInv, CommitOK
    <2>2. ~NeedsRecovery(file)
      BY <1>1, <2>1 DEF NeedsRecovery
    <2>3. \A pg \in DOMAIN Pending : Database(file)[pg] = Pending[pg]
      BY <1>2, <2>2 DEF Pending, Database
    <2>4. Images = {file}
      BY <2>1, SyncedImages DEF Safe, Typing
    <2>5. AfterCrash = {Database(file)}
      BY <2>4 DEF AfterCrash
    <2> QED BY <2>3, <2>5 DEF Durable
  <1> QED BY <1>2, <1>3

\* When ntdb_transaction_commit has returned success, all of its writes are
\* in the pages, and, if the recovery marker could be removed, they are in
\* the database and no crash can take them back, for any sequence of
\* deaths, crashes and I/O errors before it.  A commit that returns success
\* with its marker left in the file is not durable: SuccessMeansDurable.
THEOREM DurableCorrect == Spec => []CommitDurable
  BY Inductive, DurableLemma, PTL
-----------------------------------------------------------------------------
(* Reading *)

\* No step changes the pages under a reader: who writes has the write lock,
\* which nobody has while there is a reader.
LEMMA StableStep ==
  ASSUME Safe, [Next]_vars, rd \cap rd' # {}, NEW pg \in Page
  PROVE  file'[Data(pg)] = file[Data(pg)]
  <1>1. ~Crash
    BY DEF Crash
  <1>2. wr = NULL
    BY DEF Safe, LockInv
  <1>3. ASSUME NEW p \in Proc, Calls(p) \/ Steps(p) \/ Die(p)
        PROVE  UNCHANGED file
    BY <1>2, <1>3, Owners, NtdbAssumption DEF store
  <1> QED BY <1>1, <1>3 DEF Next, vars

\* While a process has a read lock, on a hash chain or on all of them in a
\* transaction, no commit and no recovery of another process changes the
\* pages, whatever fails.
THEOREM StableCorrect == Spec => StableReads
  <1>1. Safe /\ [Next]_vars =>
          [rd \cap rd' # {} => \A pg \in Page : file'[Data(pg)] = file[Data(pg)]]_vars
    BY StableStep
  <1> QED BY <1>1, Inductive, PTL DEF Spec, StableReads
=============================================================================
