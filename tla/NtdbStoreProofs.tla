-------------------------- MODULE NtdbStoreProofs --------------------------
(***************************************************************************)
(* ntdb transactions implement the store that changes by one transaction   *)
(* at a time (NtdbStore), and readers see committed data, for any number   *)
(* of processes, pages and recovery areas, as long as failures of one sort *)
(* happen.                                                                 *)
(***************************************************************************)
EXTENDS NtdbSoundProofs

-----------------------------------------------------------------------------
(* The store *)

\* What the pages hold, and the files of which that is the database: no
\* commit was cut short in them, or what it saved was not overwritten.
Plain(f) == [pg \in Page |-> f[Data(pg)]]

Old(f) ==
  \/ ~NeedsRecovery(f)
  \/ \A c \in DOMAIN f[Body(f[Recovery])] : f[c] = f[Body(f[Recovery])][c]

LEMMA PlainDatabase ==
  ASSUME NEW f, Old(f)
  PROVE  Database(f) = Plain(f)
  BY DEF Old, Database, Plain

LEMMA PlainSame ==
  ASSUME Old(file), Old(file'), \A pg \in Page : file'[Data(pg)] = file[Data(pg)]
  PROVE  Database(file)' = Database(file)
  <1>1. Database(file) = Plain(file) /\ Database(file') = Plain(file')
    BY PlainDatabase
  <1> QED BY <1>1 DEF Plain

\* Nothing that the area does not save changes.
LEMMA SavedSame ==
  ASSUME NeedsRecovery(file), file'[Recovery] = file[Recovery], file'[Size] = file[Size],
         file'[Body(file[Recovery])] = file[Body(file[Recovery])],
         file'[Head(file[Recovery])] = file[Head(file[Recovery])],
         \A pg \in Page : Data(pg) \notin DOMAIN file[Body(file[Recovery])] =>
                            file'[Data(pg)] = file[Data(pg)]
  PROVE  Database(file)' = Database(file)
  <1>1. NeedsRecovery(file')
    BY DEF NeedsRecovery
  <1> QED BY <1>1 DEF Database

\* A step leaves the database alone, or commits the transaction.
SameOrCommit ==
  \/ Database(file)' = Database(file)
  \/ /\ Database(file)' =
          [pg \in Page |-> IF pg \in DOMAIN Pending THEN Pending[pg] ELSE Database(file)[pg]]
     /\ Pending' = Pending

LEMMA ValueStep ==
  ASSUME NEW p \in Proc, Safe, Sound, Calls(p) \/ Steps(p) \/ Die(p)
  PROVE  SameOrCommit
  <1>0. /\ Safe /\ TypeOK /\ StoreTyped /\ TxnShape(txn) /\ LockInv /\ CommitOK(p) /\ TodoOK(p)
        /\ AreaInv /\ OwnOK(p) /\ FreeOK(p) /\ MarkOK(p) /\ RestoreOK(p)
        /\ TypeOK' /\ CommitOK(p)'
        /\ FreeOK(p)' /\ MarkOK(p)' /\ RestoreOK(p)'
        /\ pc[p] \notin {"closed", "opening"} => Readable
    BY SafeStep, SoundStep, ReadableStep
       DEF Safe, Typing, CommitInv, TodoInv, Sound, FreeInv, MarkInv, RestoreInv, OwnOK
  <1> USE <1>0
  <1>1. ASSUME Open(p) PROVE SameOrCommit
    <2>1. UNCHANGED file
      BY <1>1 DEF Open, Goto, store, locks
    <2> QED BY <2>1 DEF SameOrCommit
  <1>2. ASSUME LockHash(p) PROVE SameOrCommit
    <2>1. UNCHANGED file
      BY <1>2 DEF LockHash, Goto, GoFor, store, locks
    <2> QED BY <2>1 DEF SameOrCommit
  <1>3. ASSUME UnlockHash(p) PROVE SameOrCommit
    <2>1. UNCHANGED file
      BY <1>3 DEF UnlockHash, Goto, store, locks
    <2> QED BY <2>1 DEF SameOrCommit
  <1>4. ASSUME Start(p) PROVE SameOrCommit
    <2>1. UNCHANGED file
      BY <1>4 DEF Start, Goto, GoFor, store, locks
    <2> QED BY <2>1 DEF SameOrCommit
  <1>5. ASSUME NEW pg \in Page, NEW v \in Values, Write(p, pg, v) PROVE SameOrCommit
    <2>1. UNCHANGED file
      BY <1>5 DEF Write, IoError, store, locks
    <2> QED BY <2>1 DEF SameOrCommit
  <1>6. ASSUME NestedStart(p) PROVE SameOrCommit
    <2>1. UNCHANGED file
      BY <1>6 DEF NestedStart, store, locks
    <2> QED BY <2>1 DEF SameOrCommit
  <1>7. ASSUME Cancel(p) PROVE SameOrCommit
    <2>1. UNCHANGED file
      BY <1>7 DEF Cancel, CancelTxn, Cancelling, CancelPc, Goto, store, locks
    <2> QED BY <2>1 DEF SameOrCommit
  <1>8. ASSUME Prepare(p) PROVE SameOrCommit
    <2>1. UNCHANGED file
      BY <1>8 DEF Prepare, CancelTxn, Cancelling, CancelPc, Goto, GoFor, store, locks
    <2> QED BY <2>1 DEF SameOrCommit
  <1>9. ASSUME Commit(p) PROVE SameOrCommit
    <2>1. UNCHANGED file
      BY <1>9 DEF Commit, Cancelling, CancelPc, Goto, GoFor, store, locks
    <2> QED BY <2>1 DEF SameOrCommit
  <1>10. ASSUME Close(p) PROVE SameOrCommit
    <2>1. UNCHANGED file
      BY <1>10 DEF Close, Gone, Unlock, Goto, GoFor, store, locks
    <2> QED BY <2>1 DEF SameOrCommit
  <1>11. ASSUME OpenCheck(p) PROVE SameOrCommit
    <2>1. UNCHANGED file
      BY <1>11 DEF OpenCheck, Goto, GoFor, store, locks
    <2> QED BY <2>1 DEF SameOrCommit
  <1>12. ASSUME RelockHash(p) PROVE SameOrCommit
    <2>1. UNCHANGED file
      BY <1>12 DEF RelockHash, Goto, GoFor, store, locks
    <2> QED BY <2>1 DEF SameOrCommit
  <1>13. ASSUME Restart(p) PROVE SameOrCommit
    <2>1. UNCHANGED file
      BY <1>13 DEF Restart, Goto, GoFor, store, locks
    <2> QED BY <2>1 DEF SameOrCommit
  <1>14. ASSUME LockAllRead(p) PROVE SameOrCommit
    <2>1. UNCHANGED file
      BY <1>14 DEF LockAllRead, Goto, GoFor, store, locks
    <2> QED BY <2>1 DEF SameOrCommit
  <1>15. ASSUME Upgrade(p) PROVE SameOrCommit
    <2>1. UNCHANGED file
      BY <1>15 DEF Upgrade, PrepareFails, CancelPc, Goto, store, locks
    <2> QED BY <2>1 DEF SameOrCommit
  <1>16. ASSUME LockOpen(p) PROVE SameOrCommit
    <2>1. UNCHANGED file
      BY <1>16 DEF LockOpen, Goto, store, locks
    <2> QED BY <2>1 DEF SameOrCommit
  <1>17. ASSUME SetupNull(p) PROVE SameOrCommit
    <2>1. UNCHANGED file
      BY <1>17 DEF SetupNull, CancelPc, Goto, store, locks
    <2> QED BY <2>1 DEF SameOrCommit
  <1>18. ASSUME Setup(p) PROVE SameOrCommit
    <2>1. UNCHANGED file
      BY <1>18 DEF Setup, Goto, store, locks
    <2> QED BY <2>1 DEF SameOrCommit
  <1>19. ASSUME Expand(p) PROVE SameOrCommit
    <2>1. CASE UNCHANGED file
      BY <2>1 DEF SameOrCommit
    <2>2. CASE ~UNCHANGED file
      <3>1. \A pg \in Page : file'[Data(pg)] = file[Data(pg)]
        BY <1>0, <1>19, <2>2, ExpandFacts, KindFacts, CellFacts DEF store
      <3>2. Old(file)
        BY <1>19 DEF Expand, MarkOK, Old
      <3>3. Old(file')
        BY <1>0, <1>19, <2>2, ExpandFacts DEF store, MarkOK, Old, TypeOK
      <3> QED BY <3>1, <3>2, <3>3, PlainSame DEF SameOrCommit
    <2> QED BY <2>1, <2>2
  <1>20. ASSUME Point(p) PROVE SameOrCommit
    <2>1. CASE UNCHANGED file
      BY <2>1 DEF SameOrCommit
    <2>2. CASE ~UNCHANGED file
      <3>1. \A pg \in Page : file'[Data(pg)] = file[Data(pg)]
        BY <1>20, <2>2, Put1Facts, KindFacts, CellFacts DEF Point, IoError, store
      <3>2. Old(file)
        BY <1>20 DEF Point, MarkOK, Old
      <3>3. Old(file')
        BY <1>0, <1>20, <2>2 DEF Point, IoError, Goto, store, MarkOK, Old, TypeOK
      <3> QED BY <3>1, <3>2, <3>3, PlainSame DEF SameOrCommit
    <2> QED BY <2>1, <2>2
  <1>21. ASSUME Record(p) PROVE SameOrCommit
    <2>1. CASE UNCHANGED file
      BY <2>1 DEF SameOrCommit
    <2>2. CASE ~UNCHANGED file
      <3>0. area \in Area
        BY <1>0, <1>21 DEF Record, CommitOK, TypeOK, Area
      <3>1. \A pg \in Page : file'[Data(pg)] = file[Data(pg)]
        BY <1>0, <1>21, <2>2, <3>0, RecordFacts, KindFacts, CellFacts DEF store
      <3>2. Old(file)
        BY <1>21 DEF Record, MarkOK, Old
      <3>3. Old(file')
        BY <1>0, <1>21, <2>2, <3>0, RecordFacts DEF store, MarkOK, Old, TypeOK
      <3> QED BY <3>1, <3>2, <3>3, PlainSame DEF SameOrCommit
    <2> QED BY <2>1, <2>2
  <1>22. ASSUME Sync1(p) PROVE SameOrCommit
    <2>1. UNCHANGED file
      BY <1>22 DEF Sync1, PrepareFails, CancelPc, Goto, IoError, Sync, store, locks
    <2> QED BY <2>1 DEF SameOrCommit
  <1>23. ASSUME Mark(p) PROVE SameOrCommit
    <2>1. CASE UNCHANGED file
      BY <2>1 DEF SameOrCommit
    <2>2. CASE ~UNCHANGED file
      <3>1. \A pg \in Page : file'[Data(pg)] = file[Data(pg)]
        BY <1>23, <2>2, Put1Facts, KindFacts, CellFacts DEF Mark, IoError, store
      <3>2. Old(file)
        BY <1>23 DEF Mark, MarkOK, Old
      <3>3. Old(file')
        BY <1>0, <1>23, <2>2 DEF Mark, IoError, Goto, store, MarkOK, CommitOK, Clean,
           Old, TypeOK
      <3> QED BY <3>1, <3>2, <3>3, PlainSame DEF SameOrCommit
    <2> QED BY <2>1, <2>2
  <1>24. ASSUME Sync2(p) PROVE SameOrCommit
    <2>1. UNCHANGED file
      BY <1>24 DEF Sync2, PrepareFails, CancelPc, Goto, IoError, Sync, store, locks
    <2> QED BY <2>1 DEF SameOrCommit
  <1>25. ASSUME CommitWrite(p) PROVE SameOrCommit
    <2>1. CASE pc'[p] = "check"
      <3>1. UNCHANGED file
        BY <1>0, <1>25, <2>1 DEF CommitWrite, IoError, store, TypeOK
      <3> QED BY <3>1 DEF SameOrCommit
    <2>2. CASE pc'[p] # "check"
      <3>1. /\ pc[p] = "write" /\ area # 0 /\ area = file[Recovery]
            /\ Elsewhere(DOMAIN txn.blocks, area) /\ Covered(file[Body(area)]) /\ Readable
        BY <1>0, <1>25 DEF CommitWrite, CommitOK, MarkOK, FreeOK
      <3>2. /\ area \in Area /\ DOMAIN txn.blocks \subseteq DataCell \cup HeadCell
            /\ Head(area) \notin DOMAIN txn.blocks
        BY <1>0, <3>1 DEF TypeOK, Area, TxnTyped, Elsewhere
      <3>3. PICK c \in DOMAIN txn.blocks : \A d \in Cell : file'[d] = IF d = c THEN txn.blocks[c] ELSE file[d]
        BY <1>0, <1>25, <2>2, CommitWriteFacts
      <3>4. /\ file'[Recovery] = file[Recovery] /\ file'[Size] = file[Size]
            /\ file'[Body(area)] = file[Body(area)] /\ file'[Head(area)] = file[Head(area)]
        BY <3>1, <3>2, <3>3, KindFacts, CellFacts
      <3>5. \A pg \in Page : Data(pg) \notin DOMAIN file[Body(area)] => file'[Data(pg)] = file[Data(pg)]
        BY <3>1, <3>3, KindFacts DEF Covered
      <3>6. NeedsRecovery(file)
        BY <1>0, <3>1, <3>2, FileFacts DEF NeedsRecovery, MarkOK, Readable, Area
      <3> QED BY <3>1, <3>4, <3>5, <3>6, SavedSame DEF SameOrCommit
    <2> QED BY <2>1, <2>2
  <1>26. ASSUME CommitSync(p) PROVE SameOrCommit
    <2>1. UNCHANGED file
      BY <1>26 DEF CommitSync, CancelPc, Goto, GoFor, IoError, Sync, store, locks
    <2> QED BY <2>1 DEF SameOrCommit
  <1>27. ASSUME Unmark(p) PROVE SameOrCommit
    <2>1. CASE UNCHANGED file
      BY <2>1 DEF SameOrCommit
    <2>2. CASE ~UNCHANGED file
      <3>1. /\ pc[p] = "unmark" /\ pc'[p] = "unmarksync" /\ UNCHANGED txn
            /\ \A pg \in Page : file'[Data(pg)] = file[Data(pg)]
        BY <1>0, <1>27, <2>2, Put1Facts, KindFacts, CellFacts DEF Unmark, UnmarkFails,
           IoError,
           Goto, store, TypeOK
      <3>2. ~NeedsRecovery(file')
        BY <1>0, <3>1 DEF MarkOK
      <3>3. CASE Old(file)
        BY <3>1, <3>2, <3>3, PlainSame DEF SameOrCommit, Old
      <3>4. CASE ~Old(file)
        <4>1. NeedsRecovery(file) /\ Covered(file[Body(file[Recovery])]) /\ Done
          BY <1>0, <3>1, <3>4 DEF MarkOK, Old, Clean
        <4>2. Database(file)' = Plain(file')
          BY <3>2, PlainDatabase DEF Old
        <4>3. \A pg \in DOMAIN Pending : pg \in Page /\ file'[Data(pg)] = Pending[pg]
          BY <3>1, <4>1, KindFacts DEF Pending, Done
        <4>4. \A pg \in Page \ DOMAIN Pending : file'[Data(pg)] = Database(file)[pg]
          BY <3>1, <4>1 DEF Pending, Database, Covered
        <4>5. Pending' = Pending
          BY <3>1 DEF Pending
        <4> QED BY <4>2, <4>3, <4>4, <4>5 DEF SameOrCommit, Plain
      <3> QED BY <3>3, <3>4
    <2> QED BY <2>1, <2>2
  <1>28. ASSUME UnmarkSync(p) PROVE SameOrCommit
    <2>1. UNCHANGED file
      BY <1>28 DEF UnmarkSync, UnmarkFails, Goto, GoFor, IoError, Sync, store, locks
    <2> QED BY <2>1 DEF SameOrCommit
  <1>29. ASSUME Release(p) PROVE SameOrCommit
    <2>1. UNCHANGED file
      BY <1>29 DEF Release, Unlock, Goto, GoFor, store, locks
    <2> QED BY <2>1 DEF SameOrCommit
  <1>30. ASSUME LockAll(p) PROVE SameOrCommit
    <2>1. UNCHANGED file
      BY <1>30 DEF LockAll, Goto, store, locks
    <2> QED BY <2>1 DEF SameOrCommit
  <1>31. ASSUME RecoverLockOpen(p) PROVE SameOrCommit
    <2>1. UNCHANGED file
      BY <1>31 DEF RecoverLockOpen, Goto, store, locks
    <2> QED BY <2>1 DEF SameOrCommit
  <1>32. ASSUME Check(p) PROVE SameOrCommit
    <2>1. UNCHANGED file
      BY <1>32 DEF Check, Goto, store, locks
    <2> QED BY <2>1 DEF SameOrCommit
  <1>33. ASSUME Restore(p) PROVE SameOrCommit
    <2>1. CASE UNCHANGED file
      BY <2>1 DEF SameOrCommit
    <2>2. CASE ~UNCHANGED file
      <3> DEFINE c == First(todo)
      <3>1. /\ pc[p] = "restore" /\ todo # {} /\ NeedsRecovery(file)
            /\ area = file[Recovery] /\ area # 0 /\ todo \subseteq DOMAIN file[Body(area)]
            /\ Put1(c, file[Body(area)][c])
        BY <1>0, <1>33, <2>2 DEF Restore, RestoreOK, TodoOK, RecoverFails, IoError,
           store
      <3>2. area \in Area /\ c \in todo /\ todo \subseteq DataCell \cup HeadCell
        BY <1>0, <3>1, FirstFact DEF TypeOK, Area
      <3> HIDE DEF c
      <3>3. c # Head(area)
        BY <1>0, <3>1, <3>2 DEF AreaInv, Elsewhere
      <3>4. /\ file'[Recovery] = file[Recovery] /\ file'[Size] = file[Size]
            /\ file'[Body(area)] = file[Body(area)] /\ file'[Head(area)] = file[Head(area)]
        BY <3>1, <3>2, <3>3, Put1Facts, KindFacts, CellFacts
      <3>5. \A pg \in Page : Data(pg) \notin DOMAIN file[Body(area)] => file'[Data(pg)] = file[Data(pg)]
        BY <3>1, <3>2, Put1Facts, KindFacts
      <3> QED BY <3>1, <3>4, <3>5, SavedSame DEF SameOrCommit
    <2> QED BY <2>1, <2>2
  <1>34. ASSUME RestoreSync(p) PROVE SameOrCommit
    <2>1. UNCHANGED file
      BY <1>34 DEF RestoreSync, RecoverFails, IoError, Goto, Sync, store, locks
    <2> QED BY <2>1 DEF SameOrCommit
  <1>35. ASSUME Unpoint(p) PROVE SameOrCommit
    <2>1. CASE UNCHANGED file
      BY <2>1 DEF SameOrCommit
    <2>2. CASE ~UNCHANGED file
      <3>1. \A pg \in Page : file'[Data(pg)] = file[Data(pg)]
        BY <1>35, <2>2, Put1Facts, KindFacts, CellFacts DEF Unpoint, RecoverFails,
           IoError, store
      <3>2. Old(file)
        BY <1>35 DEF Unpoint, RestoreOK, Clean, Old
      <3>3. Old(file')
        BY <1>0, <1>35, <2>2 DEF Unpoint, RecoverFails, IoError, Goto, store,
           RestoreOK, Clean, Old, NeedsRecovery, TypeOK
      <3> QED BY <3>1, <3>2, <3>3, PlainSame DEF SameOrCommit
    <2> QED BY <2>1, <2>2
  <1>36. ASSUME Invalidate(p) PROVE SameOrCommit
    <2>1. CASE UNCHANGED file
      BY <2>1 DEF SameOrCommit
    <2>2. CASE ~UNCHANGED file
      <3>1. \A pg \in Page : file'[Data(pg)] = file[Data(pg)]
        BY <1>36, <2>2, Put1Facts, KindFacts, CellFacts DEF Invalidate, RecoverFails,
           IoError, store
      <3>2. Old(file)
        BY <1>36 DEF Invalidate, RestoreOK, Clean, Old, NeedsRecovery
      <3>3. Old(file')
        BY <1>0, <1>36, <2>2 DEF Invalidate, RecoverFails, IoError, Goto, store,
           RestoreOK, Old, TypeOK
      <3> QED BY <3>1, <3>2, <3>3, PlainSame DEF SameOrCommit
    <2> QED BY <2>1, <2>2
  <1>37. ASSUME InvalidateSync(p) PROVE SameOrCommit
    <2>1. UNCHANGED file
      BY <1>37 DEF InvalidateSync, RecoverFails, IoError, Goto, Sync, store, locks
    <2> QED BY <2>1 DEF SameOrCommit
  <1>38. ASSUME Recovered(p) PROVE SameOrCommit
    <2>1. UNCHANGED file
      BY <1>38 DEF Recovered, Unlock, CancelPc, AfterRecovery, Goto, GoFor, store, locks
    <2> QED BY <2>1 DEF SameOrCommit
  <1>39. ASSUME Die(p) PROVE SameOrCommit
    <2>1. UNCHANGED file
      BY <1>39 DEF Die, Gone, Unlock, Goto, GoFor, store, locks
    <2> QED BY <2>1 DEF SameOrCommit
  <1> QED
    BY <1>1, <1>2, <1>3, <1>4, <1>5, <1>6, <1>7, <1>8, <1>9, <1>10, <1>11, <1>12,
       <1>13, <1>14, <1>15, <1>16, <1>17, <1>18, <1>19, <1>20, <1>21, <1>22, <1>23,
       <1>24, <1>25, <1>26, <1>27, <1>28, <1>29, <1>30, <1>31, <1>32, <1>33, <1>34,
       <1>35, <1>36, <1>37, <1>38, <1>39 DEF Calls, Steps

\* Pending depends on the blocks of the transaction only.
LEMMA PendingSame ==
  ASSUME txn'.blocks = txn.blocks
  PROVE  Pending' = Pending
  BY DEF Pending

LEMMA PendingNone ==
  ASSUME txn'.blocks = NoBlocks
  PROVE  Pending' = NtdbStore!Nothing
  BY DEF Pending, NoBlocks, NtdbStore!Nothing

LEMMA WriteBlocks ==
  ASSUME TxnShape(txn), NEW p, NEW pg, NEW v, Write(p, pg, v)
  PROVE  \/ txn'.blocks = txn.blocks
         \/ txn'.blocks = [c \in DOMAIN txn.blocks \cup {Data(pg)} |->
                            IF c = Data(pg) THEN v ELSE txn.blocks[c]]
  BY WriteFacts

\* The record that frees an old area is not a page.
LEMMA SetupPending ==
  ASSUME TxnShape(txn), NEW p, Setup(p)
  PROVE  Pending' = Pending
  <1> DEFINE h == Head(RecoveryArea)
             bb == [c \in DOMAIN txn.blocks \cup {h} |-> IF c = h THEN Free ELSE txn.blocks[c]]
  <1>1. txn' = txn \/ txn' = [txn EXCEPT !.blocks = bb]
    BY DEF Setup
  <1>2. txn'.blocks = txn.blocks \/ txn'.blocks = bb
    BY <1>1 DEF TxnShape
  <1>3. \A pg : Data(pg) # h
    BY CellFacts
  <1> HIDE DEF h
  <1>4. ASSUME txn'.blocks = bb PROVE Pending' = Pending
    BY <1>3, <1>4 DEF Pending
  <1> QED BY <1>2, <1>4, PendingSame

\* A step leaves what the transaction wrote alone, adds to it or drops it.
PendStep ==
  \/ Pending' = Pending
  \/ Pending' = NtdbStore!Nothing
  \/ \E pg \in Page, v \in Values :
       Pending' = [r \in DOMAIN Pending \cup {pg} |-> IF r = pg THEN v ELSE Pending[r]]

LEMMA PendingStep ==
  ASSUME NEW p \in Proc, Safe, Calls(p) \/ Steps(p) \/ Die(p)
  PROVE  PendStep
  <1>0. TypeOK /\ TxnShape(txn) /\ StartInv
    BY DEF Safe, Typing
  <1> USE <1>0 DEF TxnShape
  <1>1. ASSUME Open(p) PROVE PendStep
    <2>1. txn'.blocks = txn.blocks
      BY <1>1 DEF Open, Goto
    <2> QED BY <2>1, PendingSame DEF PendStep
  <1>2. ASSUME LockHash(p) PROVE PendStep
    <2>1. txn'.blocks = txn.blocks
      BY <1>2 DEF LockHash, Goto, GoFor
    <2> QED BY <2>1, PendingSame DEF PendStep
  <1>3. ASSUME UnlockHash(p) PROVE PendStep
    <2>1. txn'.blocks = txn.blocks
      BY <1>3 DEF UnlockHash, Goto
    <2> QED BY <2>1, PendingSame DEF PendStep
  <1>4. ASSUME Start(p) PROVE PendStep
    <2>1. txn'.blocks = txn.blocks
      BY <1>4 DEF Start, Goto, GoFor
    <2> QED BY <2>1, PendingSame DEF PendStep
  <1>5. ASSUME NEW pg \in Page, NEW v \in Values, Write(p, pg, v) PROVE PendStep
    <2> DEFINE bb == [c \in DOMAIN txn.blocks \cup {Data(pg)} |->
                       IF c = Data(pg) THEN v ELSE txn.blocks[c]]
    <2>1. txn'.blocks = txn.blocks \/ txn'.blocks = bb
      BY <1>0, <1>5, WriteBlocks
    <2>2. CASE txn'.blocks = txn.blocks
      BY <2>2, PendingSame DEF PendStep
    <2>3. CASE txn'.blocks = bb
      <3>1. Pending' = [r \in DOMAIN Pending \cup {pg} |-> IF r = pg THEN v ELSE Pending[r]]
        BY <2>3, CellFacts DEF Pending
      <3> QED BY <3>1 DEF PendStep
    <2> QED BY <2>1, <2>2, <2>3
  <1>6. ASSUME NestedStart(p) PROVE PendStep
    <2>1. txn'.blocks = txn.blocks
      BY <1>6 DEF NestedStart
    <2> QED BY <2>1, PendingSame DEF PendStep
  <1>7. ASSUME Cancel(p) PROVE PendStep
    <2>1. txn'.blocks = txn.blocks
      BY <1>0, <1>7, CancelFacts DEF Cancel
    <2> QED BY <2>1, PendingSame DEF PendStep
  <1>8. ASSUME Prepare(p) PROVE PendStep
    <2>1. txn'.blocks = txn.blocks
      BY <1>0, <1>8, CancelFacts DEF Prepare
    <2> QED BY <2>1, PendingSame DEF PendStep
  <1>9. ASSUME Commit(p) PROVE PendStep
    <2>1. txn'.blocks = txn.blocks
      BY <1>9 DEF Commit, Cancelling, CancelPc, Goto, GoFor
    <2> QED BY <2>1, PendingSame DEF PendStep
  <1>10. ASSUME Close(p) PROVE PendStep
    <2>1. txn'.blocks = txn.blocks \/ txn'.blocks = NoBlocks
      BY <1>10 DEF Close, Gone, Unlock, Goto, GoFor, NoTxn
    <2> QED BY <2>1, PendingSame, PendingNone DEF PendStep
  <1>11. ASSUME OpenCheck(p) PROVE PendStep
    <2>1. txn'.blocks = txn.blocks
      BY <1>11 DEF OpenCheck, Goto, GoFor
    <2> QED BY <2>1, PendingSame DEF PendStep
  <1>12. ASSUME RelockHash(p) PROVE PendStep
    <2>1. txn'.blocks = txn.blocks
      BY <1>12 DEF RelockHash, Goto, GoFor
    <2> QED BY <2>1, PendingSame DEF PendStep
  <1>13. ASSUME Restart(p) PROVE PendStep
    <2>1. txn'.blocks = txn.blocks
      BY <1>13 DEF Restart, Goto, GoFor
    <2> QED BY <2>1, PendingSame DEF PendStep
  <1>14. ASSUME LockAllRead(p) PROVE PendStep
    <2>1. txn = NoTxn
      BY <1>0, <1>14 DEF LockAllRead, StartInv
    <2>2. txn'.blocks = txn.blocks
      BY <1>14, <2>1 DEF LockAllRead, NoTxn
    <2> QED BY <2>2, PendingSame DEF PendStep
  <1>15. ASSUME Upgrade(p) PROVE PendStep
    <2>1. txn'.blocks = txn.blocks
      BY <1>15 DEF Upgrade, PrepareFails, CancelPc, Goto
    <2> QED BY <2>1, PendingSame DEF PendStep
  <1>16. ASSUME LockOpen(p) PROVE PendStep
    <2>1. txn'.blocks = txn.blocks
      BY <1>16 DEF LockOpen, Goto
    <2> QED BY <2>1, PendingSame DEF PendStep
  <1>17. ASSUME SetupNull(p) PROVE PendStep
    <2>1. txn'.blocks = txn.blocks
      BY <1>17 DEF SetupNull, CancelPc, Goto
    <2> QED BY <2>1, PendingSame DEF PendStep
  <1>18. ASSUME Setup(p) PROVE PendStep
    <2>1. Pending' = Pending
      BY <1>0, <1>18, SetupPending
    <2> QED BY <2>1 DEF PendStep
  <1>19. ASSUME Expand(p) PROVE PendStep
    <2>1. txn'.blocks = txn.blocks
      BY <1>19 DEF Expand, PrepareFails, CancelPc, Goto, IoError
    <2> QED BY <2>1, PendingSame DEF PendStep
  <1>20. ASSUME Point(p) PROVE PendStep
    <2>1. txn'.blocks = txn.blocks
      BY <1>20 DEF Point, PrepareFails, CancelPc, Goto, IoError, WriteExisting
    <2> QED BY <2>1, PendingSame DEF PendStep
  <1>21. ASSUME Record(p) PROVE PendStep
    <2>1. txn'.blocks = txn.blocks
      BY <1>21 DEF Record, PrepareFails, CancelPc, Goto, IoError
    <2> QED BY <2>1, PendingSame DEF PendStep
  <1>22. ASSUME Sync1(p) PROVE PendStep
    <2>1. txn'.blocks = txn.blocks
      BY <1>22 DEF Sync1, PrepareFails, CancelPc, Goto, IoError
    <2> QED BY <2>1, PendingSame DEF PendStep
  <1>23. ASSUME Mark(p) PROVE PendStep
    <2>1. txn'.blocks = txn.blocks
      BY <1>23 DEF Mark, PrepareFails, CancelPc, Goto, IoError
    <2> QED BY <2>1, PendingSame DEF PendStep
  <1>24. ASSUME Sync2(p) PROVE PendStep
    <2>1. txn'.blocks = txn.blocks
      BY <1>24 DEF Sync2, PrepareFails, CancelPc, Goto, IoError
    <2> QED BY <2>1, PendingSame DEF PendStep
  <1>25. ASSUME CommitWrite(p) PROVE PendStep
    <2>1. txn'.blocks = txn.blocks
      BY <1>25 DEF CommitWrite, Goto, GoFor, IoError
    <2> QED BY <2>1, PendingSame DEF PendStep
  <1>26. ASSUME CommitSync(p) PROVE PendStep
    <2>1. txn'.blocks = txn.blocks
      BY <1>26 DEF CommitSync, CancelPc, Goto, GoFor, IoError
    <2> QED BY <2>1, PendingSame DEF PendStep
  <1>27. ASSUME Unmark(p) PROVE PendStep
    <2>1. txn'.blocks = txn.blocks
      BY <1>27 DEF Unmark, UnmarkFails, Goto, GoFor, IoError
    <2> QED BY <2>1, PendingSame DEF PendStep
  <1>28. ASSUME UnmarkSync(p) PROVE PendStep
    <2>1. txn'.blocks = txn.blocks
      BY <1>28 DEF UnmarkSync, UnmarkFails, Goto, GoFor, IoError
    <2> QED BY <2>1, PendingSame DEF PendStep
  <1>29. ASSUME Release(p) PROVE PendStep
    <2>1. txn'.blocks = txn.blocks \/ txn'.blocks = NoBlocks
      BY <1>29 DEF Release, Unlock, Goto, GoFor, NoTxn
    <2> QED BY <2>1, PendingSame, PendingNone DEF PendStep
  <1>30. ASSUME LockAll(p) PROVE PendStep
    <2>1. txn'.blocks = txn.blocks
      BY <1>30 DEF LockAll, Goto
    <2> QED BY <2>1, PendingSame DEF PendStep
  <1>31. ASSUME RecoverLockOpen(p) PROVE PendStep
    <2>1. txn'.blocks = txn.blocks
      BY <1>31 DEF RecoverLockOpen, Goto
    <2> QED BY <2>1, PendingSame DEF PendStep
  <1>32. ASSUME Check(p) PROVE PendStep
    <2>1. txn'.blocks = txn.blocks
      BY <1>32 DEF Check, Goto
    <2> QED BY <2>1, PendingSame DEF PendStep
  <1>33. ASSUME Restore(p) PROVE PendStep
    <2>1. txn'.blocks = txn.blocks
      BY <1>33 DEF Restore, RecoverFails, IoError, Goto
    <2> QED BY <2>1, PendingSame DEF PendStep
  <1>34. ASSUME RestoreSync(p) PROVE PendStep
    <2>1. txn'.blocks = txn.blocks
      BY <1>34 DEF RestoreSync, RecoverFails, IoError, Goto
    <2> QED BY <2>1, PendingSame DEF PendStep
  <1>35. ASSUME Unpoint(p) PROVE PendStep
    <2>1. txn'.blocks = txn.blocks
      BY <1>35 DEF Unpoint, RecoverFails, IoError, Goto
    <2> QED BY <2>1, PendingSame DEF PendStep
  <1>36. ASSUME Invalidate(p) PROVE PendStep
    <2>1. txn'.blocks = txn.blocks
      BY <1>36 DEF Invalidate, RecoverFails, IoError, Goto
    <2> QED BY <2>1, PendingSame DEF PendStep
  <1>37. ASSUME InvalidateSync(p) PROVE PendStep
    <2>1. txn'.blocks = txn.blocks
      BY <1>37 DEF InvalidateSync, RecoverFails, IoError, Goto
    <2> QED BY <2>1, PendingSame DEF PendStep
  <1>38. ASSUME Recovered(p) PROVE PendStep
    <2>1. txn'.blocks = txn.blocks \/ txn'.blocks = NoBlocks
      BY <1>38 DEF Recovered, Unlock, CancelPc, AfterRecovery, Goto, GoFor, NoTxn
    <2> QED BY <2>1, PendingSame, PendingNone DEF PendStep
  <1>39. ASSUME Die(p) PROVE PendStep
    <2>1. txn'.blocks = txn.blocks \/ txn'.blocks = NoBlocks
      BY <1>39 DEF Die, Gone, Unlock, Goto, GoFor, NoTxn
    <2> QED BY <2>1, PendingSame, PendingNone DEF PendStep
  <1> QED
    BY <1>1, <1>2, <1>3, <1>4, <1>5, <1>6, <1>7, <1>8, <1>9, <1>10, <1>11, <1>12,
       <1>13, <1>14, <1>15, <1>16, <1>17, <1>18, <1>19, <1>20, <1>21, <1>22, <1>23,
       <1>24, <1>25, <1>26, <1>27, <1>28, <1>29, <1>30, <1>31, <1>32, <1>33, <1>34,
       <1>35, <1>36, <1>37, <1>38, <1>39 DEF Calls, Steps

-----------------------------------------------------------------------------
(* Crashes *)

\* Images, of any disk.
LeftOf(d, cells) ==
  {f \in [cells -> UNION {d[c] : c \in cells}] : \A c \in cells : f[c] \in d[c]}

ImagesOf(d) ==
  {Joined(h, e, r, b) : h \in LeftOf(d, HeaderCell), e \in LeftOf(d, DataCell),
                        r \in LeftOf(d, HeadCell), b \in LeftOf(d, BodyCell)}

LEMMA ImagesAre == Images = ImagesOf(disk) /\ Images' = ImagesOf(disk')
  BY DEF Images, ImagesOf, Left, LeftOf

LEMMA ImageOut ==
  ASSUME NEW d, NEW f \in ImagesOf(d)
  PROVE  f = [c \in Cell |-> f[c]] /\ \A c \in Cell : f[c] \in d[c]
  <1>1. PICK h \in LeftOf(d, HeaderCell), e \in LeftOf(d, DataCell),
             r \in LeftOf(d, HeadCell), b \in LeftOf(d, BodyCell) : f = Joined(h, e, r, b)
    BY SMT DEF ImagesOf
  <1>2. \A c \in Cell : f[c] \in d[c]
    <2>1. \A c \in HeaderCell : f[c] = h[c] /\ h[c] \in d[c]
      BY <1>1, KindFacts DEF Cell, LeftOf, Joined
    <2>2. \A c \in DataCell : f[c] = e[c] /\ e[c] \in d[c]
      BY <1>1, KindFacts DEF Cell, LeftOf, Joined
    <2>3. \A c \in HeadCell : f[c] = r[c] /\ r[c] \in d[c]
      BY <1>1, KindFacts DEF Cell, LeftOf, Joined
    <2>4. \A c \in BodyCell : f[c] = b[c] /\ b[c] \in d[c]
      BY <1>1, KindFacts DEF Cell, LeftOf, Joined
    <2> QED BY <2>1, <2>2, <2>3, <2>4 DEF Cell
  <1>3. f = [c \in Cell |-> f[c]]
    <2> DEFINE g(c) == CASE c \in HeaderCell -> h[c] [] c \in DataCell -> e[c]
                         [] c \in HeadCell -> r[c] [] c \in BodyCell -> b[c]
    <2>1. f = [c \in Cell |-> g(c)]
      BY <1>1 DEF Joined
    <2> HIDE DEF g
    <2> QED BY <2>1
  <1> QED BY <1>2, <1>3

LEMMA ImageIn ==
  ASSUME NEW d, NEW f, f = [c \in Cell |-> f[c]], \A c \in Cell : f[c] \in d[c]
  PROVE  f \in ImagesOf(d)
  <1> DEFINE part(cells) == [c \in cells |-> f[c]]
  <1>1. ASSUME NEW cells, cells \subseteq Cell
        PROVE  part(cells) \in LeftOf(d, cells) /\ \A c \in cells : part(cells)[c] = f[c]
    BY <1>1 DEF LeftOf
  <1>2. /\ HeaderCell \subseteq Cell /\ DataCell \subseteq Cell
        /\ HeadCell \subseteq Cell /\ BodyCell \subseteq Cell
    BY DEF Cell
  <1>3. /\ part(HeaderCell) \in LeftOf(d, HeaderCell)
        /\ part(DataCell) \in LeftOf(d, DataCell)
        /\ part(HeadCell) \in LeftOf(d, HeadCell)
        /\ part(BodyCell) \in LeftOf(d, BodyCell)
        /\ \A c \in HeaderCell : part(HeaderCell)[c] = f[c]
        /\ \A c \in DataCell : part(DataCell)[c] = f[c]
        /\ \A c \in HeadCell : part(HeadCell)[c] = f[c]
        /\ \A c \in BodyCell : part(BodyCell)[c] = f[c]
    BY <1>1, <1>2
  <1> HIDE DEF part
  <1> DEFINE g(c) == CASE c \in HeaderCell -> part(HeaderCell)[c]
                       [] c \in DataCell -> part(DataCell)[c]
                       [] c \in HeadCell -> part(HeadCell)[c]
                       [] c \in BodyCell -> part(BodyCell)[c]
             j == Joined(part(HeaderCell), part(DataCell), part(HeadCell), part(BodyCell))
  <1>4. \A c \in Cell : g(c) = f[c]
    BY <1>3 DEF Cell
  <1>5. j = [c \in Cell |-> g(c)]
    BY DEF Joined
  <1>6. j \in ImagesOf(d)
    BY <1>3 DEF ImagesOf
  <1> HIDE DEF g, j
  <1>7. j = f
    BY <1>4, <1>5
  <1> QED BY <1>6, <1>7

\* What a crash can leave is the same database, but for a commit that is
\* about to return.
LEMMA LossDatabase ==
  ASSUME Safe, Sound, NEW f, Loss(f)
  PROVE  Database(f) = Database(file)
  <1>0. /\ StoreTyped /\ AreaInv
        /\ file[Size] \in 0 .. NAreas /\ file[Recovery] \in 0 .. NAreas
    BY FileFacts DEF Safe, Typing, Sound
  <1>1. CASE f = file
    BY <1>1
  <1>2. CASE ~NeedsRecovery(f) /\ ~NeedsRecovery(file) /\ SameBut(f, Cell \ DataCell)
    <2>1. Database(f) = Plain(f) /\ Database(file) = Plain(file)
      BY <1>2, PlainDatabase DEF Old
    <2>2. \A pg \in Page : f[Data(pg)] = file[Data(pg)]
      BY <1>2, KindFacts DEF SameBut
    <2> QED BY <2>1, <2>2 DEF Plain
  <1>3. CASE /\ SameBut(f, {Head(area)}) /\ Clean(file[Body(area)])
             /\ NeedsRecovery(file) /\ area = file[Recovery]
    <2>1. /\ area \in Area /\ DOMAIN file[Body(area)] \subseteq Cell
          /\ Head(area) \notin DOMAIN file[Body(area)]
      <3>1. area \in Area
        BY <1>0, <1>3, NtdbAssumption DEF NeedsRecovery, Area
      <3> QED BY <1>0, <1>3, <3>1, BodyFacts, KindFacts DEF AreaInv, Elsewhere
    <2>2. /\ f[Recovery] = area /\ f[Body(area)] = file[Body(area)]
          /\ \A c \in DOMAIN file[Body(area)] : f[c] = file[c]
          /\ \A pg \in Page : f[Data(pg)] = file[Data(pg)]
      BY <1>3, <2>1, KindFacts, CellFacts DEF SameBut
    <2>3. Old(f) /\ Old(file)
      BY <1>3, <2>2 DEF Old, Clean
    <2>4. Database(f) = Plain(f) /\ Database(file) = Plain(file)
      BY <2>3, PlainDatabase
    <2> QED BY <2>2, <2>4 DEF Plain
  <1>4. CASE /\ SameBut(f, DOMAIN file[Body(area)]) /\ NeedsRecovery(file)
             /\ area = file[Recovery]
    <2>1. /\ area \in Area /\ DOMAIN file[Body(area)] \subseteq DataCell \cup HeadCell
          /\ Head(area) \notin DOMAIN file[Body(area)]
      <3>1. area \in Area
        BY <1>0, <1>4, NtdbAssumption DEF NeedsRecovery, Area
      <3> QED BY <1>0, <1>4, <3>1, BodyFacts DEF AreaInv, Elsewhere
    <2>2. /\ f[Recovery] = area /\ f[Size] = file[Size] /\ f[Body(area)] = file[Body(area)]
          /\ f[Head(area)] = file[Head(area)]
          /\ \A pg \in Page : Data(pg) \notin DOMAIN file[Body(area)] =>
                                f[Data(pg)] = file[Data(pg)]
      BY <1>4, <2>1, KindFacts DEF SameBut
    <2>3. NeedsRecovery(f)
      BY <1>4, <2>2 DEF NeedsRecovery
    <2> QED BY <1>4, <2>2, <2>3 DEF Database
  <1>5. CASE /\ SameBut(f, {Recovery, Head(area)}) /\ Clean(file[Body(area)])
             /\ f[Recovery] \in {0, area} /\ file[Recovery] \in {0, area} /\ area \in Area
             /\ Elsewhere(DOMAIN file[Body(area)], area)
    <2>1. /\ DOMAIN file[Body(area)] \subseteq DataCell \cup HeadCell
          /\ Head(area) \notin DOMAIN file[Body(area)]
      BY <1>0, <1>5, BodyFacts DEF Elsewhere
    <2>2. /\ f[Size] = file[Size] /\ f[Body(area)] = file[Body(area)]
          /\ \A c \in DOMAIN file[Body(area)] : f[c] = file[c]
          /\ \A pg \in Page : f[Data(pg)] = file[Data(pg)]
      BY <1>5, <2>1, KindFacts, CellFacts DEF SameBut
    <2>3. 0 \notin 1 .. file[Size]
      BY <1>0
    <2>4. Old(f) /\ Old(file)
      BY <1>5, <2>2, <2>3 DEF Old, Clean, NeedsRecovery
    <2>5. Database(f) = Plain(f) /\ Database(file) = Plain(file)
      BY <2>4, PlainDatabase
    <2> QED BY <2>2, <2>5 DEF Plain
  <1> QED BY <1>1, <1>2, <1>3, <1>4, <1>5 DEF Loss

Returning == \E p \in Proc : pc[p] = "unmarksync"

\* What a crash can undo: nothing, unless a commit is about to return.
May == ~Returning => AfterCrash = {Database(file)}

LEMMA MayLemma ==
  ASSUME Safe, Sound, DiskInv
  PROVE  May
  <1> SUFFICES ASSUME ~Returning, budget.crash # 0
               PROVE  {Database(f) : f \in Images} = {Database(file)}
    BY DEF May, AfterCrash
  <1>1. budget.crash > 0
    BY DEF Safe, Typing, TypeOK, Budget
  <1>2. \A f \in Images : Database(f) = Database(file)
    BY <1>1, ImageLoss, LossDatabase DEF Returning
  <1>3. file \in Images
    BY ImageIn, ImagesAre DEF Safe, Typing, StoreTyped, FileTyped
  <1> QED BY <1>2, <1>3

\* A commit starts and ends to return by these steps only.
UnmarkSteps(p) ==
  /\ pc'[p] = "unmarksync" => Unmark(p)
  /\ pc[p] = "unmarksync" => UnmarkSync(p) \/ Die(p)

LEMMA UnmarkOnly ==
  ASSUME NEW p \in Proc, Safe, Calls(p) \/ Steps(p) \/ Die(p)
  PROVE  UnmarkSteps(p)
  <1>0. TypeOK /\ LockInv
    BY DEF Safe, Typing
  <1> USE <1>0 DEF TypeOK, UnmarkSteps
  <1>1. ASSUME Open(p) PROVE UnmarkSteps(p)
    BY <1>1 DEF Open, Goto, LockInv
  <1>2. ASSUME LockHash(p) PROVE UnmarkSteps(p)
    BY <1>2 DEF LockHash, Goto, GoFor, LockInv
  <1>3. ASSUME UnlockHash(p) PROVE UnmarkSteps(p)
    BY <1>3 DEF UnlockHash, Goto, LockInv
  <1>4. ASSUME Start(p) PROVE UnmarkSteps(p)
    BY <1>4 DEF Start, Goto, GoFor, LockInv
  <1>5. ASSUME NEW pg \in Page, NEW v \in Values, Write(p, pg, v) PROVE UnmarkSteps(p)
    BY <1>5 DEF Write, IoError, LockInv
  <1>6. ASSUME NestedStart(p) PROVE UnmarkSteps(p)
    BY <1>6 DEF NestedStart, LockInv
  <1>7. ASSUME Cancel(p) PROVE UnmarkSteps(p)
    BY <1>7, NtdbAssumption DEF Cancel, CancelTxn, Cancelling, CancelPc, Goto, LockInv
  <1>8. ASSUME Prepare(p) PROVE UnmarkSteps(p)
    BY <1>8, NtdbAssumption DEF Prepare, CancelTxn, Cancelling, CancelPc, Goto, GoFor,
       LockInv
  <1>9. ASSUME Commit(p) PROVE UnmarkSteps(p)
    BY <1>9 DEF Commit, Cancelling, CancelPc, Goto, GoFor, LockInv
  <1>10. ASSUME Close(p) PROVE UnmarkSteps(p)
    BY <1>10 DEF Close, Gone, Unlock, Goto, GoFor, LockInv
  <1>11. ASSUME OpenCheck(p) PROVE UnmarkSteps(p)
    BY <1>11 DEF OpenCheck, Goto, GoFor, LockInv
  <1>12. ASSUME RelockHash(p) PROVE UnmarkSteps(p)
    BY <1>12 DEF RelockHash, Goto, GoFor, LockInv
  <1>13. ASSUME Restart(p) PROVE UnmarkSteps(p)
    BY <1>13 DEF Restart, Goto, GoFor, LockInv
  <1>14. ASSUME LockAllRead(p) PROVE UnmarkSteps(p)
    BY <1>14 DEF LockAllRead, Goto, GoFor, LockInv
  <1>15. ASSUME Upgrade(p) PROVE UnmarkSteps(p)
    BY <1>15 DEF Upgrade, PrepareFails, CancelPc, Goto, LockInv
  <1>16. ASSUME LockOpen(p) PROVE UnmarkSteps(p)
    BY <1>16 DEF LockOpen, Goto, LockInv
  <1>17. ASSUME SetupNull(p) PROVE UnmarkSteps(p)
    BY <1>17 DEF SetupNull, CancelPc, Goto, LockInv
  <1>18. ASSUME Setup(p) PROVE UnmarkSteps(p)
    BY <1>18 DEF Setup, Goto, LockInv
  <1>19. ASSUME Expand(p) PROVE UnmarkSteps(p)
    BY <1>19 DEF Expand, PrepareFails, CancelPc, Goto, IoError, LockInv
  <1>20. ASSUME Point(p) PROVE UnmarkSteps(p)
    BY <1>20 DEF Point, PrepareFails, CancelPc, Goto, IoError, WriteExisting, LockInv
  <1>21. ASSUME Record(p) PROVE UnmarkSteps(p)
    BY <1>21 DEF Record, PrepareFails, CancelPc, Goto, IoError, LockInv
  <1>22. ASSUME Sync1(p) PROVE UnmarkSteps(p)
    BY <1>22 DEF Sync1, PrepareFails, CancelPc, Goto, IoError, LockInv
  <1>23. ASSUME Mark(p) PROVE UnmarkSteps(p)
    BY <1>23 DEF Mark, PrepareFails, CancelPc, Goto, IoError, LockInv
  <1>24. ASSUME Sync2(p) PROVE UnmarkSteps(p)
    BY <1>24 DEF Sync2, PrepareFails, CancelPc, Goto, IoError, LockInv
  <1>25. ASSUME CommitWrite(p) PROVE UnmarkSteps(p)
    BY <1>25 DEF CommitWrite, Goto, GoFor, IoError, LockInv
  <1>26. ASSUME CommitSync(p) PROVE UnmarkSteps(p)
    BY <1>26 DEF CommitSync, CancelPc, Goto, GoFor, IoError, LockInv
  <1>27. ASSUME Unmark(p) PROVE UnmarkSteps(p)
    BY <1>27 DEF Unmark, UnmarkFails, Goto, GoFor, IoError, LockInv
  <1>28. ASSUME UnmarkSync(p) PROVE UnmarkSteps(p)
    BY <1>28 DEF UnmarkSync, UnmarkFails, Goto, GoFor, IoError, LockInv
  <1>29. ASSUME Release(p) PROVE UnmarkSteps(p)
    BY <1>29 DEF Release, Unlock, Goto, GoFor, LockInv
  <1>30. ASSUME LockAll(p) PROVE UnmarkSteps(p)
    BY <1>30 DEF LockAll, Goto, LockInv
  <1>31. ASSUME RecoverLockOpen(p) PROVE UnmarkSteps(p)
    BY <1>31 DEF RecoverLockOpen, Goto, LockInv
  <1>32. ASSUME Check(p) PROVE UnmarkSteps(p)
    BY <1>32 DEF Check, Goto, LockInv
  <1>33. ASSUME Restore(p) PROVE UnmarkSteps(p)
    BY <1>33 DEF Restore, RecoverFails, IoError, Goto, LockInv
  <1>34. ASSUME RestoreSync(p) PROVE UnmarkSteps(p)
    BY <1>34 DEF RestoreSync, RecoverFails, IoError, Goto, LockInv
  <1>35. ASSUME Unpoint(p) PROVE UnmarkSteps(p)
    BY <1>35 DEF Unpoint, RecoverFails, IoError, Goto, LockInv
  <1>36. ASSUME Invalidate(p) PROVE UnmarkSteps(p)
    BY <1>36 DEF Invalidate, RecoverFails, IoError, Goto, LockInv
  <1>37. ASSUME InvalidateSync(p) PROVE UnmarkSteps(p)
    BY <1>37 DEF InvalidateSync, RecoverFails, IoError, Goto, LockInv
  <1>38. ASSUME Recovered(p) PROVE UnmarkSteps(p)
    <2>1. goal[p] # "abort" => goal[p] \in {"open", "read", "start", "startall"}
      BY <1>0, <1>38 DEF Recovered, LockInv, Recovering
    <2> QED BY <1>0, <1>38, <2>1 DEF Recovered, Unlock, CancelPc, AfterRecovery, Goto,
               GoFor
  <1>39. ASSUME Die(p) PROVE UnmarkSteps(p)
    BY <1>39 DEF Die, Gone, Unlock, Goto, GoFor, LockInv
  <1> QED
    BY <1>1, <1>2, <1>3, <1>4, <1>5, <1>6, <1>7, <1>8, <1>9, <1>10, <1>11, <1>12,
       <1>13, <1>14, <1>15, <1>16, <1>17, <1>18, <1>19, <1>20, <1>21, <1>22, <1>23,
       <1>24, <1>25, <1>26, <1>27, <1>28, <1>29, <1>30, <1>31, <1>32, <1>33, <1>34,
       <1>35, <1>36, <1>37, <1>38, <1>39 DEF Calls, Steps

\* While the marker is on its way out, a crash leaves the file with it or
\* without it.
LEMMA UnmarkMay ==
  ASSUME NEW p \in Proc, Safe, Safe', Sound, DiskInv, Unmark(p), pc'[p] = "unmarksync",
         budget.crash > 0
  PROVE  /\ AfterCrash' = {Database(file), Database(file)'}
         /\ Pending' = Pending
  <1> DEFINE m == txn.magic
             v == [file[Head(m)] EXCEPT !.magic = "invalid"]
  <1>0. TypeOK /\ StoreTyped /\ StoreTyped' /\ LockInv /\ StartInv
    BY DEF Safe, Typing
  <1>1. /\ pc[p] = "unmark" /\ wr = p /\ m \in Area /\ UNCHANGED <<txn, budget>>
        /\ Put1(Head(m), v)
    BY <1>0 DEF Unmark, UnmarkFails, GoFor, Goto, LockInv, StartInv, Unmarking,
       TypeOK, TxnTyped,
       Area
  <1>2. Synced(Cell)
    BY <1>1 DEF DiskInv, Dirty
  <1> HIDE DEF v
  <1>3. \A d \in Cell : /\ file'[d] = IF d = Head(m) THEN v ELSE file[d]
                        /\ disk'[d] = IF d = Head(m) THEN disk[d] \cup {v} ELSE disk[d]
    <2>1. Head(m) \notin BodyCell
      BY <1>1, KindFacts
    <2> QED BY <1>1, <2>1, Put1Disk
  <1>4. file = [c \in Cell |-> file[c]] /\ file' = [c \in Cell |-> file'[c]]
    BY <1>0 DEF StoreTyped
  <1>5. \A c \in Cell : disk'[c] = {file[c], file'[c]}
    BY <1>2, <1>3 DEF Synced
  <1>6. file \in Images' /\ file' \in Images'
    BY <1>4, <1>5, ImageIn, ImagesAre
  <1>7. ASSUME NEW f \in Images' PROVE f = file \/ f = file'
    <2>1. f = [c \in Cell |-> f[c]] /\ \A c \in Cell : f[c] \in disk'[c]
      BY ImageOut, ImagesAre
    <2>2. \A c \in Cell \ {Head(m)} : f[c] = file[c] /\ f[c] = file'[c]
      BY <1>3, <1>5, <2>1
    <2>3. CASE f[Head(m)] = file[Head(m)]
      BY <1>4, <2>1, <2>2, <2>3
    <2>4. CASE f[Head(m)] = file'[Head(m)]
      BY <1>4, <2>1, <2>2, <2>4
    <2> QED BY <1>1, <1>5, <2>1, <2>3, <2>4, KindFacts
  <1>8. AfterCrash' = {Database(f) : f \in Images'}
    BY <1>1 DEF AfterCrash
  <1>9. Database(file)' = Database(file')
    OBVIOUS
  <1>10. Pending' = Pending
    BY <1>1, PendingSame
  <1> QED BY <1>6, <1>7, <1>8, <1>9, <1>10

-----------------------------------------------------------------------------
(* The refinement *)

\* A step that changes neither the database nor what a crash can leave.
LEMMA SameStep ==
  ASSUME Database(file)' = Database(file), AfterCrash' = AfterCrash, PendStep
  PROVE  [NtdbStore!Next]_(NtdbStore!vars)
  <1>1. CASE Pending' = Pending
    BY <1>1 DEF NtdbStore!vars
  <1>2. CASE Pending' = NtdbStore!Nothing
    BY <1>2 DEF NtdbStore!Next, NtdbStore!End
  <1>3. CASE \E pg \in Page, v \in Values :
               Pending' = [r \in DOMAIN Pending \cup {pg} |-> IF r = pg THEN v ELSE Pending[r]]
    <2>1. PICK pg \in Page, v \in Values :
            Pending' = [r \in DOMAIN Pending \cup {pg} |-> IF r = pg THEN v ELSE Pending[r]]
      BY <1>3
    <2>2. NtdbStore!Write(pg, v)
      BY <2>1 DEF NtdbStore!Write
    <2> QED BY <2>2 DEF NtdbStore!Next
  <1> QED BY <1>1, <1>2, <1>3 DEF PendStep

\* A step of the database, with what a crash can leave.
LEMMA CommitStep ==
  ASSUME SameOrCommit, PendStep, AfterCrash = {Database(file)},
         AfterCrash' \in {{Database(file)'}, {Database(file), Database(file)'}}
  PROVE  [NtdbStore!Next]_(NtdbStore!vars)
  <1>1. CASE Database(file)' = Database(file)
    BY <1>1, SameStep
  <1>2. CASE Database(file)' # Database(file)
    <2>1. /\ Database(file)' =
               [pg \in Page |-> IF pg \in DOMAIN Pending THEN Pending[pg] ELSE Database(file)[pg]]
          /\ Pending' = Pending
      BY <1>2 DEF SameOrCommit
    <2>2. NtdbStore!Commit
      BY <2>1 DEF NtdbStore!Commit
    <2> QED BY <2>2 DEF NtdbStore!Next
  <1> QED BY <1>1, <1>2

LEMMA StoreStep ==
  ASSUME NEW p \in Proc, Safe, Sound, DiskInv, May, Safe', May',
         Calls(p) \/ Steps(p) \/ Die(p)
  PROVE  [NtdbStore!Next]_(NtdbStore!vars)
  <1>0. /\ SameOrCommit /\ PendStep /\ FaultOwn(p) /\ UnmarkSteps(p) /\ LockInv /\ LockInv'
        /\ TypeOK /\ FaultInv
        /\ wr # p => UNCHANGED store
        /\ \A q \in Proc \ {p} : pc'[q] = pc[q]
    BY ValueStep, PendingStep, FaultOwnStep, UnmarkOnly, Owners DEF Safe, Typing, Sound
  <1>1. budget'.crash = budget.crash
    BY <1>0 DEF FaultOwn
  <1>2. \A q \in Proc : /\ pc[q] = "unmarksync" => wr = q
                        /\ pc'[q] = "unmarksync" => wr' = q
    BY <1>0 DEF LockInv, Unmarking
  <1>3. CASE budget.crash = 0
    BY <1>0, <1>1, <1>3, CommitStep DEF AfterCrash
  <1>4. CASE budget.crash # 0 /\ pc'[p] = "unmarksync"
    <2>1. Unmark(p) /\ pc[p] = "unmark" /\ wr = p /\ budget.crash > 0
      BY <1>0, <1>4 DEF UnmarkSteps, Unmark, LockInv, Unmarking, TypeOK, Budget
    <2>2. AfterCrash = {Database(file)}
      BY <1>2, <2>1 DEF May, Returning
    <2>3. AfterCrash' = {Database(file), Database(file)'}
      BY <1>4, <2>1, UnmarkMay
    <2> QED BY <1>0, <2>2, <2>3, CommitStep
  <1>5. CASE budget.crash # 0 /\ pc[p] = "unmarksync"
    <2>1. Sync /\ UNCHANGED txn /\ pc'[p] = "release"
      BY <1>0, <1>5 DEF UnmarkSteps, UnmarkSync, UnmarkFails, IoError, Die, FaultInv,
         TypeOK,
         Budget, Goto
    <2>2. ~Returning'
      BY <1>0, <1>2, <1>5, <2>1 DEF Returning
    <2>3. AfterCrash' = {Database(file)'} /\ Database(file)' = Database(file)
      BY <2>1, <2>2 DEF May, Sync
    <2>4. Pending' = Pending
      BY <2>1, PendingSame
    <2>5. NtdbStore!Flush
      BY <2>3, <2>4 DEF NtdbStore!Flush
    <2> QED BY <2>5 DEF NtdbStore!Next
  <1>6. CASE /\ budget.crash # 0 /\ pc'[p] # "unmarksync" /\ pc[p] # "unmarksync"
             /\ Returning
    <2>1. UNCHANGED <<file, disk>>
      BY <1>0, <1>2, <1>6 DEF Returning, store
    <2>2. Images' = Images
      BY <2>1, ImagesAre
    <2>3. AfterCrash' = AfterCrash /\ Database(file)' = Database(file)
      BY <1>1, <2>1, <2>2 DEF AfterCrash
    <2> QED BY <1>0, <2>3, SameStep
  <1>7. CASE /\ budget.crash # 0 /\ pc'[p] # "unmarksync" /\ pc[p] # "unmarksync"
             /\ ~Returning
    <2>1. ~Returning'
      BY <1>0, <1>7 DEF Returning
    <2>2. AfterCrash = {Database(file)} /\ AfterCrash' = {Database(file)'}
      BY <1>7, <2>1 DEF May
    <2> QED BY <1>0, <2>2, CommitStep
  <1> QED BY <1>3, <1>4, <1>5, <1>6, <1>7

LEMMA StoreCrash ==
  ASSUME Safe, Safe', Crash
  PROVE  NtdbStore!Next
  <1>1. PICK f \in Images : file' = f
    BY DEF Crash
  <1>2. AfterCrash = {Database(g) : g \in Images}
    BY DEF Crash, AfterCrash
  <1>3. Database(file)' = Database(file')
    OBVIOUS
  <1>4. Database(file)' \in AfterCrash
    BY <1>1, <1>2, <1>3
  <1>5. StoreTyped' /\ \A c \in Cell : disk'[c] = {file'[c]}
    BY DEF Safe, Typing, Crash
  <1>6. Images' = {file'}
    <2>1. file' = [c \in Cell |-> file'[c]]
      BY <1>5 DEF StoreTyped
    <2>2. file' \in Images'
      BY <1>5, <2>1, ImageIn, ImagesAre
    <2>3. \A g \in Images' : g = file'
      BY <1>5, <2>1, ImageOut, ImagesAre
    <2> QED BY <2>2, <2>3
  <1>7. AfterCrash' = {Database(file)'}
    BY <1>3, <1>6 DEF AfterCrash
  <1>8. Pending' = NtdbStore!Nothing
    BY PendingNone DEF Crash, NoTxn
  <1>9. NtdbStore!Crash
    BY <1>4, <1>7, <1>8 DEF NtdbStore!Crash
  <1> QED BY <1>9 DEF NtdbStore!Next

LEMMA StoreInit ==
  ASSUME Init, May
  PROVE  NtdbStore!Init
  <1>1. Database(file) = Plain(file)
    BY EmptyFile, PlainDatabase DEF Old
  <1>2. Blank \in Values
    BY NtdbAssumption DEF Blank
  <1>3. \A pg \in Page : file[Data(pg)] = Blank
    <2>1. \A pg \in Page : Data(pg) \in Cell /\ Data(pg)[1] = "data"
      BY KindFacts DEF Data
    <2> QED BY <2>1 DEF Init
  <1>4. Database(file) \in [Page -> Values]
    BY <1>1, <1>2, <1>3 DEF Plain
  <1>5. AfterCrash = {Database(file)}
    BY DEF Init, May, Returning
  <1>6. Pending = NtdbStore!Nothing
    BY NoTxnFacts DEF Init, Pending, NtdbStore!Nothing
  <1> QED BY <1>4, <1>5, <1>6 DEF NtdbStore!Init

\* Transactions are atomic and durable (ntdb.h:271, 304): with deaths of
\* processes at any step and at most one I/O error, or else with crashes of
\* the machine at any step, the database as the next reader will find it
\* changes only when a commit ends, by all that its transaction wrote; a
\* recovery (transaction.c:1166) does not change it; and a crash leaves it
\* as it was, or without all of the commit that was about to return.
THEOREM StoreCorrect ==
  ASSUME OneSort
  PROVE  Spec => ImplementsStore
  <1>1. Init /\ May => NtdbStore!Init
    BY StoreInit
  <1>2. Safe /\ Sound /\ DiskInv => May
    BY MayLemma
  <1>3. Safe /\ Sound /\ DiskInv /\ May /\ Safe' /\ May' /\ [Next]_vars
          => [NtdbStore!Next]_(NtdbStore!vars)
    <2> SUFFICES ASSUME Safe, Sound, DiskInv, May, Safe', May', [Next]_vars
                 PROVE  [NtdbStore!Next]_(NtdbStore!vars)
      OBVIOUS
    <2>1. CASE UNCHANGED vars
      <3>1. Images' = Images
        BY <2>1, ImagesAre DEF vars
      <3> QED BY <2>1, <3>1 DEF vars, NtdbStore!vars, AfterCrash, Pending
    <2>2. CASE \E p \in Proc : Calls(p) \/ Steps(p) \/ Die(p)
      BY <2>2, StoreStep
    <2>3. CASE Crash
      BY <2>3, StoreCrash
    <2> QED BY <2>1, <2>2, <2>3 DEF Next
  <1>4. Spec => [](Sound /\ DiskInv)
    BY SoundCorrect
  <1> QED BY <1>1, <1>2, <1>3, <1>4, Inductive, PTL
          DEF Spec, ImplementsStore, NtdbStore!Spec
-----------------------------------------------------------------------------
(* Readers *)

\* A transaction that ends without a failure leaves no marker.
ReleaseOK(p) ==
  pc'[p] = "release" => Failing \/ (UNCHANGED file /\ ~NeedsRecovery(file))

LEMMA ReleaseStep ==
  ASSUME NEW p \in Proc, Safe, Sound, Calls(p) \/ Steps(p) \/ Die(p)
  PROVE  ReleaseOK(p)
  <1>0. TypeOK /\ LockInv /\ CommitOK(p) /\ FaultInv /\ MarkOK(p) /\ RestoreOK(p)
    BY DEF Safe, Typing, CommitInv, Sound, MarkInv, RestoreInv
  <1> USE <1>0 DEF TypeOK, Budget
  <1>1. ASSUME Open(p) PROVE ReleaseOK(p)
    <2>1. pc'[p] # "release"
      BY <1>1 DEF Open, Goto
    <2> QED BY <2>1 DEF ReleaseOK
  <1>2. ASSUME LockHash(p) PROVE ReleaseOK(p)
    <2>1. pc'[p] # "release"
      BY <1>2 DEF LockHash, Goto, GoFor
    <2> QED BY <2>1 DEF ReleaseOK
  <1>3. ASSUME UnlockHash(p) PROVE ReleaseOK(p)
    <2>1. pc'[p] # "release"
      BY <1>3 DEF UnlockHash, Goto
    <2> QED BY <2>1 DEF ReleaseOK
  <1>4. ASSUME Start(p) PROVE ReleaseOK(p)
    <2>1. pc'[p] # "release"
      BY <1>4 DEF Start, Goto, GoFor
    <2> QED BY <2>1 DEF ReleaseOK
  <1>5. ASSUME NEW pg \in Page, NEW v \in Values, Write(p, pg, v) PROVE ReleaseOK(p)
    <2>1. pc'[p] # "release"
      BY <1>5 DEF Write
    <2> QED BY <2>1 DEF ReleaseOK
  <1>6. ASSUME NestedStart(p) PROVE ReleaseOK(p)
    <2>1. pc'[p] # "release"
      BY <1>6 DEF NestedStart
    <2> QED BY <2>1 DEF ReleaseOK
  <1>7. ASSUME Cancel(p) PROVE ReleaseOK(p)
    <2> SUFFICES ASSUME pc'[p] = "release" PROVE Failing \/ (UNCHANGED file /\ ~NeedsRecovery(file))
      BY DEF ReleaseOK
    <2>1. UNCHANGED file /\ ~NeedsRecovery(file)
      BY <1>7 DEF Cancel, CancelTxn, Cancelling, CancelPc, Goto, MarkOK, store
    <2> QED BY <2>1
  <1>8. ASSUME Prepare(p) PROVE ReleaseOK(p)
    <2> SUFFICES ASSUME pc'[p] = "release" PROVE Failing \/ (UNCHANGED file /\ ~NeedsRecovery(file))
      BY DEF ReleaseOK
    <2>1. UNCHANGED file /\ ~NeedsRecovery(file)
      BY <1>8 DEF Prepare, CancelTxn, Cancelling, CancelPc, Goto, GoFor, MarkOK, store
    <2> QED BY <2>1
  <1>9. ASSUME Commit(p) PROVE ReleaseOK(p)
    <2> SUFFICES ASSUME pc'[p] = "release" PROVE Failing \/ (UNCHANGED file /\ ~NeedsRecovery(file))
      BY DEF ReleaseOK
    <2>1. UNCHANGED file /\ ~NeedsRecovery(file)
      BY <1>9 DEF Commit, Cancelling, CancelPc, Goto, GoFor, MarkOK, store
    <2> QED BY <2>1
  <1>10. ASSUME Close(p) PROVE ReleaseOK(p)
    <2>1. pc'[p] # "release"
      BY <1>10 DEF Close, Gone, Unlock, Goto, GoFor
    <2> QED BY <2>1 DEF ReleaseOK
  <1>11. ASSUME OpenCheck(p) PROVE ReleaseOK(p)
    <2>1. pc'[p] # "release"
      BY <1>11 DEF OpenCheck, Goto, GoFor
    <2> QED BY <2>1 DEF ReleaseOK
  <1>12. ASSUME RelockHash(p) PROVE ReleaseOK(p)
    <2>1. pc'[p] # "release"
      BY <1>12 DEF RelockHash, Goto, GoFor
    <2> QED BY <2>1 DEF ReleaseOK
  <1>13. ASSUME Restart(p) PROVE ReleaseOK(p)
    <2>1. pc'[p] # "release"
      BY <1>13 DEF Restart, Goto, GoFor
    <2> QED BY <2>1 DEF ReleaseOK
  <1>14. ASSUME LockAllRead(p) PROVE ReleaseOK(p)
    <2>1. pc'[p] # "release"
      BY <1>14 DEF LockAllRead, Goto, GoFor
    <2> QED BY <2>1 DEF ReleaseOK
  <1>15. ASSUME Upgrade(p) PROVE ReleaseOK(p)
    <2> SUFFICES ASSUME pc'[p] = "release" PROVE Failing \/ (UNCHANGED file /\ ~NeedsRecovery(file))
      BY DEF ReleaseOK
    <2>1. UNCHANGED file /\ ~NeedsRecovery(file)
      BY <1>15 DEF Upgrade, PrepareFails, CancelPc, Goto, MarkOK, store
    <2> QED BY <2>1
  <1>16. ASSUME LockOpen(p) PROVE ReleaseOK(p)
    <2>1. pc'[p] # "release"
      BY <1>16 DEF LockOpen, Goto
    <2> QED BY <2>1 DEF ReleaseOK
  <1>17. ASSUME SetupNull(p) PROVE ReleaseOK(p)
    <2> SUFFICES ASSUME pc'[p] = "release" PROVE Failing \/ (UNCHANGED file /\ ~NeedsRecovery(file))
      BY DEF ReleaseOK
    <2>1. UNCHANGED file /\ ~NeedsRecovery(file)
      BY <1>17 DEF SetupNull, CancelPc, Goto, MarkOK, store
    <2> QED BY <2>1
  <1>18. ASSUME Setup(p) PROVE ReleaseOK(p)
    <2>1. pc'[p] # "release"
      BY <1>18 DEF Setup, Goto
    <2> QED BY <2>1 DEF ReleaseOK
  <1>19. ASSUME Expand(p) PROVE ReleaseOK(p)
    <2> SUFFICES ASSUME pc'[p] = "release" PROVE Failing \/ (UNCHANGED file /\ ~NeedsRecovery(file))
      BY DEF ReleaseOK
    <2>1. UNCHANGED file /\ ~NeedsRecovery(file)
      BY <1>19 DEF Expand, PrepareFails, CancelPc, Goto, IoError, MarkOK, store
    <2> QED BY <2>1
  <1>20. ASSUME Point(p) PROVE ReleaseOK(p)
    <2> SUFFICES ASSUME pc'[p] = "release" PROVE Failing \/ (UNCHANGED file /\ ~NeedsRecovery(file))
      BY DEF ReleaseOK
    <2>1. (UNCHANGED file /\ ~NeedsRecovery(file)) \/ Failing
      BY <1>20 DEF Point, PrepareFails, CancelPc, Goto, IoError, WriteExisting,
         MarkOK, CommitOK, Failing, Sync, store
    <2> QED BY <2>1
  <1>21. ASSUME Record(p) PROVE ReleaseOK(p)
    <2> SUFFICES ASSUME pc'[p] = "release" PROVE Failing \/ (UNCHANGED file /\ ~NeedsRecovery(file))
      BY DEF ReleaseOK
    <2>1. (UNCHANGED file /\ ~NeedsRecovery(file)) \/ Failing
      BY <1>21 DEF Record, PrepareFails, CancelPc, Goto, IoError, MarkOK, CommitOK,
         Failing, Sync, store
    <2> QED BY <2>1
  <1>22. ASSUME Sync1(p) PROVE ReleaseOK(p)
    <2> SUFFICES ASSUME pc'[p] = "release" PROVE Failing \/ (UNCHANGED file /\ ~NeedsRecovery(file))
      BY DEF ReleaseOK
    <2>1. (UNCHANGED file /\ ~NeedsRecovery(file)) \/ Failing
      BY <1>22 DEF Sync1, PrepareFails, CancelPc, Goto, IoError, MarkOK, CommitOK,
         Failing, Sync, store
    <2> QED BY <2>1
  <1>23. ASSUME Mark(p) PROVE ReleaseOK(p)
    <2> SUFFICES ASSUME pc'[p] = "release" PROVE Failing \/ (UNCHANGED file /\ ~NeedsRecovery(file))
      BY DEF ReleaseOK
    <2>1. (UNCHANGED file /\ ~NeedsRecovery(file)) \/ Failing
      BY <1>23 DEF Mark, PrepareFails, CancelPc, Goto, IoError, MarkOK, CommitOK,
         Failing, Sync, store
    <2> QED BY <2>1
  <1>24. ASSUME Sync2(p) PROVE ReleaseOK(p)
    <2> SUFFICES ASSUME pc'[p] = "release" PROVE Failing \/ (UNCHANGED file /\ ~NeedsRecovery(file))
      BY DEF ReleaseOK
    <2>1. (UNCHANGED file /\ ~NeedsRecovery(file)) \/ Failing
      BY <1>24 DEF Sync2, PrepareFails, CancelPc, Goto, IoError, MarkOK, CommitOK,
         Failing, Sync, store
    <2> QED BY <2>1
  <1>25. ASSUME CommitWrite(p) PROVE ReleaseOK(p)
    <2>1. pc'[p] # "release"
      BY <1>25 DEF CommitWrite, Goto, GoFor, IoError
    <2> QED BY <2>1 DEF ReleaseOK
  <1>26. ASSUME CommitSync(p) PROVE ReleaseOK(p)
    <2> SUFFICES ASSUME pc'[p] = "release" PROVE Failing \/ (UNCHANGED file /\ ~NeedsRecovery(file))
      BY DEF ReleaseOK
    <2>1. (UNCHANGED file /\ ~NeedsRecovery(file)) \/ Failing
      BY <1>26 DEF CommitSync, CancelPc, Goto, GoFor, IoError, MarkOK, CommitOK,
         Failing, Sync, store
    <2> QED BY <2>1
  <1>27. ASSUME Unmark(p) PROVE ReleaseOK(p)
    <2> SUFFICES ASSUME pc'[p] = "release" PROVE Failing \/ (UNCHANGED file /\ ~NeedsRecovery(file))
      BY DEF ReleaseOK
    <2>1. Failing
      BY <1>27 DEF Unmark, UnmarkFails, GoFor, Goto, IoError, Failing
    <2> QED BY <2>1
  <1>28. ASSUME UnmarkSync(p) PROVE ReleaseOK(p)
    <2> SUFFICES ASSUME pc'[p] = "release" PROVE Failing \/ (UNCHANGED file /\ ~NeedsRecovery(file))
      BY DEF ReleaseOK
    <2>1. (UNCHANGED file /\ ~NeedsRecovery(file)) \/ Failing
      BY <1>28 DEF UnmarkSync, UnmarkFails, Goto, GoFor, IoError, MarkOK, CommitOK,
         Failing, Sync,
         store
    <2> QED BY <2>1
  <1>29. ASSUME Release(p) PROVE ReleaseOK(p)
    <2>1. pc'[p] # "release"
      BY <1>29 DEF Release, Unlock, Goto, GoFor
    <2> QED BY <2>1 DEF ReleaseOK
  <1>30. ASSUME LockAll(p) PROVE ReleaseOK(p)
    <2>1. pc'[p] # "release"
      BY <1>30 DEF LockAll, Goto
    <2> QED BY <2>1 DEF ReleaseOK
  <1>31. ASSUME RecoverLockOpen(p) PROVE ReleaseOK(p)
    <2>1. pc'[p] # "release"
      BY <1>31 DEF RecoverLockOpen, Goto
    <2> QED BY <2>1 DEF ReleaseOK
  <1>32. ASSUME Check(p) PROVE ReleaseOK(p)
    <2>1. pc'[p] # "release"
      BY <1>32 DEF Check, Goto
    <2> QED BY <2>1 DEF ReleaseOK
  <1>33. ASSUME Restore(p) PROVE ReleaseOK(p)
    <2>1. pc'[p] # "release"
      BY <1>33 DEF Restore, RecoverFails, IoError, Goto
    <2> QED BY <2>1 DEF ReleaseOK
  <1>34. ASSUME RestoreSync(p) PROVE ReleaseOK(p)
    <2>1. pc'[p] # "release"
      BY <1>34 DEF RestoreSync, RecoverFails, IoError, Goto
    <2> QED BY <2>1 DEF ReleaseOK
  <1>35. ASSUME Unpoint(p) PROVE ReleaseOK(p)
    <2>1. pc'[p] # "release"
      BY <1>35 DEF Unpoint, RecoverFails, IoError, Goto
    <2> QED BY <2>1 DEF ReleaseOK
  <1>36. ASSUME Invalidate(p) PROVE ReleaseOK(p)
    <2>1. pc'[p] # "release"
      BY <1>36 DEF Invalidate, RecoverFails, IoError, Goto
    <2> QED BY <2>1 DEF ReleaseOK
  <1>37. ASSUME InvalidateSync(p) PROVE ReleaseOK(p)
    <2>1. pc'[p] # "release"
      BY <1>37 DEF InvalidateSync, RecoverFails, IoError, Goto
    <2> QED BY <2>1 DEF ReleaseOK
  <1>38. ASSUME Recovered(p) PROVE ReleaseOK(p)
    <2> SUFFICES ASSUME pc'[p] = "release" PROVE Failing \/ (UNCHANGED file /\ ~NeedsRecovery(file))
      BY DEF ReleaseOK
    <2>1. UNCHANGED file /\ ~NeedsRecovery(file)
      BY <1>38 DEF Recovered, GoFor, Goto, CancelPc, AfterRecovery, FaultInv,
         RestoreOK, LockInv, Recovering, store
    <2> QED BY <2>1
  <1>39. ASSUME Die(p) PROVE ReleaseOK(p)
    <2>1. pc'[p] # "release"
      BY <1>39 DEF Die, Gone, Unlock, Goto, GoFor
    <2> QED BY <2>1 DEF ReleaseOK
  <1> QED
    BY <1>1, <1>2, <1>3, <1>4, <1>5, <1>6, <1>7, <1>8, <1>9, <1>10, <1>11, <1>12,
       <1>13, <1>14, <1>15, <1>16, <1>17, <1>18, <1>19, <1>20, <1>21, <1>22, <1>23,
       <1>24, <1>25, <1>26, <1>27, <1>28, <1>29, <1>30, <1>31, <1>32, <1>33, <1>34,
       <1>35, <1>36, <1>37, <1>38, <1>39 DEF Calls, Steps

\* How the invariant of the readers speaks of p's own step.
LEMMA FreshStep ==
  ASSUME NEW p \in Proc, Safe, Sound, Fresh, Calls(p) \/ Steps(p) \/ Die(p)
  PROVE  Fresh'
  <1>0. /\ TypeOK /\ LockInv /\ FaultOwn(p) /\ ReleaseOK(p) /\ RestoreOK(p) /\ LockInv'
        /\ wr # p => UNCHANGED file
        /\ \A q \in Proc \ {p} : /\ pc'[q] = pc[q] /\ goal'[q] = goal[q]
                                 /\ (wr' = q) = (wr = q)
        /\ wr' \in Proc \cup {NULL}
    BY Owners, FaultOwnStep, ReleaseStep, SafeStep
       DEF Safe, Typing, TypeOK, Sound, RestoreInv, store
  <1>1. /\ budget.death \in Nat /\ budget.io \in Nat /\ budget'.death \in Nat /\ budget'.io \in Nat
        /\ budget'.io <= budget.io /\ budget'.death <= budget.death
        /\ budget.death + budget.io <= 1
    BY <1>0 DEF TypeOK, FaultOwn, Budget, Fresh
  <1>2. /\ budget'.death + budget'.io <= 1
        /\ Failing => Spent' /\ ~Spent
        /\ Spent => Spent'
        /\ budget'.io < budget.io => Failing
    BY <1>1 DEF Failing, Spent
  <1>3. NULL \notin Proc
    BY NtdbAssumption
  \* A marker that nobody is about to remove.
  <1>4. NeedsRecovery(file)' /\ wr' = NULL => Spent'
    <2> SUFFICES ASSUME NeedsRecovery(file)', wr' = NULL, ~Failing PROVE Spent
      BY <1>2
    <2>1. CASE wr = NULL
      <3>1. UNCHANGED file
        BY <1>0, <1>3, <2>1
      <3> QED BY <2>1, <3>1 DEF Fresh
    <2>2. CASE wr # NULL
      <3>1. wr = p
        BY <1>0, <2>2 DEF TypeOK
      <3>2. pc[p] \in {"release", "recovered", "failed"} /\ UNCHANGED file
        BY <1>0, <1>3, <3>1 DEF FaultOwn
      <3>3. NeedsRecovery(file) /\ pc[p] # "recovered"
        BY <1>0, <3>2 DEF RestoreOK
      <3> QED BY <3>1, <3>2, <3>3 DEF Fresh
    <2> QED BY <2>1, <2>2
  <1>5. ASSUME NEW q \in Proc, pc'[q] = "release", wr' = q, NeedsRecovery(file)'
        PROVE  Failing \/ (q # p /\ pc[q] = "release" /\ wr = q /\ NeedsRecovery(file))
    <2>1. CASE q = p
      BY <1>0, <1>5, <2>1 DEF ReleaseOK
    <2>2. CASE q # p
      BY <1>0, <1>5, <2>2
    <2> QED BY <2>1, <2>2
  <1>6. ASSUME NEW q \in Proc, pc'[q] \in {"failed", "relock"} \/ goal'[q] = "read"
        PROVE  Spent'
    <2>1. CASE q = p
      BY <1>0, <1>2, <1>6, <2>1 DEF FaultOwn, Fresh
    <2>2. CASE q # p
      BY <1>0, <1>2, <1>6, <2>2 DEF Fresh
    <2> QED BY <2>1, <2>2
  <1>7. ASSUME NEW q \in Proc, pc'[q] = "relock"
        PROVE  /\ wr' = NULL => ~NeedsRecovery(file)'
               /\ \A r \in Proc :
                    /\ pc'[r] # "failed"
                    /\ pc'[r] = "release" /\ wr' = r => ~NeedsRecovery(file)'
    <2>1. CASE q = p
      <3>1. pc[p] = "recovered" /\ wr = p /\ UNCHANGED file /\ ~NeedsRecovery(file)
        BY <1>0, <1>7, <2>1 DEF FaultOwn, RestoreOK
      <3>2. \A r \in Proc : pc'[r] # "failed"
        BY <1>0, <1>7, <2>1, <3>1 DEF LockInv, Recovering
      <3> QED BY <3>1, <3>2
    <2>2. CASE q # p
      <3>1. pc[q] = "relock" /\ Spent /\ ~Failing
        BY <1>0, <1>2, <1>7, <2>2 DEF Fresh
      <3>2. \A r \in Proc : pc'[r] # "failed"
        BY <1>0, <1>2, <3>1 DEF FaultOwn, Fresh
      <3>3. \A r \in Proc : pc'[r] = "release" /\ wr' = r => ~NeedsRecovery(file)'
        BY <1>5, <3>1 DEF Fresh
      <3>4. wr' = NULL => ~NeedsRecovery(file)'
        <4>1. CASE wr = NULL
          BY <1>0, <1>3, <3>1, <4>1 DEF Fresh
        <4>2. CASE wr # NULL
          <5> SUFFICES ASSUME wr' = NULL PROVE ~NeedsRecovery(file)'
            OBVIOUS
          <5>1. wr = p
            BY <1>0, <4>2 DEF TypeOK
          <5>2. pc[p] \in {"release", "recovered"} /\ UNCHANGED file
            BY <1>0, <1>3, <3>1, <5>1 DEF FaultOwn, Fresh
          <5> QED BY <1>0, <3>1, <5>1, <5>2 DEF RestoreOK, Fresh
        <4> QED BY <4>1, <4>2
      <3> QED BY <3>2, <3>3, <3>4
    <2> QED BY <2>1, <2>2
  <1>8. ASSUME NEW q \in Proc, pc'[q] = "reading"
        PROVE  ~NeedsRecovery(file)'
    <2>1. CASE q = p
      BY <1>0, <1>8, <2>1 DEF FaultOwn, Fresh
    <2>2. CASE q # p
      <3>1. pc[q] = "reading" /\ wr = NULL
        BY <1>0, <1>8, <2>2 DEF LockInv
      <3> QED BY <1>0, <1>3, <3>1 DEF Fresh
    <2> QED BY <2>1, <2>2
  <1> QED BY <1>2, <1>4, <1>5, <1>6, <1>7, <1>8 DEF Fresh

\* A crash leaves nobody who could have found a marker.
LEMMA FreshCrash ==
  ASSUME Safe, Sound, Fresh, Crash
  PROVE  Fresh'
  <1>1. budget.death = 0 /\ budget.io = 0 /\ budget.crash # 0
    BY DEF Sound, FaultInv, Safe, Typing, TypeOK, Budget, Crash
  <1>2. budget'.death = 0 /\ budget'.io = 0
    BY <1>1 DEF Crash, Safe, Typing, TypeOK, Budget
  <1>3. \A p \in Proc : pc'[p] = "closed" /\ goal'[p] = "none"
    BY DEF Crash
  <1> QED BY <1>2, <1>3 DEF Fresh, Spent

\* The budgets of the last theorem: one death, one I/O error, or any number
\* of crashes of the machine.
OneFailure ==
  \A b \in Budgets : b.death + b.io <= 1 /\ (b.crash = 0 \/ b.death + b.io = 0)

LEMMA OneFailureSort ==
  ASSUME OneFailure
  PROVE  OneSort
  BY NtdbAssumption DEF OneFailure, OneSort, Budget

LEMMA FreshInit ==
  ASSUME Init, OneFailure
  PROVE  Fresh
  BY EmptyFile DEF Init, OneFailure, Fresh

LEMMA FreshStutter ==
  ASSUME Fresh, UNCHANGED vars
  PROVE  Fresh'
  BY DEF Fresh, Spent, NeedsRecovery, vars

\* Without a marker the pages are the database.
LEMMA ReadersLemma ==
  ASSUME Fresh
  PROVE  ReadersSeeCommitted
  <1> SUFFICES ASSUME NEW p \in Proc, NEW pg \in Page, pc[p] = "reading"
               PROVE  file[Data(pg)] = Database(file)[pg]
    BY DEF ReadersSeeCommitted
  <1>1. Database(file) = Plain(file)
    BY PlainDatabase DEF Fresh, Old
  <1> QED BY <1>1 DEF Plain

\* Readers see no changes until the commit (ntdb.h:271): with one death,
\* one I/O error or machine crashes, whoever has a hash lock, also after a recovery that it
\* waited for, finds the committed database in the pages.
THEOREM ReadersCorrect ==
  ASSUME OneFailure
  PROVE  Spec => []ReadersSeeCommitted
  <1>1. Init => Fresh
    BY FreshInit
  <1>2. Safe /\ Sound /\ Fresh /\ [Next]_vars => Fresh'
    BY FreshStep, FreshStutter, FreshCrash DEF Next
  <1>3. Fresh => ReadersSeeCommitted
    BY ReadersLemma
  <1>4. OneSort
    BY OneFailureSort
  <1>5. Spec => [](Sound /\ DiskInv)
    BY <1>4, SoundCorrect
  <1> QED BY <1>1, <1>2, <1>3, <1>5, Inductive, PTL DEF Spec
=============================================================================
