-------------------------- MODULE NtdbSoundProofs --------------------------
(***************************************************************************)
(* What holds of the file and of what a machine crash can leave of it, for *)
(* any number of processes, pages and recovery areas, with deaths and at   *)
(* most one I/O error or else with machine crashes: Sound and DiskInv are  *)
(* inductive.                                                              *)
(***************************************************************************)
EXTENDS NtdbProofs

-----------------------------------------------------------------------------
(* Failures *)

\* The step is a death or an I/O error.
Failing == budget'.death + budget'.io < budget.death + budget.io

\* What a step does to the failures that may still come, and how a process
\* gets to where the invariants speak of them.
FaultOwn(p) ==
  /\ pc'[p] \in {"closed", "opening"} \/ pc[p] \notin {"closed", "opening"} \/ Readable
  /\ budget' \in Budget /\ budget'.crash = budget.crash
  /\ budget'.io <= budget.io /\ budget'.death <= budget.death
  /\ Failing => UNCHANGED file /\ pc'[p] \notin {"reading", "relock"}
  /\ goal'[p] = "abort" => goal[p] = "abort" \/ budget'.io < budget.io
  /\ pc'[p] = "failed" => budget'.io < budget.io /\ goal'[p] = goal[p]
  /\ goal'[p] = "read" => goal[p] = "read" \/ (NeedsRecovery(file) /\ wr = NULL)
  /\ pc'[p] = "relock" =>
       pc[p] = "recovered" /\ goal[p] = "read" /\ wr = p /\ UNCHANGED file
  /\ pc'[p] = "reading" =>
       UNCHANGED file /\ wr = NULL /\ (pc[p] = "relock" \/ ~NeedsRecovery(file))
  /\ wr = p /\ wr' # p /\ ~Failing =>
       pc[p] \in {"release", "recovered", "failed"} /\ UNCHANGED file

LEMMA FaultOwnStep ==
  ASSUME NEW p \in Proc, Safe, Calls(p) \/ Steps(p) \/ Die(p)
  PROVE  FaultOwn(p)
  <1>0. TypeOK /\ LockInv
    BY DEF Safe, Typing
  <1> USE <1>0, NtdbAssumption DEF TypeOK, LockInv, Budget, FaultOwn, Failing, store, locks,
         Recovering, InTxn, Committing, Unmarking
  <1>1. ASSUME Open(p) PROVE FaultOwn(p)
    BY <1>1 DEF Open, Goto
  <1>2. ASSUME LockHash(p) PROVE FaultOwn(p)
    BY <1>2 DEF LockHash, Goto, GoFor
  <1>3. ASSUME UnlockHash(p) PROVE FaultOwn(p)
    BY <1>3 DEF UnlockHash, Goto
  <1>4. ASSUME Start(p) PROVE FaultOwn(p)
    BY <1>4 DEF Start, Goto, GoFor
  <1>5. ASSUME NEW pg \in Page, NEW v \in Values, Write(p, pg, v) PROVE FaultOwn(p)
    BY <1>5 DEF Write, IoError
  <1>6. ASSUME NestedStart(p) PROVE FaultOwn(p)
    BY <1>6 DEF NestedStart
  <1>7. ASSUME Cancel(p) PROVE FaultOwn(p)
    BY <1>7 DEF Cancel, CancelTxn, Cancelling, CancelPc, Goto
  <1>8. ASSUME Prepare(p) PROVE FaultOwn(p)
    BY <1>8 DEF Prepare, CancelTxn, Cancelling, CancelPc, Goto, GoFor
  <1>9. ASSUME Commit(p) PROVE FaultOwn(p)
    BY <1>9 DEF Commit, Cancelling, CancelPc, Goto, GoFor
  <1>10. ASSUME Close(p) PROVE FaultOwn(p)
    BY <1>10 DEF Close, Gone, Unlock, Goto, GoFor
  <1>11. ASSUME OpenCheck(p) PROVE FaultOwn(p)
    BY <1>11 DEF OpenCheck, Goto, GoFor
  <1>12. ASSUME RelockHash(p) PROVE FaultOwn(p)
    BY <1>12 DEF RelockHash, Goto, GoFor
  <1>13. ASSUME Restart(p) PROVE FaultOwn(p)
    BY <1>13 DEF Restart, Goto, GoFor
  <1>14. ASSUME LockAllRead(p) PROVE FaultOwn(p)
    BY <1>14 DEF LockAllRead, Goto, GoFor
  <1>15. ASSUME Upgrade(p) PROVE FaultOwn(p)
    BY <1>15 DEF Upgrade, PrepareFails, CancelPc, Goto
  <1>16. ASSUME LockOpen(p) PROVE FaultOwn(p)
    BY <1>16 DEF LockOpen, Goto
  <1>17. ASSUME SetupNull(p) PROVE FaultOwn(p)
    BY <1>17 DEF SetupNull, CancelPc, Goto
  <1>18. ASSUME Setup(p) PROVE FaultOwn(p)
    BY <1>18 DEF Setup, Goto
  <1>19. ASSUME Expand(p) PROVE FaultOwn(p)
    BY <1>19 DEF Expand, PrepareFails, CancelPc, Goto, IoError
  <1>20. ASSUME Point(p) PROVE FaultOwn(p)
    BY <1>20 DEF Point, PrepareFails, CancelPc, Goto, IoError, WriteExisting
  <1>21. ASSUME Record(p) PROVE FaultOwn(p)
    BY <1>21 DEF Record, PrepareFails, CancelPc, Goto, IoError
  <1>22. ASSUME Sync1(p) PROVE FaultOwn(p)
    BY <1>22 DEF Sync1, PrepareFails, CancelPc, Goto, IoError
  <1>23. ASSUME Mark(p) PROVE FaultOwn(p)
    BY <1>23 DEF Mark, PrepareFails, CancelPc, Goto, IoError
  <1>24. ASSUME Sync2(p) PROVE FaultOwn(p)
    BY <1>24 DEF Sync2, PrepareFails, CancelPc, Goto, IoError
  <1>25. ASSUME CommitWrite(p) PROVE FaultOwn(p)
    BY <1>25 DEF CommitWrite, Goto, GoFor, IoError
  <1>26. ASSUME CommitSync(p) PROVE FaultOwn(p)
    BY <1>26 DEF CommitSync, CancelPc, Goto, GoFor, IoError
  <1>27. ASSUME Unmark(p) PROVE FaultOwn(p)
    BY <1>27 DEF Unmark, UnmarkFails, Goto, GoFor, IoError
  <1>28. ASSUME UnmarkSync(p) PROVE FaultOwn(p)
    BY <1>28 DEF UnmarkSync, UnmarkFails, Goto, GoFor, IoError
  <1>29. ASSUME Release(p) PROVE FaultOwn(p)
    BY <1>29 DEF Release, Unlock, Goto, GoFor
  <1>30. ASSUME LockAll(p) PROVE FaultOwn(p)
    BY <1>30 DEF LockAll, Goto
  <1>31. ASSUME RecoverLockOpen(p) PROVE FaultOwn(p)
    BY <1>31 DEF RecoverLockOpen, Goto
  <1>32. ASSUME Check(p) PROVE FaultOwn(p)
    BY <1>32 DEF Check, Goto
  <1>33. ASSUME Restore(p) PROVE FaultOwn(p)
    BY <1>33 DEF Restore, RecoverFails, IoError, Goto
  <1>34. ASSUME RestoreSync(p) PROVE FaultOwn(p)
    BY <1>34 DEF RestoreSync, RecoverFails, IoError, Goto
  <1>35. ASSUME Unpoint(p) PROVE FaultOwn(p)
    BY <1>35 DEF Unpoint, RecoverFails, IoError, Goto
  <1>36. ASSUME Invalidate(p) PROVE FaultOwn(p)
    BY <1>36 DEF Invalidate, RecoverFails, IoError, Goto
  <1>37. ASSUME InvalidateSync(p) PROVE FaultOwn(p)
    BY <1>37 DEF InvalidateSync, RecoverFails, IoError, Goto
  <1>38. ASSUME Recovered(p) PROVE FaultOwn(p)
    BY <1>38 DEF Recovered, Unlock, CancelPc, AfterRecovery, Goto, GoFor
  <1>39. ASSUME Die(p) PROVE FaultOwn(p)
    BY <1>39 DEF Die, Gone, Unlock, Goto, GoFor
  <1> QED
    BY <1>1, <1>2, <1>3, <1>4, <1>5, <1>6, <1>7, <1>8, <1>9, <1>10, <1>11, <1>12,
       <1>13, <1>14, <1>15, <1>16, <1>17, <1>18, <1>19, <1>20, <1>21, <1>22, <1>23,
       <1>24, <1>25, <1>26, <1>27, <1>28, <1>29, <1>30, <1>31, <1>32, <1>33, <1>34,
       <1>35, <1>36, <1>37, <1>38, <1>39 DEF Calls, Steps
-----------------------------------------------------------------------------
(* The file *)

\* What the invariant says of one process, and where it says nothing.
OwnOK(p) == FreeOK(p) /\ MarkOK(p) /\ RestoreOK(p)

Idle == {"closed", "opening", "ready", "reading", "relock", "starting", "restart",
         "release", "lockall", "rlockopen", "check", "failed"}

LEMMA AreaSame ==
  ASSUME AreaInv, UNCHANGED file, Active' => Readable
  PROVE  AreaInv'
  BY DEF AreaInv, NeedsRecovery, Readable, Elsewhere

LEMMA Quiet ==
  ASSUME AreaInv, Active' => Readable, UNCHANGED file, NEW p \in Proc, pc'[p] \in Idle
  PROVE  AreaInv' /\ OwnOK(p)'
  BY AreaSame DEF OwnOK, FreeOK, MarkOK, RestoreOK, Idle

\* A step inside the transaction that changes neither file nor blocks.
LEMMA StayTxn ==
  ASSUME AreaInv, Active' => Readable, NEW p \in Proc, OwnOK(p), pc[p] \in {"txn", "upgrade"},
         pc'[p] \in {"txn", "upgrade", "unmark", "release"},
         pc[p] = "upgrade" => ~txn.prepared,
         UNCHANGED <<file, wr, area>>,
         txn'.prepared = txn.prepared, txn'.magic = txn.magic,
         txn'.blocks = txn.blocks, txn'.null = txn.null
  PROVE  AreaInv' /\ OwnOK(p)'
  <1>1. FreeOK(p)'
    BY DEF OwnOK, FreeOK, Elsewhere
  <1>2. MarkOK(p)'
    BY DEF OwnOK, MarkOK, Clean, Covered, Done, NeedsRecovery
  <1> QED BY <1>1, <1>2, AreaSame DEF OwnOK, RestoreOK

\* A prepare that fails before the marker is in the file.
LEMMA FailTxn ==
  ASSUME AreaInv, Active' => Readable, Typing, NEW p \in Proc, ~NeedsRecovery(file), wr' = p, ~txn.prepared,
         UNCHANGED <<store, txn, area>>, PrepareFails(p, txn.magic)
  PROVE  AreaInv' /\ OwnOK(p)'
  <1>1. UNCHANGED file /\ pc'[p] \in {"txn", "unmark", "release"}
    BY DEF store, PrepareFails, CancelPc, Goto, Typing, TypeOK
  <1> QED BY <1>1, AreaSame DEF OwnOK, FreeOK, MarkOK, RestoreOK

LEMMA WriteDomain ==
  ASSUME TxnShape(txn), NEW p, NEW pg, NEW v, Write(p, pg, v)
  PROVE  /\ txn'.prepared = txn.prepared /\ txn'.magic = txn.magic
         /\ txn.prepared => txn'.blocks = txn.blocks /\ txn'.null = txn.null
         /\ DOMAIN txn'.blocks \subseteq DOMAIN txn.blocks \cup {Data(pg)}
  BY WriteFacts

\* A block that a commit writes changes that cell only: the header with it
\* is the one in the file.
LEMMA CommitWriteFacts ==
  ASSUME Safe, NEW p \in Proc, CommitWrite(p), pc'[p] # "check"
  PROVE  \E c \in DOMAIN txn.blocks :
           \A d \in Cell : file'[d] = IF d = c THEN txn.blocks[c] ELSE file[d]
  <1> DEFINE c == First(todo)
             new == [d \in {c} \cup (IF c = Data(1) THEN {Recovery} ELSE {}) |->
                      IF d = Recovery THEN txn.recovery ELSE txn.blocks[d]]
  <1>1. TypeOK /\ pc[p] = "write" /\ todo # {} /\ CommitOK(p)
    BY DEF Safe, Typing, CommitWrite, CommitInv
  <1>2. Put(new)
    BY <1>1 DEF CommitWrite, GoFor, Goto, TypeOK
  <1>3. c \in DOMAIN txn.blocks /\ c \in DataCell \cup HeadCell
    BY <1>1, FirstFact DEF CommitOK, TypeOK
  <1>4. c = Data(1) => txn.recovery = file[Recovery]
    BY <1>1, <1>3 DEF CommitOK, Committing
  <1>5. c # Recovery
    BY <1>3, KindFacts
  <1>6. \A d \in Cell : file'[d] = IF d \in DOMAIN new THEN new[d] ELSE file[d]
    BY <1>2, PutFacts
  <1> HIDE DEF c
  <1>7. \A d \in Cell : file'[d] = IF d = c THEN txn.blocks[c] ELSE file[d]
    BY <1>4, <1>5, <1>6
  <1> QED BY <1>3, <1>7

LEMMA ReadableStep ==
  ASSUME NEW p \in Proc, Safe, AreaInv, Calls(p) \/ Steps(p) \/ Die(p)
  PROVE  /\ pc[p] \notin {"closed", "opening"} => Readable
         /\ Active' => Readable
  BY Owners, FaultOwnStep DEF FaultOwn, AreaInv, Active

LEMMA SoundOwn ==
  ASSUME NEW p \in Proc, Safe, Sound, Calls(p) \/ Steps(p) \/ Die(p)
  PROVE  AreaInv' /\ OwnOK(p)'
  <1>0. /\ Safe /\ Typing /\ TypeOK /\ StoreTyped /\ TxnShape(txn) /\ LockInv /\ StartInv
        /\ CommitOK(p) /\ TodoOK(p) /\ AreaInv /\ FaultInv
        /\ OwnOK(p) /\ FreeOK(p) /\ MarkOK(p) /\ RestoreOK(p)
    BY DEF Safe, Typing, CommitInv, TodoInv, Sound, FreeInv, MarkInv, RestoreInv, OwnOK
  <1>00. /\ pc[p] \notin {"closed", "opening"} => Readable
         /\ Active' => Readable
    BY ReadableStep DEF Sound
  <1> USE <1>0, <1>00 DEF TypeOK, Readable
  <1>1. ASSUME Open(p) PROVE AreaInv' /\ OwnOK(p)'
    <2>1. UNCHANGED file /\ pc'[p] \in Idle
      BY <1>1 DEF Open, Goto, store, Idle
    <2> QED BY <2>1, Quiet
  <1>2. ASSUME LockHash(p) PROVE AreaInv' /\ OwnOK(p)'
    <2>1. UNCHANGED file /\ pc'[p] \in Idle
      BY <1>2 DEF LockHash, Goto, GoFor, store, Idle
    <2> QED BY <2>1, Quiet
  <1>3. ASSUME UnlockHash(p) PROVE AreaInv' /\ OwnOK(p)'
    <2>1. UNCHANGED file /\ pc'[p] \in Idle
      BY <1>3 DEF UnlockHash, Goto, store, Idle
    <2> QED BY <2>1, Quiet
  <1>4. ASSUME Start(p) PROVE AreaInv' /\ OwnOK(p)'
    <2>1. UNCHANGED file /\ pc'[p] \in Idle
      BY <1>4 DEF Start, Goto, GoFor, store, Idle
    <2> QED BY <2>1, Quiet
  <1>5. ASSUME NEW pg \in Page, NEW v \in Values, Write(p, pg, v) PROVE AreaInv' /\ OwnOK(p)'
    <2>1. pc[p] = "txn" /\ UNCHANGED <<file, wr, area, pc>>
      BY <1>5 DEF Write, IoError, store, locks
    <2>2. /\ txn'.prepared = txn.prepared /\ txn'.magic = txn.magic
          /\ txn.prepared => txn'.blocks = txn.blocks /\ txn'.null = txn.null
          /\ DOMAIN txn'.blocks \subseteq DOMAIN txn.blocks \cup {Data(pg)}
      BY <1>0, <1>5, WriteDomain
    <2>3. AreaInv'
      BY <2>1, AreaSame
    <2>4. FreeOK(p)'
      BY <2>1, <2>2, KindFacts DEF FreeOK, Elsewhere
    <2>5. MarkOK(p)'
      BY <2>1, <2>2 DEF MarkOK, Clean, Covered, Done, NeedsRecovery
    <2> QED BY <2>1, <2>3, <2>4, <2>5 DEF OwnOK, RestoreOK
  <1>6. ASSUME NestedStart(p) PROVE AreaInv' /\ OwnOK(p)'
    <2>1. /\ pc[p] = "txn" /\ UNCHANGED <<file, wr, area, pc>>
          /\ txn'.prepared = txn.prepared /\ txn'.magic = txn.magic
          /\ txn'.blocks = txn.blocks /\ txn'.null = txn.null
      BY <1>6 DEF NestedStart, store, locks, TxnShape
    <2> QED BY <2>1, StayTxn
  <1>7. ASSUME Cancel(p) PROVE AreaInv' /\ OwnOK(p)'
    <2>1. /\ pc[p] = "txn" /\ UNCHANGED <<file, wr, area>>
          /\ pc'[p] \in {"txn", "upgrade", "unmark", "release"}
      BY <1>7, CancelFacts DEF Cancel, store, locks, GoFor, Goto, CancelPc
    <2>2. /\ txn'.prepared = txn.prepared /\ txn'.magic = txn.magic
          /\ txn'.blocks = txn.blocks /\ txn'.null = txn.null
      BY <1>0, <1>7, CancelFacts DEF Cancel
    <2> QED BY <2>1, <2>2, StayTxn
  <1>8. ASSUME Prepare(p) PROVE AreaInv' /\ OwnOK(p)'
    <2>1. /\ pc[p] = "txn" /\ UNCHANGED <<file, wr, area>>
          /\ pc'[p] \in {"txn", "upgrade", "unmark", "release"}
      BY <1>8, CancelFacts DEF Prepare, store, locks, GoFor, Goto, CancelPc
    <2>2. /\ txn'.prepared = txn.prepared /\ txn'.magic = txn.magic
          /\ txn'.blocks = txn.blocks /\ txn'.null = txn.null
      BY <1>0, <1>8, CancelFacts DEF Prepare
    <2> QED BY <2>1, <2>2, StayTxn
  <1>9. ASSUME Commit(p) PROVE AreaInv' /\ OwnOK(p)'
    <2>1. /\ pc[p] = "txn" /\ UNCHANGED <<file, wr, area>>
          /\ txn'.prepared = txn.prepared /\ txn'.magic = txn.magic
          /\ txn'.blocks = txn.blocks /\ txn'.null = txn.null
      BY <1>9 DEF Commit, store, locks, TxnShape
    <2>2. \/ pc'[p] \in {"txn", "upgrade", "unmark", "release"}
          \/ pc'[p] = "write" /\ txn.prepared /\ ~txn.null
      BY <1>9 DEF Commit, Cancelling, CancelPc, Goto, GoFor
    <2>3. CASE pc'[p] \in {"txn", "upgrade", "unmark", "release"}
      BY <2>1, <2>3, StayTxn
    <2>4. CASE pc'[p] = "write" /\ txn.prepared /\ ~txn.null
      <3>1. AreaInv'
        BY <2>1, AreaSame
      <3>2. FreeOK(p)'
        BY <2>1, <2>4 DEF FreeOK, Elsewhere
      <3>3. MarkOK(p)'
        BY <2>1, <2>4 DEF MarkOK, Covered
      <3> QED BY <2>4, <3>1, <3>2, <3>3 DEF OwnOK, RestoreOK
    <2> QED BY <2>2, <2>3, <2>4
  <1>10. ASSUME Close(p) PROVE AreaInv' /\ OwnOK(p)'
    <2>1. UNCHANGED file /\ pc'[p] \in Idle
      BY <1>10 DEF Close, Gone, Unlock, Goto, GoFor, store, Idle
    <2> QED BY <2>1, Quiet
  <1>11. ASSUME OpenCheck(p) PROVE AreaInv' /\ OwnOK(p)'
    <2>1. UNCHANGED file /\ pc'[p] \in Idle
      BY <1>11 DEF OpenCheck, Goto, GoFor, store, Idle
    <2> QED BY <2>1, Quiet
  <1>12. ASSUME RelockHash(p) PROVE AreaInv' /\ OwnOK(p)'
    <2>1. UNCHANGED file /\ pc'[p] \in Idle
      BY <1>12 DEF RelockHash, Goto, GoFor, store, Idle
    <2> QED BY <2>1, Quiet
  <1>13. ASSUME Restart(p) PROVE AreaInv' /\ OwnOK(p)'
    <2>1. UNCHANGED file /\ pc'[p] \in Idle
      BY <1>13 DEF Restart, Goto, GoFor, store, Idle
    <2> QED BY <2>1, Quiet
  <1>14. ASSUME LockAllRead(p) PROVE AreaInv' /\ OwnOK(p)'
    <2>1. CASE NeedsRecovery(file)
      <3>1. UNCHANGED file /\ pc'[p] \in Idle
        BY <1>14, <2>1 DEF LockAllRead, store, Idle, Goto, GoFor
      <3> QED BY <3>1, Quiet
    <2>2. CASE ~NeedsRecovery(file)
      <3>1. UNCHANGED <<file, area, wr>> /\ wr = NULL /\ pc'[p] = "txn"
        BY <1>14, <2>2 DEF LockAllRead, Goto, store
      <3>2. txn' = [NoTxn EXCEPT !.eof = file[Size]]
        BY <1>14, <2>2 DEF LockAllRead
      <3>3. ~txn'.prepared /\ DOMAIN txn'.blocks = {}
        BY <3>2, NoTxnFacts, Zenon
      <3>4. AreaInv'
        BY <3>1, AreaSame
      <3>5. ~NeedsRecovery(file)'
        BY <2>2, <3>1
      <3>6. FreeOK(p)'
        BY <3>1, <3>3 DEF FreeOK
      <3>7. MarkOK(p)'
        BY <3>1, <3>3, <3>5 DEF MarkOK
      <3> QED BY <3>1, <3>4, <3>6, <3>7 DEF OwnOK, RestoreOK
    <2> QED BY <2>1, <2>2
  <1>15. ASSUME Upgrade(p) PROVE AreaInv' /\ OwnOK(p)'
    <2>1. pc[p] = "upgrade" /\ UNCHANGED <<file, txn, area>>
      BY <1>15 DEF Upgrade, store
    <2>2. CASE wr = p
      <3>1. UNCHANGED wr /\ pc'[p] \in {"txn", "unmark", "release"} /\ ~txn.prepared
        BY <1>15, <2>2, NtdbAssumption DEF Upgrade, PrepareFails, CancelPc, Goto,
           CommitOK
      <3> QED BY <2>1, <3>1, StayTxn
    <2>3. CASE wr # p
      <3>1. wr = NULL /\ pc'[p] = "lockopen"
        BY <1>15, <2>3 DEF Upgrade, Goto
      <3>2. txn.magic = 0
        BY <1>0, <2>1, <3>1, NtdbAssumption DEF StartInv, LockInv, InTxn
      <3>3. DOMAIN txn.blocks \subseteq DataCell /\ ~NeedsRecovery(file)
        BY <2>1, <2>3, <3>2 DEF FreeOK, MarkOK
      <3> QED BY <2>1, <3>1, <3>3, AreaSame DEF OwnOK, FreeOK, MarkOK, RestoreOK
    <2> QED BY <2>2, <2>3
  <1>16. ASSUME LockOpen(p) PROVE AreaInv' /\ OwnOK(p)'
    <2>1. pc[p] = "lockopen" /\ pc'[p] = "setup" /\ UNCHANGED <<file, txn>>
      BY <1>16 DEF LockOpen, Goto, store
    <2>2. DOMAIN txn.blocks \subseteq DataCell /\ ~NeedsRecovery(file)
      BY <2>1 DEF FreeOK, MarkOK
    <2> QED BY <2>1, <2>2, AreaSame DEF OwnOK, FreeOK, MarkOK, RestoreOK
  <1>17. ASSUME SetupNull(p) PROVE AreaInv' /\ OwnOK(p)'
    <2>1. /\ pc[p] = "setup" /\ UNCHANGED <<file, wr>> /\ txn'.null = TRUE
          /\ pc'[p] \in {"txn", "unmark", "release"}
      BY <1>17 DEF SetupNull, CancelPc, Goto, store, locks, TxnShape
    <2>2. wr = p /\ ~NeedsRecovery(file)
      BY <1>0, <2>1 DEF MarkOK, LockInv, Committing
    <2> QED BY <2>1, <2>2, AreaSame DEF OwnOK, FreeOK, MarkOK, RestoreOK
  <1>18. ASSUME Setup(p) PROVE AreaInv' /\ OwnOK(p)'
    <2>1. pc[p] = "setup" /\ UNCHANGED <<file, wr>>
      BY <1>18 DEF Setup, store, locks
    <2>2. ~NeedsRecovery(file) /\ DOMAIN txn.blocks \subseteq DataCell
      BY <2>1 DEF MarkOK, FreeOK
    <2>3. CASE pc'[p] = "record"
      <3>1. UNCHANGED txn
        BY <1>18, <2>3 DEF Setup, Goto
      <3>2. Elsewhere(DOMAIN txn.blocks, area)'
        BY <2>2, <3>1, CellFacts DEF DataCell, Elsewhere
      <3> QED BY <2>1, <2>2, <2>3, <3>2, AreaSame DEF OwnOK, FreeOK, MarkOK, RestoreOK
    <2>4. CASE pc'[p] # "record"
      <3>1. /\ pc'[p] = "expand"
            /\ DOMAIN txn'.blocks \subseteq DOMAIN txn.blocks \cup {Head(file[Recovery])}
        BY <1>18, <2>4 DEF Setup, Goto, Fits, RecoveryArea, TxnShape
      <3>2. \A a \in Area : Head(a) \in DOMAIN txn'.blocks => a <= file'[Size]
        BY <2>1, <2>2, <3>1, CellFacts DEF DataCell, AreaInv
      <3> QED BY <2>1, <2>2, <3>1, <3>2, AreaSame DEF OwnOK, FreeOK, MarkOK, RestoreOK
    <2> QED BY <2>3, <2>4
  <1>19. ASSUME Expand(p) PROVE AreaInv' /\ OwnOK(p)'
    <2>1. pc[p] = "expand" /\ UNCHANGED txn /\ wr = p /\ wr' = p /\ ~txn.prepared /\ ~NeedsRecovery(file)
      BY <1>0, <1>19 DEF Expand, locks, LockInv, Committing, CommitOK, MarkOK
    <2>2. CASE UNCHANGED <<store, area>> /\ PrepareFails(p, txn.magic)
      BY <2>1, <2>2, FailTxn
    <2>3. CASE /\ file[Size] + 1 \in Area /\ area' = file[Size] + 1
               /\ pc' = [pc EXCEPT ![p] = "point"]
               /\ file'[Size] = file[Size] + 1
               /\ file'[Head(area')].magic = "fill"
               /\ \A c \in Cell \ {Size, Head(area'), Body(area')} : file'[c] = file[c]
      <3>1. pc'[p] = "point"
        BY <1>0, <2>3 DEF TypeOK
      <3>2. file'[Recovery] = file[Recovery] /\ file[Recovery] <= file[Size] /\ file[Recovery] \in 0 .. NAreas
            /\ file[Size] \in 0 .. NAreas
        BY <1>0, <2>1, <2>3, KindFacts, CellFacts, FileFacts
      <3>3. file[Recovery] # 0 => file'[Head(file[Recovery])] = file[Head(file[Recovery])]
        BY <2>3, <3>2, KindFacts, CellFacts, NtdbAssumption DEF Area
      <3>4. ~NeedsRecovery(file)'
        BY <2>1, <2>3, <3>2, <3>3, NtdbAssumption DEF NeedsRecovery
      <3>5. AreaInv'
        BY <2>3, <3>2, <3>4, NtdbAssumption DEF AreaInv
      <3>6. FreeOK(p)'
        BY <2>1, <2>3, <3>1, <3>2, NtdbAssumption DEF FreeOK, Area
      <3>7. MarkOK(p)'
        BY <2>3, <3>1, <3>4 DEF MarkOK
      <3> QED BY <3>1, <3>5, <3>6, <3>7 DEF OwnOK, RestoreOK
    <2> QED BY <1>0, <1>19, <2>2, <2>3, ExpandFacts
  <1>20. ASSUME Point(p) PROVE AreaInv' /\ OwnOK(p)'
    <2>1. /\ pc[p] = "point" /\ UNCHANGED area /\ wr = p /\ wr' = p /\ ~txn.prepared /\ area # 0
          /\ ~NeedsRecovery(file)
      BY <1>0, <1>20 DEF Point, locks, LockInv, Committing, CommitOK, MarkOK
    <2>2. CASE IoError /\ PrepareFails(p, txn.magic) /\ UNCHANGED txn
      BY <2>1, <2>2, FailTxn DEF IoError
    <2>3. CASE Put1(Recovery, area) /\ txn' = WriteExisting(area) /\ Goto(p, "record")
      <3>1. pc'[p] = "record" /\ txn'.blocks = txn.blocks
        BY <1>0, <2>3 DEF TypeOK, Goto, WriteExisting, TxnShape
      <3>2. area \in Area
        BY <1>0, <2>1 DEF TypeOK, Area
      <3>3. /\ file'[Recovery] = area /\ file'[Size] = file[Size]
            /\ file'[Head(area)] = file[Head(area)]
        BY <2>3, <3>2, Put1Facts, KindFacts, CellFacts
      <3>4. ~NeedsRecovery(file)'
        BY <2>1, <3>3 DEF NeedsRecovery, MarkOK
      <3>5. AreaInv'
        BY <2>1, <3>3, <3>4 DEF AreaInv, FreeOK
      <3>6. Elsewhere(DOMAIN txn.blocks, area)'
        BY <1>0, <2>1, <3>1, <3>2, <3>3, FileFacts, NtdbAssumption DEF FreeOK, Area,
           Elsewhere
      <3>60. FreeOK(p)'
        BY <3>1, <3>6 DEF FreeOK
      <3>7. MarkOK(p)'
        BY <3>1, <3>4 DEF MarkOK
      <3> QED BY <3>1, <3>5, <3>60, <3>7 DEF OwnOK, RestoreOK
    <2> QED BY <1>20, <2>2, <2>3 DEF Point
  <1>21. ASSUME Record(p) PROVE AreaInv' /\ OwnOK(p)'
    <2>1. /\ pc[p] = "record" /\ UNCHANGED <<area, txn>> /\ wr = p /\ wr' = p /\ ~txn.prepared
          /\ area # 0 /\ area = file[Recovery] /\ ~NeedsRecovery(file) /\ Elsewhere(DOMAIN txn.blocks, area)
      BY <1>0, <1>21 DEF Record, locks, LockInv, Committing, CommitOK, MarkOK, FreeOK
    <2>2. area \in Area /\ DOMAIN txn.blocks \subseteq DataCell \cup HeadCell
      BY <1>0, <2>1 DEF TypeOK, Area, TxnTyped
    <2>3. CASE UNCHANGED store /\ IoError /\ PrepareFails(p, txn.magic)
      BY <2>1, <2>3, FailTxn
    <2>4. CASE /\ pc' = [pc EXCEPT ![p] = "sync1"]
               /\ file'[Head(area)].magic = "invalid"
               /\ file'[Body(area)] = [d \in Changed(txn.blocks) |-> file[d]]
               /\ \A c \in Cell \ {Head(area), Body(area)} : file'[c] = file[c]
      <3>1. pc'[p] = "sync1"
        BY <1>0, <2>4 DEF TypeOK
      <3>2. file'[Recovery] = file[Recovery] /\ file'[Size] = file[Size]
        BY <2>4, KindFacts, CellFacts
      <3>30. Head(area) \notin DOMAIN txn.blocks
        BY <2>1, <2>2 DEF Elsewhere
      <3>3. \A c \in DOMAIN txn.blocks : file'[c] = file[c]
        BY <2>2, <2>4, <3>30, KindFacts
      <3>4. ~NeedsRecovery(file)'
        BY <2>1, <2>4, <3>2 DEF NeedsRecovery
      <3>5. AreaInv'
        BY <3>2, <3>4 DEF AreaInv
      <3>6. Clean(file[Body(area)])' /\ Covered(file[Body(area)])'
        BY <2>1, <2>4, <3>3 DEF Clean, Covered, Changed
      <3>7. MarkOK(p)'
        BY <3>1, <3>4, <3>6 DEF MarkOK
      <3>8. FreeOK(p)'
        BY <2>1, <3>1, <3>2 DEF FreeOK, Elsewhere
      <3> QED BY <3>1, <3>5, <3>7, <3>8 DEF OwnOK, RestoreOK
    <2> QED BY <1>0, <1>21, <2>2, <2>3, <2>4, RecordFacts
  <1>22. ASSUME Sync1(p) PROVE AreaInv' /\ OwnOK(p)'
    <2>1. /\ pc[p] = "sync1" /\ UNCHANGED <<file, area, txn>> /\ wr = p /\ wr' = p /\ ~txn.prepared
          /\ ~NeedsRecovery(file)
      BY <1>0, <1>22 DEF Sync1, locks, LockInv, Committing, CommitOK, MarkOK, Sync,
         IoError, store
    <2>2. CASE Goto(p, "mark")
      <3>1. pc'[p] = "mark"
        BY <1>0, <2>2 DEF TypeOK, Goto
      <3>2. MarkOK(p)'
        BY <2>1, <3>1 DEF MarkOK, Clean, Covered, NeedsRecovery
      <3>3. FreeOK(p)'
        BY <2>1, <3>1 DEF FreeOK, Elsewhere
      <3> QED BY <2>1, <3>1, <3>2, <3>3, AreaSame DEF OwnOK, RestoreOK
    <2>3. CASE IoError /\ PrepareFails(p, txn.magic)
      BY <2>1, <2>3, FailTxn DEF IoError
    <2> QED BY <1>22, <2>2, <2>3 DEF Sync1
  <1>23. ASSUME Mark(p) PROVE AreaInv' /\ OwnOK(p)'
    <2>1. /\ pc[p] = "mark" /\ UNCHANGED area /\ wr = p /\ wr' = p /\ ~txn.prepared
          /\ area # 0 /\ area = file[Recovery] /\ ~NeedsRecovery(file)
          /\ Elsewhere(DOMAIN txn.blocks, area)
          /\ Clean(file[Body(area)]) /\ Covered(file[Body(area)])
      BY <1>0, <1>23 DEF Mark, locks, LockInv, Committing, CommitOK, MarkOK, FreeOK
    <2>2. /\ txn'.prepared = txn.prepared /\ txn'.blocks = txn.blocks /\ txn'.magic = area
      BY <1>0, <1>23 DEF Mark, TxnShape
    <2>3. CASE Put1(Head(area), [file[Head(area)] EXCEPT !.magic = "valid"]) /\ Goto(p, "sync2")
      <3>1. pc'[p] = "sync2"
        BY <1>0, <2>3 DEF TypeOK, Goto
      <3>2. /\ area \in Area /\ DOMAIN txn.blocks \subseteq DataCell \cup HeadCell
            /\ Head(area) \notin DOMAIN txn.blocks
        BY <1>0, <2>1 DEF TypeOK, Area, TxnTyped, Elsewhere
      <3>3. /\ file'[Recovery] = file[Recovery] /\ file'[Size] = file[Size]
            /\ file'[Body(area)] = file[Body(area)]
            /\ \A c \in DOMAIN txn.blocks : file'[c] = file[c]
            /\ file'[Head(area)] = [file[Head(area)] EXCEPT !.magic = "valid"]
        BY <2>1, <2>3, <3>2, Put1Facts, KindFacts, CellFacts
      <3>4. file'[Head(area)].magic = "valid"
        BY <1>0, <3>2, <3>3, FileFacts DEF HeadRecord
      <3>5. Clean(file[Body(area)])' /\ Covered(file[Body(area)])'
        BY <2>1, <2>2, <3>3 DEF Clean, Covered
      <3>6. AreaInv'
        BY <2>1, <3>3 DEF AreaInv, Covered, Elsewhere
      <3>7. MarkOK(p)'
        BY <2>1, <2>2, <3>1, <3>4, <3>5 DEF MarkOK
      <3>8. FreeOK(p)'
        BY <2>1, <2>2, <3>1, <3>3 DEF FreeOK, Elsewhere
      <3> QED BY <3>1, <3>6, <3>7, <3>8 DEF OwnOK, RestoreOK
    <2>4. CASE IoError /\ PrepareFails(p, area)
      <3>1. UNCHANGED file /\ pc'[p] \in {"txn", "unmark"}
        BY <1>0, <2>1, <2>4 DEF IoError, store, PrepareFails, CancelPc, Goto, TypeOK
      <3> QED BY <2>1, <2>2, <3>1, AreaSame DEF OwnOK, FreeOK, MarkOK, RestoreOK,
                 NeedsRecovery
    <2> QED BY <1>23, <2>3, <2>4 DEF Mark
  <1>24. ASSUME Sync2(p) PROVE AreaInv' /\ OwnOK(p)'
    <2>1. /\ pc[p] = "sync2" /\ UNCHANGED <<file, area>> /\ wr = p /\ wr' = p /\ ~txn.prepared
          /\ area # 0 /\ area = file[Recovery] /\ txn.magic = area
          /\ Elsewhere(DOMAIN txn.blocks, area) /\ file[Head(area)].magic = "valid"
          /\ Clean(file[Body(area)]) /\ Covered(file[Body(area)])
      BY <1>0, <1>24 DEF Sync2, Sync, IoError, store, locks, LockInv, Committing,
         CommitOK, MarkOK, FreeOK
    <2>2. txn'.blocks = txn.blocks /\ txn'.magic = txn.magic
      BY <1>0, <1>24 DEF Sync2, TxnShape
    <2>3. Clean(file[Body(area)])' /\ Covered(file[Body(area)])'
      BY <2>1, <2>2 DEF Clean, Covered
    <2>4. \/ pc'[p] \in {"write", "txn"} /\ txn'.prepared
          \/ pc'[p] \in {"unmark", "txn"} /\ ~txn'.prepared
      BY <1>0, <1>24, <2>1 DEF Sync2, PrepareFails, CancelPc, Goto, TypeOK, TxnShape
    <2>5. MarkOK(p)'
      BY <2>1, <2>2, <2>3, <2>4 DEF MarkOK
    <2>6. FreeOK(p)'
      BY <2>1, <2>2, <2>4 DEF FreeOK, Elsewhere
    <2> QED BY <2>1, <2>4, <2>5, <2>6, AreaSame DEF OwnOK, RestoreOK
  <1>25. ASSUME CommitWrite(p) PROVE AreaInv' /\ OwnOK(p)'
    <2>1. CASE pc'[p] = "check"
      <3>1. UNCHANGED file
        BY <1>0, <1>25, <2>1 DEF CommitWrite, IoError, store
      <3> QED BY <2>1, <3>1, Quiet DEF Idle
    <2>2. CASE pc'[p] # "check"
      <3>1. /\ pc'[p] = "write" /\ pc[p] = "write" /\ UNCHANGED <<txn, area>> /\ txn.prepared
            /\ area # 0 /\ area = file[Recovery] /\ Elsewhere(DOMAIN txn.blocks, area)
            /\ file[Head(area)].magic = "valid" /\ Covered(file[Body(area)])
        BY <1>0, <1>25, <2>2 DEF CommitWrite, GoFor, Goto, CommitOK, MarkOK, FreeOK,
           TypeOK
      <3>2. /\ area \in Area /\ DOMAIN txn.blocks \subseteq DataCell \cup HeadCell
            /\ Head(area) \notin DOMAIN txn.blocks
        BY <1>0, <3>1 DEF TypeOK, Area, TxnTyped, Elsewhere
      <3>3. PICK c \in DOMAIN txn.blocks : \A d \in Cell : file'[d] = IF d = c THEN txn.blocks[c] ELSE file[d]
        BY <1>0, <1>25, <2>2, CommitWriteFacts
      <3>4. /\ file'[Recovery] = file[Recovery] /\ file'[Size] = file[Size]
            /\ file'[Body(area)] = file[Body(area)] /\ file'[Head(area)] = file[Head(area)]
        BY <3>1, <3>2, <3>3, KindFacts, CellFacts
      <3>5. Covered(file[Body(area)])'
        BY <3>1, <3>2, <3>3, <3>4, KindFacts DEF Covered
      <3>6. AreaInv'
        BY <3>1, <3>4 DEF AreaInv, Covered, Elsewhere
      <3>7. MarkOK(p)'
        BY <3>1, <3>4, <3>5 DEF MarkOK
      <3>8. FreeOK(p)'
        BY <3>1, <3>4 DEF FreeOK, Elsewhere
      <3> QED BY <3>1, <3>6, <3>7, <3>8 DEF OwnOK, RestoreOK
    <2> QED BY <2>1, <2>2
  <1>26. ASSUME CommitSync(p) PROVE AreaInv' /\ OwnOK(p)'
    <2>1. /\ pc[p] = "write" /\ todo = {} /\ UNCHANGED <<file, area>> /\ wr = p /\ wr' = p
          /\ area # 0 /\ area = file[Recovery] /\ txn.magic = area /\ txn.prepared
          /\ Covered(file[Body(area)]) /\ Done
      BY <1>0, <1>26 DEF CommitSync, Sync, IoError, store, locks, LockInv, Committing,
         CommitOK, MarkOK, Done
    <2>2. /\ txn'.blocks = txn.blocks /\ txn'.magic = txn.magic /\ txn'.prepared = txn.prepared
          /\ txn'.null
      BY <1>0, <1>26 DEF CommitSync, TxnShape
    <2>3. Covered(file[Body(area)])' /\ Done'
      BY <2>1, <2>2 DEF Covered, Done
    <2>4. pc'[p] \in {"txn", "unmark"}
      BY <1>0, <1>26, <2>1 DEF CommitSync, GoFor, CancelPc, Goto, TypeOK
    <2>5. MarkOK(p)'
      BY <2>1, <2>2, <2>3, <2>4 DEF MarkOK
    <2> QED BY <2>1, <2>2, <2>4, <2>5, AreaSame DEF OwnOK, FreeOK, RestoreOK
  <1>27. ASSUME Unmark(p) PROVE AreaInv' /\ OwnOK(p)'
    <2>1. pc[p] = "unmark" /\ txn.magic \in Area
      BY <1>0, <1>27 DEF Unmark, TypeOK, TxnTyped, Area, StartInv, Unmarking
    <2>2. CASE UnmarkFails(p)
      <3>1. UNCHANGED file /\ pc'[p] \in Idle
        BY <1>0, <2>2 DEF UnmarkFails, IoError, store, Idle, GoFor, Goto, TypeOK
      <3> QED BY <3>1, Quiet
    <2>3. CASE Put1(Head(txn.magic), [file[Head(txn.magic)] EXCEPT !.magic = "invalid"]) /\ Goto(p, "unmarksync")
      <3>1. pc'[p] = "unmarksync"
        BY <1>0, <2>3 DEF TypeOK, Goto
      <3>2. /\ file'[Recovery] = file[Recovery] /\ file'[Size] = file[Size]
            /\ file'[Head(txn.magic)] = [file[Head(txn.magic)] EXCEPT !.magic = "invalid"]
        BY <2>1, <2>3, Put1Facts, KindFacts, CellFacts
      <3>3. file'[Head(txn.magic)].magic = "invalid"
        BY <1>0, <2>1, <3>2, FileFacts DEF HeadRecord
      <3>4. ~NeedsRecovery(file)'
        <4>1. CASE file[Recovery] = txn.magic
          BY <3>2, <3>3, <4>1 DEF NeedsRecovery
        <4>2. CASE file[Recovery] # txn.magic
          <5>1. ~NeedsRecovery(file)
            BY <2>1, <4>2 DEF MarkOK
          <5>2. file[Recovery] \in Area => file'[Head(file[Recovery])] = file[Head(file[Recovery])]
            BY <2>3, <4>2, Put1Facts, KindFacts, CellFacts
          <5>3. file[Size] \in 0 .. NAreas
            BY <1>0, FileFacts
          <5> QED BY <3>2, <5>1, <5>2, <5>3, NtdbAssumption DEF NeedsRecovery, Area
        <4> QED BY <4>1, <4>2
      <3>5. AreaInv'
        BY <3>2, <3>4 DEF AreaInv
      <3> QED BY <3>1, <3>4, <3>5 DEF OwnOK, FreeOK, MarkOK, RestoreOK
    <2> QED BY <1>27, <2>2, <2>3 DEF Unmark
  <1>28. ASSUME UnmarkSync(p) PROVE AreaInv' /\ OwnOK(p)'
    <2>1. UNCHANGED file /\ pc'[p] \in Idle
      BY <1>28 DEF UnmarkSync, UnmarkFails, Goto, GoFor, IoError, Sync, store, Idle
    <2> QED BY <2>1, Quiet
  <1>29. ASSUME Release(p) PROVE AreaInv' /\ OwnOK(p)'
    <2>1. UNCHANGED file /\ pc'[p] \in Idle
      BY <1>29 DEF Release, Unlock, Goto, GoFor, store, Idle
    <2> QED BY <2>1, Quiet
  <1>30. ASSUME LockAll(p) PROVE AreaInv' /\ OwnOK(p)'
    <2>1. UNCHANGED file /\ pc'[p] \in Idle
      BY <1>30 DEF LockAll, Goto, store, Idle
    <2> QED BY <2>1, Quiet
  <1>31. ASSUME RecoverLockOpen(p) PROVE AreaInv' /\ OwnOK(p)'
    <2>1. UNCHANGED file /\ pc'[p] \in Idle
      BY <1>31 DEF RecoverLockOpen, Goto, store, Idle
    <2> QED BY <2>1, Quiet
  <1>32. ASSUME Check(p) PROVE AreaInv' /\ OwnOK(p)'
    <2>1. /\ pc[p] = "check" /\ UNCHANGED file
      BY <1>32 DEF Check, store
    <2>2. \/ pc'[p] = "recovered" /\ ~NeedsRecovery(file)
          \/ /\ pc'[p] = "restore" /\ NeedsRecovery(file) /\ area' = file[Recovery]
             /\ todo' = DOMAIN file[Body(area')]
      BY <1>0, <1>32 DEF Check, Goto, TypeOK
    <2> QED BY <2>1, <2>2, AreaSame DEF OwnOK, FreeOK, MarkOK, RestoreOK
  <1>33. ASSUME Restore(p) PROVE AreaInv' /\ OwnOK(p)'
    <2>1. /\ pc[p] = "restore" /\ todo # {} /\ UNCHANGED area /\ NeedsRecovery(file)
          /\ area = file[Recovery] /\ area # 0 /\ todo \subseteq DOMAIN file[Body(area)]
      BY <1>0, <1>33 DEF Restore, RestoreOK, TodoOK
    <2>2. CASE RecoverFails(p)
      <3>1. UNCHANGED file /\ pc'[p] \in Idle
        BY <1>0, <2>2 DEF RecoverFails, IoError, store, Idle, Goto, TypeOK
      <3> QED BY <3>1, Quiet
    <2>3. CASE ~RecoverFails(p)
      <3> DEFINE c == First(todo)
      <3>1. area \in Area /\ c \in todo /\ todo \subseteq DataCell \cup HeadCell
        BY <1>0, <2>1, FirstFact DEF TypeOK, Area
      <3>2. Put1(c, file[Body(area)][c]) /\ todo' = todo \ {c} /\ UNCHANGED pc
        BY <1>33, <2>3 DEF Restore
      <3> HIDE DEF c
      <3>3. c # Head(area) /\ c \in DOMAIN file[Body(area)]
        BY <2>1, <3>1 DEF AreaInv, Elsewhere
      <3>4. /\ file'[Recovery] = file[Recovery] /\ file'[Size] = file[Size]
            /\ file'[Body(area)] = file[Body(area)] /\ file'[Head(area)] = file[Head(area)]
        BY <3>1, <3>2, <3>3, Put1Facts, KindFacts, CellFacts
      <3>5. \A d \in DOMAIN file[Body(area)] : file'[d] = IF d = c THEN file[Body(area)][c] ELSE file[d]
        BY <1>0, <3>1, <3>2, Put1Facts, BodyFacts, KindFacts
      <3>6. NeedsRecovery(file)'
        BY <2>1, <3>4 DEF NeedsRecovery
      <3>7. AreaInv'
        BY <2>1, <3>4 DEF AreaInv, Elsewhere
      <3>8. RestoreOK(p)'
        BY <2>1, <3>2, <3>4, <3>5, <3>6 DEF RestoreOK
      <3> QED BY <2>1, <3>2, <3>7, <3>8 DEF OwnOK, FreeOK, MarkOK
    <2> QED BY <2>2, <2>3
  <1>34. ASSUME RestoreSync(p) PROVE AreaInv' /\ OwnOK(p)'
    <2>1. /\ pc[p] = "restore" /\ todo = {} /\ UNCHANGED area /\ NeedsRecovery(file)
          /\ area = file[Recovery] /\ Clean(file[Body(area)])
      BY <1>34 DEF RestoreSync, RestoreOK, Clean
    <2>2. CASE RecoverFails(p)
      <3>1. UNCHANGED file /\ pc'[p] \in Idle
        BY <1>0, <2>2 DEF RecoverFails, IoError, store, Idle, Goto, TypeOK
      <3> QED BY <3>1, Quiet
    <2>3. CASE Sync /\ Goto(p, "unpoint")
      <3>1. UNCHANGED file /\ pc'[p] = "unpoint"
        BY <1>0, <2>3 DEF Sync, Goto, TypeOK
      <3>2. Clean(file[Body(area)])'
        BY <2>1, <3>1 DEF Clean
      <3> QED BY <2>1, <3>1, <3>2, AreaSame DEF OwnOK, FreeOK, MarkOK, RestoreOK
    <2> QED BY <1>34, <2>2, <2>3 DEF RestoreSync
  <1>35. ASSUME Unpoint(p) PROVE AreaInv' /\ OwnOK(p)'
    <2>1. /\ pc[p] = "unpoint" /\ UNCHANGED area /\ NeedsRecovery(file)
          /\ area = file[Recovery] /\ Clean(file[Body(area)])
      BY <1>35 DEF Unpoint, RestoreOK
    <2>2. CASE RecoverFails(p)
      <3>1. UNCHANGED file /\ pc'[p] \in Idle
        BY <1>0, <2>2 DEF RecoverFails, IoError, store, Idle, Goto, TypeOK
      <3> QED BY <3>1, Quiet
    <2>3. CASE ~RecoverFails(p)
      <3>1. pc'[p] = "invalidate" /\ (Put1(Recovery, 0) \/ UNCHANGED file)
        BY <1>0, <1>35, <2>3 DEF Unpoint, Goto, TypeOK, store
      <3>2. area \in Area
        BY <1>0, <2>1, FileFacts, NtdbAssumption DEF NeedsRecovery, Area
      <3>3. /\ file'[Recovery] \in {0, area} /\ file'[Size] = file[Size]
            /\ file'[Body(area)] = file[Body(area)]
            /\ \A d \in DOMAIN file[Body(area)] : file'[d] = file[d]
        BY <1>0, <2>1, <3>1, <3>2, Put1Facts, BodyFacts, KindFacts, CellFacts
      <3>4. Clean(file[Body(area)])'
        BY <2>1, <3>3 DEF Clean
      <3>5. AreaInv'
        BY <1>0, <2>1, <3>3, FileFacts, NtdbAssumption DEF AreaInv, NeedsRecovery,
           Elsewhere
      <3>6. RestoreOK(p)'
        BY <2>1, <3>1, <3>2, <3>3, <3>4 DEF RestoreOK, Area
      <3> QED BY <3>1, <3>5, <3>6 DEF OwnOK, FreeOK, MarkOK
    <2> QED BY <2>2, <2>3
  <1>36. ASSUME Invalidate(p) PROVE AreaInv' /\ OwnOK(p)'
    <2>1. /\ pc[p] = "invalidate" /\ UNCHANGED area /\ area # 0 /\ file[Recovery] \in {0, area}
      BY <1>36 DEF Invalidate, RestoreOK
    <2>2. CASE RecoverFails(p)
      <3>1. UNCHANGED file /\ pc'[p] \in Idle
        BY <1>0, <2>2 DEF RecoverFails, IoError, store, Idle, Goto, TypeOK
      <3> QED BY <3>1, Quiet
    <2>3. CASE Put1(Head(area), [file[Head(area)] EXCEPT !.magic = "invalid"]) /\ Goto(p, "invalidatesync")
      <3>1. pc'[p] = "invalidatesync" /\ area \in Area
        BY <1>0, <2>1, <2>3 DEF TypeOK, Goto, Area
      <3>2. /\ file'[Recovery] = file[Recovery] /\ file'[Size] = file[Size]
            /\ file'[Head(area)] = [file[Head(area)] EXCEPT !.magic = "invalid"]
        BY <2>3, <3>1, Put1Facts, KindFacts, CellFacts
      <3>3. file'[Head(area)].magic = "invalid"
        BY <1>0, <3>1, <3>2, FileFacts DEF HeadRecord
      <3>4. ~NeedsRecovery(file)'
        <4>1. CASE file[Recovery] = area
          BY <3>2, <3>3, <4>1 DEF NeedsRecovery
        <4>2. CASE file[Recovery] = 0
          <5>1. file[Size] \in Nat
            BY FileFacts, NtdbAssumption
          <5>2. 0 \notin 1 .. file[Size]
            BY <5>1
          <5> QED BY <3>2, <4>2, <5>2 DEF NeedsRecovery
        <4> QED BY <2>1, <4>1, <4>2
      <3>5. AreaInv'
        BY <3>2, <3>4 DEF AreaInv
      <3> QED BY <3>1, <3>4, <3>5 DEF OwnOK, FreeOK, MarkOK, RestoreOK
    <2> QED BY <1>36, <2>2, <2>3 DEF Invalidate
  <1>37. ASSUME InvalidateSync(p) PROVE AreaInv' /\ OwnOK(p)'
    <2>1. pc[p] = "invalidatesync" /\ ~NeedsRecovery(file)
      BY <1>37 DEF InvalidateSync, RestoreOK
    <2>2. CASE RecoverFails(p)
      <3>1. UNCHANGED file /\ pc'[p] \in Idle
        BY <1>0, <2>2 DEF RecoverFails, IoError, store, Idle, Goto, TypeOK
      <3> QED BY <3>1, Quiet
    <2>3. CASE Sync /\ Goto(p, "recovered")
      <3>1. UNCHANGED file /\ pc'[p] = "recovered"
        BY <1>0, <2>3 DEF Sync, Goto, TypeOK
      <3> QED BY <2>1, <3>1, AreaSame DEF OwnOK, FreeOK, MarkOK, RestoreOK
    <2> QED BY <1>37, <2>2, <2>3 DEF InvalidateSync
  <1>38. ASSUME Recovered(p) PROVE AreaInv' /\ OwnOK(p)'
    <2>1. CASE goal[p] = "abort"
      <3>1. UNCHANGED <<file, txn>> /\ pc'[p] \in {"unmark", "release"} /\ ~NeedsRecovery(file)
        BY <1>0, <1>38, <2>1 DEF Recovered, FaultInv, RestoreOK, GoFor, Goto,
           CancelPc, TypeOK, store
      <3> QED BY <3>1, AreaSame DEF OwnOK, FreeOK, MarkOK, RestoreOK
    <2>2. CASE goal[p] # "abort"
      <3>1. goal[p] \in {"open", "read", "start", "startall"}
        BY <1>0, <1>38, <2>2 DEF LockInv, Recovering, Recovered
      <3>2. UNCHANGED file /\ pc'[p] \in Idle
        BY <1>0, <1>38, <2>2, <3>1 DEF Recovered, GoFor, Goto, AfterRecovery, Idle,
           TypeOK, store
      <3> QED BY <3>2, Quiet
    <2> QED BY <2>1, <2>2
  <1>39. ASSUME Die(p) PROVE AreaInv' /\ OwnOK(p)'
    <2>1. UNCHANGED file /\ pc'[p] \in Idle
      BY <1>39 DEF Die, Gone, Unlock, Goto, GoFor, store, Idle
    <2> QED BY <2>1, Quiet
  <1> QED
    BY <1>1, <1>2, <1>3, <1>4, <1>5, <1>6, <1>7, <1>8, <1>9, <1>10, <1>11, <1>12,
       <1>13, <1>14, <1>15, <1>16, <1>17, <1>18, <1>19, <1>20, <1>21, <1>22, <1>23,
       <1>24, <1>25, <1>26, <1>27, <1>28, <1>29, <1>30, <1>31, <1>32, <1>33, <1>34,
       <1>35, <1>36, <1>37, <1>38, <1>39 DEF Calls, Steps

\* The invariant of a process that does not take the step.
LEMMA SoundOther ==
  ASSUME NEW p \in Proc, Safe, Sound, Calls(p) \/ Steps(p) \/ Die(p), NEW q \in Proc, q # p
  PROVE  OwnOK(q)'
  <1>0. /\ LockInv /\ StartInv /\ OwnOK(q)
        /\ pc'[q] = pc[q] /\ goal'[q] = goal[q] /\ (wr' = q) = (wr = q)
        /\ wr # p => UNCHANGED <<store, area, todo>>
        /\ tlock # p => UNCHANGED txn
    BY Owners DEF Safe, Sound, FreeInv, MarkInv, RestoreInv, OwnOK
  <1>1. CASE pc[q] \in InTxn \ {"release"}
    <2>1. tlock = q
      BY <1>0, <1>1 DEF LockInv
    <2>2. wr # p
      BY <1>0, <1>1, NtdbAssumption DEF LockInv, InTxn
    <2>3. UNCHANGED <<file, area, todo, txn>>
      BY <1>0, <2>1, <2>2 DEF store
    <2>4. FreeOK(q)'
      BY <1>0, <2>3 DEF OwnOK, FreeOK, Elsewhere
    <2>5. MarkOK(q)'
      BY <1>0, <2>3 DEF OwnOK, MarkOK, NeedsRecovery, Clean, Covered, Done
    <2>6. RestoreOK(q)'
      BY <1>0, <1>1 DEF RestoreOK, InTxn, Committing, Unmarking
    <2> QED BY <2>4, <2>5, <2>6 DEF OwnOK
  <1>2. CASE pc[q] \in Recovering
    <2>1. UNCHANGED <<file, area, todo>>
      BY <1>0, <1>2 DEF LockInv, store
    <2>2. RestoreOK(q)'
      BY <1>0, <2>1 DEF OwnOK, RestoreOK, NeedsRecovery, Clean
    <2> QED BY <1>0, <1>2, <2>2 DEF OwnOK, FreeOK, MarkOK, Recovering
  <1>3. CASE pc[q] \notin (InTxn \ {"release"}) \cup Recovering
    BY <1>0, <1>3
       DEF OwnOK, FreeOK, MarkOK, RestoreOK, InTxn, Committing, Unmarking, Recovering
  <1> QED BY <1>1, <1>2, <1>3
-----------------------------------------------------------------------------
(* The invariant *)

LEMMA FaultStep ==
  ASSUME NEW p \in Proc, Safe, Sound, Calls(p) \/ Steps(p) \/ Die(p)
  PROVE  FaultInv'
  <1>1. FaultInv /\ FaultOwn(p) /\ TypeOK
    BY FaultOwnStep DEF Sound, Safe, Typing
  <1>2. /\ budget.io \in Nat /\ budget.death \in Nat /\ budget'.io \in Nat /\ budget'.death \in Nat
        /\ budget'.crash = budget.crash
    BY <1>1 DEF FaultOwn, TypeOK, Budget
  <1>3. /\ budget'.io <= 1
        /\ budget'.crash = 0 \/ (budget'.death = 0 /\ budget'.io = 0)
    BY <1>1, <1>2 DEF FaultInv, FaultOwn
  <1>4. ASSUME NEW q \in Proc, goal'[q] = "abort"
        PROVE  budget'.io = 0 /\ pc'[q] # "failed"
    <2>1. CASE q = p
      BY <1>1, <1>2, <1>4, <2>1 DEF FaultInv, FaultOwn
    <2>2. CASE q # p
      BY <1>1, <1>2, <1>4, <2>2, Owners DEF FaultInv, FaultOwn
    <2> QED BY <2>1, <2>2
  <1> QED BY <1>3, <1>4 DEF FaultInv

LEMMA SoundStep ==
  ASSUME NEW p \in Proc, Safe, Sound, Calls(p) \/ Steps(p) \/ Die(p)
  PROVE  Sound'
  <1>1. AreaInv' /\ FaultInv'
    BY SoundOwn, FaultStep
  <1>2. \A q \in Proc : OwnOK(q)'
    BY SoundOwn, SoundOther
  <1> QED BY <1>1, <1>2 DEF Sound, FreeInv, MarkInv, RestoreInv, OwnOK

LEMMA EmptyFile ==
  ASSUME Init
  PROVE  file[Recovery] = 0 /\ ~NeedsRecovery(file) /\ AreaInv
  <1>1. file[Recovery] = 0 /\ file[Size] = 0
    <2>1. Recovery \in Cell /\ Recovery[1] = "recovery" /\ Size \in Cell /\ Size[1] = "size"
      BY KindFacts DEF Recovery, Size
    <2> QED BY <2>1 DEF Init
  <1>2. 0 \notin 1 .. 0
    OBVIOUS
  <1>3. ~NeedsRecovery(file)
    BY <1>1, <1>2 DEF NeedsRecovery
  <1> QED BY <1>1, <1>3 DEF AreaInv, Readable

\* The budgets of the theorems below: any number of deaths and at most one
\* I/O error, or any number of machine crashes.
OneSort ==
  \A b \in Budgets : \/ b.crash = 0 /\ b.io <= 1
                     \/ b.death = 0 /\ b.io = 0

LEMMA SoundInit ==
  ASSUME Init, OneSort
  PROVE  Sound /\ DiskInv
  <1>1. FaultInv
    BY NtdbAssumption DEF Init, OneSort, FaultInv, Budget
  <1>2. FreeInv /\ MarkInv /\ RestoreInv
    BY DEF Init, FreeInv, FreeOK, MarkInv, MarkOK, RestoreInv, RestoreOK
  <1>3. DiskInv
    <2>1. \A a \in Area : Head(a) \in Cell /\ Head(a)[1] = "head"
      BY KindFacts DEF Head
    <2>2. \A a \in Area : disk[Head(a)] = {Fill}
      BY <2>1 DEF Init
    <2>3. EndOK
      BY <2>2 DEF EndOK, Fill
    <2> QED BY <2>3 DEF Init, DiskInv, DiskOK, Synced
  <1> QED BY <1>1, <1>2, <1>3, EmptyFile DEF Sound

LEMMA SoundStutter ==
  ASSUME Sound, DiskInv, UNCHANGED vars
  PROVE  Sound' /\ DiskInv'
  <1>1. AreaInv' /\ FaultInv'
    BY DEF Sound, AreaInv, Active, Readable, NeedsRecovery, Elsewhere,
           FaultInv, vars
  <1>2. FreeInv' /\ RestoreInv'
    BY DEF Sound, FreeInv, FreeOK, Elsewhere, RestoreInv, RestoreOK,
           NeedsRecovery, Clean, vars
  <1>3. MarkInv'
    BY DEF Sound, MarkInv, MarkOK, NeedsRecovery, Clean, Covered, Done, vars
  <1>4. DiskInv'
    BY DEF DiskInv, DiskOK, EndOK, Synced, NoMark, Clean, Elsewhere, vars
  <1> QED BY <1>1, <1>2, <1>3, <1>4 DEF Sound
-----------------------------------------------------------------------------
(* What a crash can leave *)

LEMMA PutDisk ==
  ASSUME NEW f, Put(f)
  PROVE  \A d \in Cell :
           disk'[d] = IF d \in DOMAIN f THEN disk[d] \cup Leaves(d, f[d]) ELSE disk[d]
  BY DEF Put

LEMMA Put1Disk ==
  ASSUME NEW c, c \notin BodyCell, NEW v, Put1(c, v)
  PROVE  \A d \in Cell : /\ file'[d] = IF d = c THEN v ELSE file[d]
                         /\ disk'[d] = IF d = c THEN disk[d] \cup {v} ELSE disk[d]
  BY DEF Put1, Put, Leaves

LEMMA ExpandDisk ==
  ASSUME Typing, NEW p \in Proc, Expand(p), ~IoError
  PROVE  \/ /\ file[Size] \in Nat /\ area' = file[Size] + 1 /\ area' \in Area
            /\ pc'[p] = "point"
            /\ disk'[Size] = disk[Size] \cup {area'}
            /\ \A h \in disk'[Head(area')] \ disk[Head(area')] : h.magic # "valid"
            /\ \A c \in Cell \ {Size, Head(area'), Body(area')} :
                 file'[c] = file[c] /\ disk'[c] = disk[c]
         \/ UNCHANGED store /\ pc'[p] \notin Dirty
  <1> DEFINE n == file[Size] + 1
             need == Cardinality(Changed(txn.blocks))
             new(cap) == [c \in {Size, Head(n), Body(n)} |->
                           IF c = Size THEN n
                           ELSE IF c = Head(n) THEN [Fill EXCEPT !.cap = cap] ELSE Torn]
  <1>1. ASSUME NEW cap, Put(new(cap)), n \in Area, area' = n
        PROVE  /\ disk'[Size] = disk[Size] \cup {area'}
               /\ \A h \in disk'[Head(area')] \ disk[Head(area')] : h.magic # "valid"
               /\ \A c \in Cell \ {Size, Head(area'), Body(area')} :
                    file'[c] = file[c] /\ disk'[c] = disk[c]
    <2>1. \A d \in Cell :
            /\ file'[d] = IF d \in DOMAIN new(cap) THEN new(cap)[d] ELSE file[d]
            /\ disk'[d] = IF d \in DOMAIN new(cap) THEN disk[d] \cup Leaves(d, new(cap)[d])
                          ELSE disk[d]
      BY <1>1, PutFacts, PutDisk
    <2>2. [Fill EXCEPT !.cap = cap].magic = "fill"
      BY DEF Fill
    <2>3. new(cap)[Size] = n /\ new(cap)[Head(n)] = [Fill EXCEPT !.cap = cap]
      BY CellFacts
    <2>4. DOMAIN new(cap) = {Size, Head(n), Body(n)}
      OBVIOUS
    <2> HIDE DEF new
    <2>5. disk'[Size] = disk[Size] \cup {n}
      BY <2>1, <2>3, <2>4, KindFacts DEF Leaves
    <2>6. disk'[Head(n)] = disk[Head(n)] \cup {[Fill EXCEPT !.cap = cap]}
      BY <1>1, <2>1, <2>3, <2>4, KindFacts DEF Leaves
    <2> QED BY <1>1, <2>1, <2>2, <2>4, <2>5, <2>6
  <1>2. TypeOK /\ StoreTyped /\ file[Size] \in Nat
    BY FileFacts, NtdbAssumption DEF Typing
  <1>3. CASE UNCHANGED store /\ PrepareFails(p, txn.magic)
    BY <1>2, <1>3 DEF PrepareFails, CancelPc, Goto, TypeOK, Dirty
  <1>4. CASE /\ n \in Area /\ area' = n /\ Goto(p, "point")
             /\ \E cap \in {need, NPages + NAreas} : Put(new(cap))
    <2>1. pc'[p] = "point"
      BY <1>2, <1>4 DEF Goto, TypeOK
    <2> HIDE DEF new, need
    <2> QED BY <1>1, <1>2, <1>4, <2>1
  <1> QED BY <1>3, <1>4 DEF Expand

LEMMA RecordDisk ==
  ASSUME Typing, area \in Area, NEW p \in Proc, Record(p), ~IoError
  PROVE  /\ \A h \in disk'[Head(area)] \ disk[Head(area)] : h.magic # "valid"
         /\ \A c \in Cell \ {Head(area), Body(area)} :
              file'[c] = file[c] /\ disk'[c] = disk[c]
  <1> DEFINE h1 == [file[Head(area)] EXCEPT !.magic = "invalid", !.eof = txn.eof]
             new == [c \in {Head(area), Body(area)} |->
                      IF c = Body(area) THEN [d \in Changed(txn.blocks) |-> file[d]]
                      ELSE [file[c] EXCEPT !.magic = "invalid", !.eof = txn.eof]]
  <1>1. Put(new)
    BY DEF Record
  <1>2. h1.magic # "valid"
    BY FileFacts DEF Typing, HeadRecord
  <1>3. new[Head(area)] = h1 /\ DOMAIN new = {Head(area), Body(area)}
    BY CellFacts
  <1> HIDE DEF new, h1
  <1>4. \A d \in Cell :
          /\ file'[d] = IF d \in DOMAIN new THEN new[d] ELSE file[d]
          /\ disk'[d] = IF d \in DOMAIN new THEN disk[d] \cup Leaves(d, new[d]) ELSE disk[d]
    BY <1>1, PutFacts, PutDisk
  <1>5. disk'[Head(area)] = disk[Head(area)] \cup {h1}
    BY <1>3, <1>4, KindFacts DEF Leaves
  <1> QED BY <1>2, <1>3, <1>4, <1>5

LEMMA CommitWriteDisk ==
  ASSUME Safe, NEW p \in Proc, CommitWrite(p), ~IoError, disk[Recovery] = {file[Recovery]}
  PROVE  \E c \in DOMAIN txn.blocks :
           \A d \in Cell :
             /\ file'[d] = IF d = c THEN txn.blocks[c] ELSE file[d]
             /\ disk'[d] = IF d = c THEN disk[d] \cup {txn.blocks[c]} ELSE disk[d]
  <1> DEFINE c == First(todo)
             new == [d \in {c} \cup (IF c = Data(1) THEN {Recovery} ELSE {}) |->
                      IF d = Recovery THEN txn.recovery ELSE txn.blocks[d]]
  <1>1. TypeOK /\ pc[p] = "write" /\ todo # {} /\ CommitOK(p)
    BY DEF Safe, Typing, CommitWrite, CommitInv
  <1>2. Put(new)
    BY <1>1 DEF CommitWrite
  <1>3. c \in DOMAIN txn.blocks /\ c \in DataCell \cup HeadCell
    BY <1>1, FirstFact DEF CommitOK, TypeOK
  <1>4. c = Data(1) => txn.recovery = file[Recovery]
    BY <1>1, <1>3 DEF CommitOK, Committing
  <1>5. c # Recovery /\ c \notin BodyCell /\ Recovery \notin BodyCell
    BY <1>3, KindFacts
  <1>6. \A d \in Cell :
          /\ file'[d] = IF d \in DOMAIN new THEN new[d] ELSE file[d]
          /\ disk'[d] = IF d \in DOMAIN new THEN disk[d] \cup Leaves(d, new[d]) ELSE disk[d]
    BY <1>2, PutFacts, PutDisk
  <1> HIDE DEF c
  <1>7. new[c] = txn.blocks[c] /\ (Recovery \in DOMAIN new => new[Recovery] = file[Recovery])
    BY <1>4, <1>5
  <1>8. c \in DOMAIN new /\ DOMAIN new \subseteq {c, Recovery}
    OBVIOUS
  <1> HIDE DEF new
  <1>9. \A d \in Cell : /\ file'[d] = IF d = c THEN txn.blocks[c] ELSE file[d]
                        /\ disk'[d] = IF d = c THEN disk[d] \cup {txn.blocks[c]} ELSE disk[d]
    BY <1>5, <1>6, <1>7, <1>8 DEF Leaves
  <1> QED BY <1>3, <1>9

\* When all is synced, the file is what a crash leaves.
LEMMA FileMark ==
  ASSUME Synced(Cell), ~NeedsRecovery(file), Readable
  PROVE  NoMark
  BY KindFacts DEF Synced, NeedsRecovery, Readable, NoMark, Area

\* What a step of p does, if p has the write lock, to what a crash can leave.
DiskOwn(p) ==
  /\ pc'[p] \in Dirty => wr = p
  /\ wr = p => EndOK' /\ DiskOK(p)' /\ (pc'[p] \notin Dirty => Synced(Cell)')

LEMMA QuietDisk ==
  ASSUME NEW p \in Proc, EndOK, UNCHANGED store, pc[p] \notin Dirty,
         wr = p /\ pc[p] \notin Dirty => Synced(Cell),
         pc'[p] \in Dirty => wr = p /\ DiskOK(p)'
  PROVE  DiskOwn(p)
  <1>1. pc'[p] \notin Dirty => DiskOK(p)'
    BY DEF DiskOK, Dirty
  <1> QED BY <1>1 DEF DiskOwn, EndOK, Synced, store

LEMMA SyncDisk ==
  ASSUME NEW p \in Proc, StoreTyped, EndOK, Sync, wr = p, pc'[p] \notin Dirty \ {"write"}
  PROVE  DiskOwn(p)
  <1>1. \A c \in Cell : file[c] \in disk[c] /\ file'[c] = file[c] /\ disk'[c] = {file[c]}
    BY DEF StoreTyped, FileTyped, Sync
  <1>2. EndOK'
    BY <1>1, KindFacts DEF EndOK
  <1>3. Synced(Cell)'
    BY <1>1 DEF Synced
  <1>4. DiskOK(p)'
    BY <1>3 DEF DiskOK, Dirty, Synced
  <1> QED BY <1>2, <1>3, <1>4 DEF DiskOwn

LEMMA DiskOwnStep ==
  ASSUME NEW p \in Proc, Safe, Sound, DiskInv, budget.crash > 0,
         Calls(p) \/ Steps(p) \/ Die(p)
  PROVE  DiskOwn(p)
  <1>0. /\ Safe /\ Typing /\ TypeOK /\ StoreTyped /\ TxnShape(txn) /\ LockInv /\ StartInv
        /\ CommitOK(p) /\ TodoOK(p)
        /\ LockInv' /\ AreaInv /\ FreeOK(p) /\ MarkOK(p) /\ RestoreOK(p)
        /\ pc[p] \notin {"closed", "opening"} => Readable
        /\ EndOK /\ DiskOK(p) /\ (wr = p /\ pc[p] \notin Dirty => Synced(Cell))
        /\ ~IoError /\ ~(budget.death > 0)
    <2>1. Safe' /\ (pc[p] \notin {"closed", "opening"} => Readable)
      BY SafeStep, ReadableStep DEF Sound
    <2>2. EndOK /\ DiskOK(p) /\ (wr = p /\ pc[p] \notin Dirty => Synced(Cell))
      BY DEF DiskInv
    <2>3. ~IoError /\ ~(budget.death > 0)
      BY DEF Sound, FaultInv, Safe, Typing, TypeOK, Budget, IoError
    <2> QED BY <2>1, <2>2, <2>3
            DEF Safe, Typing, CommitInv, TodoInv, Sound, FreeInv, MarkInv, RestoreInv
  <1>1. ASSUME Open(p) PROVE DiskOwn(p)
    <2>1. UNCHANGED store /\ pc[p] \notin Dirty /\ pc'[p] \notin Dirty
      BY <1>0, <1>1 DEF Open, Goto, TypeOK, Dirty
    <2> QED BY <1>0, <2>1, QuietDisk
  <1>2. ASSUME LockHash(p) PROVE DiskOwn(p)
    <2>1. UNCHANGED store /\ pc[p] \notin Dirty /\ pc'[p] \notin Dirty
      BY <1>0, <1>2 DEF LockHash, Goto, GoFor, TypeOK, Dirty
    <2> QED BY <1>0, <2>1, QuietDisk
  <1>3. ASSUME UnlockHash(p) PROVE DiskOwn(p)
    <2>1. UNCHANGED store /\ pc[p] \notin Dirty /\ pc'[p] \notin Dirty
      BY <1>0, <1>3 DEF UnlockHash, Goto, TypeOK, Dirty
    <2> QED BY <1>0, <2>1, QuietDisk
  <1>4. ASSUME Start(p) PROVE DiskOwn(p)
    <2>1. UNCHANGED store /\ pc[p] \notin Dirty /\ pc'[p] \notin Dirty
      BY <1>0, <1>4 DEF Start, Goto, GoFor, TypeOK, Dirty
    <2> QED BY <1>0, <2>1, QuietDisk
  <1>5. ASSUME NEW pg \in Page, NEW v \in Values, Write(p, pg, v) PROVE DiskOwn(p)
    <2>1. UNCHANGED store /\ pc[p] \notin Dirty /\ pc'[p] \notin Dirty
      BY <1>0, <1>5 DEF Write, IoError, TypeOK, Dirty
    <2> QED BY <1>0, <2>1, QuietDisk
  <1>6. ASSUME NestedStart(p) PROVE DiskOwn(p)
    <2>1. UNCHANGED store /\ pc[p] \notin Dirty /\ pc'[p] \notin Dirty
      BY <1>0, <1>6 DEF NestedStart, TypeOK, Dirty
    <2> QED BY <1>0, <2>1, QuietDisk
  <1>7. ASSUME Cancel(p) PROVE DiskOwn(p)
    <2>1. UNCHANGED store /\ pc[p] \notin Dirty /\ pc'[p] \notin Dirty
      BY <1>0, <1>7, CancelFacts DEF Cancel, GoFor, Goto, CancelPc, TypeOK, Dirty
    <2> QED BY <1>0, <2>1, QuietDisk
  <1>8. ASSUME Prepare(p) PROVE DiskOwn(p)
    <2>1. UNCHANGED store /\ pc[p] \notin Dirty /\ pc'[p] \notin Dirty
      BY <1>0, <1>8, CancelFacts DEF Prepare, GoFor, Goto, CancelPc, TypeOK, Dirty
    <2> QED BY <1>0, <2>1, QuietDisk
  <1>9. ASSUME Commit(p) PROVE DiskOwn(p)
    <2>1. UNCHANGED <<store, wr>> /\ pc[p] = "txn"
      BY <1>9 DEF Commit, locks
    <2>2. CASE pc'[p] = "write"
      <3>1. wr = p
        BY <1>0, <2>1, <2>2 DEF LockInv, Committing
      <3>2. DiskOK(p)'
        BY <1>0, <2>1, <2>2, <3>1 DEF DiskOK, Synced, Dirty, store
      <3> QED BY <1>0, <2>1, <3>1, <3>2, QuietDisk DEF Dirty
    <2>3. CASE pc'[p] # "write"
      <3>1. pc'[p] \notin Dirty
        BY <1>0, <1>9, <2>3 DEF Commit, Cancelling, CancelPc, Goto, GoFor, TypeOK, Dirty
      <3> QED BY <1>0, <2>1, <3>1, QuietDisk DEF Dirty
    <2> QED BY <2>2, <2>3
  <1>10. ASSUME Close(p) PROVE DiskOwn(p)
    <2>1. UNCHANGED store /\ pc[p] \notin Dirty /\ pc'[p] \notin Dirty
      BY <1>0, <1>10 DEF Close, Gone, Unlock, Goto, GoFor, TypeOK, Dirty
    <2> QED BY <1>0, <2>1, QuietDisk
  <1>11. ASSUME OpenCheck(p) PROVE DiskOwn(p)
    <2>1. UNCHANGED store /\ pc[p] \notin Dirty /\ pc'[p] \notin Dirty
      BY <1>0, <1>11 DEF OpenCheck, Goto, GoFor, TypeOK, Dirty
    <2> QED BY <1>0, <2>1, QuietDisk
  <1>12. ASSUME RelockHash(p) PROVE DiskOwn(p)
    <2>1. UNCHANGED store /\ pc[p] \notin Dirty /\ pc'[p] \notin Dirty
      BY <1>0, <1>12 DEF RelockHash, Goto, GoFor, TypeOK, Dirty
    <2> QED BY <1>0, <2>1, QuietDisk
  <1>13. ASSUME Restart(p) PROVE DiskOwn(p)
    <2>1. UNCHANGED store /\ pc[p] \notin Dirty /\ pc'[p] \notin Dirty
      BY <1>0, <1>13 DEF Restart, Goto, GoFor, TypeOK, Dirty
    <2> QED BY <1>0, <2>1, QuietDisk
  <1>14. ASSUME LockAllRead(p) PROVE DiskOwn(p)
    <2>1. UNCHANGED store /\ pc[p] \notin Dirty /\ pc'[p] \notin Dirty
      BY <1>0, <1>14 DEF LockAllRead, Goto, GoFor, TypeOK, Dirty
    <2> QED BY <1>0, <2>1, QuietDisk
  <1>15. ASSUME Upgrade(p) PROVE DiskOwn(p)
    <2>1. UNCHANGED store /\ pc[p] \notin Dirty /\ pc'[p] \notin Dirty
      BY <1>0, <1>15 DEF Upgrade, PrepareFails, CancelPc, Goto, TypeOK, Dirty
    <2> QED BY <1>0, <2>1, QuietDisk
  <1>16. ASSUME LockOpen(p) PROVE DiskOwn(p)
    <2>1. UNCHANGED store /\ pc[p] \notin Dirty /\ pc'[p] \notin Dirty
      BY <1>0, <1>16 DEF LockOpen, Goto, TypeOK, Dirty
    <2> QED BY <1>0, <2>1, QuietDisk
  <1>17. ASSUME SetupNull(p) PROVE DiskOwn(p)
    <2>1. UNCHANGED store /\ pc[p] \notin Dirty /\ pc'[p] \notin Dirty
      BY <1>0, <1>17 DEF SetupNull, CancelPc, Goto, TypeOK, Dirty
    <2> QED BY <1>0, <2>1, QuietDisk
  <1>18. ASSUME Setup(p) PROVE DiskOwn(p)
    <2>1. UNCHANGED store /\ pc[p] = "setup" /\ wr = p /\ pc'[p] \in {"record", "expand"}
      BY <1>0, <1>18 DEF Setup, Goto, TypeOK, LockInv, Committing
    <2>2. Synced(Cell) /\ ~NeedsRecovery(file) /\ Readable
      BY <1>0, <2>1 DEF Dirty, MarkOK
    <2>3. NoMark
      BY <2>2, FileMark
    <2>4. DiskOK(p)'
      BY <2>1, <2>2, <2>3, KindFacts DEF DiskOK, Synced, NoMark, store
    <2> QED BY <1>0, <2>1, <2>4, QuietDisk DEF Dirty
  <1>19. ASSUME Expand(p) PROVE DiskOwn(p)
    <2>1. pc[p] = "expand" /\ wr = p /\ ~NeedsRecovery(file) /\ Readable /\ Synced(Cell)
      BY <1>0, <1>19 DEF Expand, LockInv, Committing, MarkOK, Dirty
    <2>2. CASE UNCHANGED store /\ pc'[p] \notin Dirty
      BY <1>0, <2>1, <2>2, QuietDisk DEF Dirty
    <2>3. CASE ~(UNCHANGED store /\ pc'[p] \notin Dirty)
      <3>1. /\ file[Size] \in Nat /\ area' = file[Size] + 1 /\ area' \in Area /\ pc'[p] = "point"
            /\ disk'[Size] = disk[Size] \cup {area'}
            /\ \A h \in disk'[Head(area')] \ disk[Head(area')] : h.magic # "valid"
            /\ \A c \in Cell \ {Size, Head(area'), Body(area')} :
                 file'[c] = file[c] /\ disk'[c] = disk[c]
        BY <1>0, <1>19, <2>3, ExpandDisk
      <3>2. \A h \in disk'[Head(area')] : h.magic # "valid"
        BY <1>0, <2>1, <3>1, KindFacts, CellFacts DEF EndOK, Synced
      <3>3. EndOK'
        <4> SUFFICES ASSUME NEW s \in disk'[Size], NEW a \in Area, s < a, NEW h \in disk'[Head(a)]
                     PROVE  h.magic # "valid"
          BY DEF EndOK
        <4>1. file[Size] \in disk[Size] /\ file[Size] < a
          BY <2>1, <3>1, KindFacts, NtdbAssumption DEF Synced, Area
        <4>2. CASE a = area'
          BY <3>2, <4>2
        <4>3. CASE a # area'
          BY <1>0, <3>1, <4>1, <4>3, KindFacts, CellFacts DEF EndOK
        <4> QED BY <4>2, <4>3
      <3>4. NoMark'
        <4>1. disk'[Recovery] = {file[Recovery]} /\ file[Recovery] < area'
          BY <1>0, <2>1, <3>1, KindFacts, CellFacts, FileFacts,
             NtdbAssumption DEF Synced, Readable
        <4>2. file[Recovery] \in Area =>
                disk'[Head(file[Recovery])] = disk[Head(file[Recovery])]
          BY <3>1, <4>1, KindFacts, CellFacts, NtdbAssumption DEF Area
        <4>3. NoMark
          BY <2>1, FileMark, <1>0
        <4>4. disk[Recovery] = {file[Recovery]}
          BY <2>1, KindFacts DEF Synced
        <4> QED BY <4>1, <4>2, <4>3, <4>4 DEF NoMark
      <3>5. Synced(DataCell)'
        BY <2>1, <3>1, KindFacts, CellFacts DEF Synced
      <3> QED BY <2>1, <3>1, <3>2, <3>3, <3>4, <3>5 DEF DiskOwn, DiskOK, Dirty
    <2> QED BY <2>2, <2>3
  <1>20. ASSUME Point(p) PROVE DiskOwn(p)
    <2>1. /\ pc[p] = "point" /\ wr = p /\ pc'[p] = "record" /\ area # 0 /\ area \in Area
          /\ Put1(Recovery, area)
      BY <1>0, <1>20 DEF Point, LockInv, Committing, CommitOK, Goto, TypeOK, Area
    <2>2. Synced(DataCell) /\ NoMark /\ \A h \in disk[Head(area)] : h.magic # "valid"
      BY <1>0, <2>1 DEF DiskOK
    <2>3. \A d \in Cell : /\ file'[d] = IF d = Recovery THEN area ELSE file[d]
                          /\ disk'[d] = IF d = Recovery THEN disk[d] \cup {area} ELSE disk[d]
      BY <2>1, Put1Disk, KindFacts
    <2>4. Synced(DataCell)'
      BY <2>2, <2>3, KindFacts DEF Synced
    <2>5. NoMark'
      <3>1. disk'[Recovery] = disk[Recovery] \cup {area}
        BY <2>3, KindFacts
      <3>2. \A a \in Area : disk'[Head(a)] = disk[Head(a)]
        BY <2>3, KindFacts, CellFacts
      <3> QED BY <2>2, <3>1, <3>2 DEF NoMark
    <2>6. EndOK'
      BY <1>0, <2>3, KindFacts, CellFacts DEF EndOK
    <2> QED BY <2>1, <2>4, <2>5, <2>6 DEF DiskOwn, DiskOK, Dirty
  <1>21. ASSUME Record(p) PROVE DiskOwn(p)
    <2>1. /\ pc[p] = "record" /\ wr = p /\ pc'[p] = "sync1" /\ area \in Area
          /\ Synced(DataCell) /\ NoMark
      BY <1>0, <1>21 DEF Record, LockInv, Committing, CommitOK, Goto, TypeOK, Area,
         DiskOK
    <2>2. /\ \A h \in disk'[Head(area)] \ disk[Head(area)] : h.magic # "valid"
          /\ \A c \in Cell \ {Head(area), Body(area)} :
               file'[c] = file[c] /\ disk'[c] = disk[c]
      BY <1>0, <1>21, <2>1, RecordDisk
    <2>3. Synced(DataCell)'
      BY <2>1, <2>2, KindFacts DEF Synced
    <2>4. \A a \in Area : \A h \in disk'[Head(a)] \ disk[Head(a)] : h.magic # "valid"
      BY <2>2, KindFacts, CellFacts
    <2>5. disk'[Recovery] = disk[Recovery] /\ disk'[Size] = disk[Size]
      BY <2>2, KindFacts, CellFacts
    <2>6. NoMark'
      BY <2>1, <2>4, <2>5 DEF NoMark
    <2>7. EndOK'
      BY <1>0, <2>4, <2>5 DEF EndOK
    <2> QED BY <2>1, <2>3, <2>6, <2>7 DEF DiskOwn, DiskOK, Dirty
  <1>22. ASSUME Sync1(p) PROVE DiskOwn(p)
    <2>1. Sync /\ wr = p /\ pc'[p] \in {"mark"}
      BY <1>0, <1>22 DEF Sync1, PrepareFails, CancelPc, Goto, IoError, LockInv,
         Committing, Recovering, Unmarking, TypeOK
    <2> QED BY <1>0, <2>1, SyncDisk DEF Dirty
  <1>23. ASSUME Mark(p) PROVE DiskOwn(p)
    <2>1. /\ pc[p] = "mark" /\ wr = p /\ pc'[p] = "sync2" /\ area \in Area /\ UNCHANGED area
          /\ area = file[Recovery] /\ Readable /\ Synced(Cell)
      BY <1>0, <1>23 DEF Mark, LockInv, Committing, CommitOK, Goto, TypeOK, Area, Dirty
    <2> DEFINE v == [file[Head(area)] EXCEPT !.magic = "valid"]
    <2>2. Put1(Head(area), v)
      BY <1>0, <1>23 DEF Mark
    <2> HIDE DEF v
    <2>3. \A d \in Cell : /\ file'[d] = IF d = Head(area) THEN v ELSE file[d]
                          /\ disk'[d] = IF d = Head(area) THEN disk[d] \cup {v} ELSE disk[d]
      BY <2>1, <2>2, Put1Disk, KindFacts
    <2>4. EndOK'
      <3>0. disk'[Size] = {file[Size]}
        BY <2>1, <2>3, KindFacts, CellFacts DEF Synced
      <3>1. disk'[Size] = {file[Size]} /\ file[Size] \in Nat /\ area <= file[Size] /\ area \in Nat
        BY <1>0, <2>1, <3>0, FileFacts, NtdbAssumption DEF Readable, Area
      <3>2. \A a \in Area : file[Size] < a => a # area /\ a \in Nat
        BY <3>1 DEF Area
      <3>3. \A a \in Area : a # area => disk'[Head(a)] = disk[Head(a)]
        BY <2>3, KindFacts, CellFacts
      <3>4. file[Size] \in disk[Size]
        BY <2>1, KindFacts DEF Synced
      <3> QED BY <1>0, <3>1, <3>2, <3>3, <3>4 DEF EndOK
    <2>5. Synced(Cell \ {Head(area)})'
      BY <2>1, <2>3 DEF Synced
    <2> QED BY <2>1, <2>4, <2>5 DEF DiskOwn, DiskOK, Dirty
  <1>24. ASSUME Sync2(p) PROVE DiskOwn(p)
    <2>1. Sync /\ wr = p /\ pc'[p] \in {"write", "txn"}
      BY <1>0, <1>24 DEF Sync2, PrepareFails, CancelPc, Goto, IoError, LockInv,
         Committing, Recovering, Unmarking, TypeOK
    <2> QED BY <1>0, <2>1, SyncDisk DEF Dirty
  <1>25. ASSUME CommitWrite(p) PROVE DiskOwn(p)
    <2>1. /\ pc[p] = "write" /\ wr = p /\ pc'[p] = "write" /\ area \in Area /\ UNCHANGED area
          /\ Covered(file[Body(area)]) /\ Elsewhere(DOMAIN txn.blocks, area)
          /\ Synced(Cell \ DOMAIN file[Body(area)])
      BY <1>0, <1>25 DEF CommitWrite, LockInv, Committing, CommitOK, MarkOK, FreeOK,
         DiskOK,
         TypeOK, Area
    <2>2. /\ DOMAIN file[Body(area)] \subseteq DataCell \cup HeadCell
          /\ DOMAIN txn.blocks \subseteq DataCell \cup HeadCell
      BY <1>0, <2>1, BodyFacts DEF TypeOK, TxnTyped
    <2>3. disk[Recovery] = {file[Recovery]} /\ disk[Size] = {file[Size]}
      BY <2>1, <2>2, KindFacts DEF Synced
    <2>4. PICK c \in DOMAIN txn.blocks :
            \A d \in Cell :
              /\ file'[d] = IF d = c THEN txn.blocks[c] ELSE file[d]
              /\ disk'[d] = IF d = c THEN disk[d] \cup {txn.blocks[c]} ELSE disk[d]
      BY <1>0, <1>25, <2>1, <2>3, CommitWriteDisk
    <2>40. c # Size /\ c # Body(area)
      BY <2>1, <2>2, KindFacts
    <2>5. /\ file'[Body(area)] = file[Body(area)]
          /\ disk'[Size] = disk[Size]
      BY <2>1, <2>4, <2>40, KindFacts
    <2>6. Synced(Cell \ DOMAIN file[Body(area)])'
      <3> SUFFICES ASSUME NEW d \in Cell, d \notin DOMAIN file[Body(area)]
                   PROVE  disk'[d] = {file'[d]}
        BY <2>1, <2>5 DEF Synced
      <3>1. disk[d] = {file[d]}
        BY <2>1 DEF Synced
      <3>2. CASE d = c
        BY <2>1, <2>4, <3>1, <3>2 DEF Covered
      <3>3. CASE d # c
        BY <2>4, <3>1, <3>3
      <3> QED BY <3>2, <3>3
    <2>7. EndOK'
      <3>1. file[Size] \in Nat
        BY <1>0, FileFacts, NtdbAssumption
      <3>2. \A a \in Area : file[Size] < a => a \in Nat /\ Head(a) # c
        BY <2>1, <2>4, <3>1 DEF Elsewhere, Area
      <3>3. \A a \in Area : Head(a) # c => disk'[Head(a)] = disk[Head(a)]
        BY <2>4, KindFacts
      <3> QED BY <1>0, <2>3, <2>5, <3>2, <3>3 DEF EndOK
    <2> QED BY <2>1, <2>6, <2>7 DEF DiskOwn, DiskOK, Dirty
  <1>26. ASSUME CommitSync(p) PROVE DiskOwn(p)
    <2>1. Sync /\ wr = p /\ pc'[p] \in {"unmark", "release"}
      BY <1>0, <1>26 DEF CommitSync, CancelPc, Goto, GoFor, IoError, LockInv,
         Committing, Recovering, Unmarking, TypeOK
    <2> QED BY <1>0, <2>1, SyncDisk DEF Dirty
  <1>27. ASSUME Unmark(p) PROVE DiskOwn(p)
    <2> DEFINE m == txn.magic
               v == [file[Head(m)] EXCEPT !.magic = "invalid"]
    <2>1. /\ pc[p] = "unmark" /\ wr = p /\ pc'[p] = "unmarksync" /\ m \in Area /\ UNCHANGED txn
          /\ Readable /\ Synced(Cell) /\ Put1(Head(m), v)
      BY <1>0, <1>27 DEF Unmark, UnmarkFails, LockInv, StartInv, Unmarking, Goto,
         TypeOK, TxnTyped,
         Area, Dirty
    <2>2. v.magic # "valid"
      BY <1>0, <2>1, FileFacts DEF HeadRecord
    <2> HIDE DEF v
    <2>3. \A d \in Cell : /\ file'[d] = IF d = Head(m) THEN v ELSE file[d]
                          /\ disk'[d] = IF d = Head(m) THEN disk[d] \cup {v} ELSE disk[d]
      <3>1. Head(m) \notin BodyCell
        BY <2>1, KindFacts
      <3> QED BY <2>1, <3>1, Put1Disk
    <2>4. Synced(Cell \ {Head(m)})'
      BY <2>1, <2>3 DEF Synced
    <2>5. /\ file'[Recovery] = file[Recovery] /\ file'[Size] = file[Size]
          /\ file'[Body(m)] = file[Body(m)] /\ disk'[Head(m)] = {file[Head(m)], v}
          /\ disk'[Size] = disk[Size]
      BY <2>1, <2>3, KindFacts, CellFacts DEF Synced
    <2>6. \/ \A h \in disk'[Head(m)] : h.magic # "valid"
          \/ Elsewhere(DOMAIN file[Body(m)], m)'
          \/ file'[Recovery] # m
      <3>1. CASE file[Recovery] # m
        BY <2>5, <3>1
      <3>2. CASE file[Head(m)].magic # "valid"
        BY <2>2, <2>5, <3>2
      <3>3. CASE file[Recovery] = m /\ file[Head(m)].magic = "valid"
        <4>1. NeedsRecovery(file)
          BY <1>0, <2>1, <3>3, FileFacts, NtdbAssumption DEF NeedsRecovery, Readable,
             Area
        <4> QED BY <1>0, <2>1, <2>5, <3>3, <4>1 DEF AreaInv, Elsewhere
      <3> QED BY <3>1, <3>2, <3>3
    <2>7. EndOK'
      BY <1>0, <2>2, <2>3, <2>5, KindFacts, CellFacts DEF EndOK
    <2> QED BY <2>1, <2>4, <2>6, <2>7 DEF DiskOwn, DiskOK, Dirty
  <1>28. ASSUME UnmarkSync(p) PROVE DiskOwn(p)
    <2>1. Sync /\ wr = p /\ pc'[p] \in {"release"}
      BY <1>0, <1>28 DEF UnmarkSync, UnmarkFails, Goto, GoFor, IoError, LockInv,
         Committing,
         Recovering, Unmarking, TypeOK
    <2> QED BY <1>0, <2>1, SyncDisk DEF Dirty
  <1>29. ASSUME Release(p) PROVE DiskOwn(p)
    <2>1. UNCHANGED store /\ pc[p] \notin Dirty /\ pc'[p] \notin Dirty
      BY <1>0, <1>29 DEF Release, Unlock, Goto, GoFor, TypeOK, Dirty
    <2> QED BY <1>0, <2>1, QuietDisk
  <1>30. ASSUME LockAll(p) PROVE DiskOwn(p)
    <2>1. UNCHANGED store /\ pc[p] \notin Dirty /\ pc'[p] \notin Dirty
      BY <1>0, <1>30 DEF LockAll, Goto, TypeOK, Dirty
    <2> QED BY <1>0, <2>1, QuietDisk
  <1>31. ASSUME RecoverLockOpen(p) PROVE DiskOwn(p)
    <2>1. UNCHANGED store /\ pc[p] \notin Dirty /\ pc'[p] \notin Dirty
      BY <1>0, <1>31 DEF RecoverLockOpen, Goto, TypeOK, Dirty
    <2> QED BY <1>0, <2>1, QuietDisk
  <1>32. ASSUME Check(p) PROVE DiskOwn(p)
    <2>1. UNCHANGED store /\ pc[p] = "check" /\ wr = p /\ pc'[p] \in {"recovered", "restore"}
      BY <1>0, <1>32 DEF Check, Goto, TypeOK, LockInv, Recovering
    <2>2. Synced(Cell)
      BY <1>0, <2>1 DEF Dirty
    <2>3. DiskOK(p)'
      BY <2>1, <2>2 DEF DiskOK, Synced, store
    <2> QED BY <1>0, <2>1, <2>3, QuietDisk DEF Dirty
  <1>33. ASSUME Restore(p) PROVE DiskOwn(p)
    <2> DEFINE c == First(todo)
               v == file[Body(area)][c]
    <2>1. /\ pc[p] = "restore" /\ wr = p /\ pc'[p] = "restore" /\ area \in Area /\ UNCHANGED area
          /\ todo # {} /\ todo \subseteq DOMAIN file[Body(area)]
          /\ Synced(Cell \ DOMAIN file[Body(area)])
          /\ NeedsRecovery(file) /\ area = file[Recovery] /\ Put1(c, v)
      BY <1>0, <1>33 DEF Restore, LockInv, Recovering, RestoreOK, TodoOK, DiskOK,
         TypeOK, Area,
         RecoverFails
    <2>2. c \in todo /\ todo \subseteq DataCell \cup HeadCell
      BY <1>0, <2>1, FirstFact DEF TypeOK
    <2> HIDE DEF c, v
    <2>3. DOMAIN file[Body(area)] \subseteq DataCell \cup HeadCell
      BY <1>0, <2>1, BodyFacts
    <2>4. \A d \in Cell : /\ file'[d] = IF d = c THEN v ELSE file[d]
                          /\ disk'[d] = IF d = c THEN disk[d] \cup {v} ELSE disk[d]
      BY <2>1, <2>2, Put1Disk, KindFacts
    <2>40. c # Size /\ c # Body(area) /\ Size \notin DOMAIN file[Body(area)]
      BY <2>1, <2>2, <2>3, KindFacts
    <2>5. /\ file'[Body(area)] = file[Body(area)]
          /\ disk'[Size] = disk[Size] /\ disk[Size] = {file[Size]}
      BY <2>1, <2>4, <2>40, KindFacts DEF Synced
    <2>6. Synced(Cell \ DOMAIN file[Body(area)])'
      BY <2>1, <2>2, <2>4, <2>5 DEF Synced
    <2>7. EndOK'
      <3>1. file[Size] \in Nat /\ Elsewhere(DOMAIN file[Body(area)], area)
        BY <1>0, <2>1, FileFacts, NtdbAssumption DEF AreaInv
      <3>2. \A a \in Area : file[Size] < a => a \in Nat /\ Head(a) # c
        BY <2>1, <2>2, <3>1 DEF Elsewhere, Area
      <3>3. \A a \in Area : Head(a) # c => disk'[Head(a)] = disk[Head(a)]
        BY <2>4, KindFacts
      <3> QED BY <1>0, <2>5, <3>2, <3>3 DEF EndOK
    <2> QED BY <2>1, <2>6, <2>7 DEF DiskOwn, DiskOK, Dirty
  <1>34. ASSUME RestoreSync(p) PROVE DiskOwn(p)
    <2>1. Sync /\ wr = p /\ pc'[p] \in {"unpoint"}
      BY <1>0, <1>34 DEF RestoreSync, RecoverFails, IoError, Goto, LockInv,
         Committing, Recovering, Unmarking, TypeOK
    <2> QED BY <1>0, <2>1, SyncDisk DEF Dirty
  <1>35. ASSUME Unpoint(p) PROVE DiskOwn(p)
    <2>1. /\ pc[p] = "unpoint" /\ wr = p /\ pc'[p] = "invalidate" /\ UNCHANGED area
          /\ Synced(Cell) /\ NeedsRecovery(file) /\ area = file[Recovery]
          /\ Clean(file[Body(area)])
          /\ Put1(Recovery, 0) \/ UNCHANGED store
      BY <1>0, <1>35 DEF Unpoint, LockInv, Recovering, RestoreOK, Dirty, TypeOK, Goto,
         RecoverFails
    <2>2. area \in Area /\ Elsewhere(DOMAIN file[Body(area)], area)
      BY <1>0, <2>1, FileFacts, NtdbAssumption DEF NeedsRecovery, Area, AreaInv
    <2>3. DOMAIN file[Body(area)] \subseteq DataCell \cup HeadCell
      BY <1>0, <2>2, BodyFacts
    <2>4. /\ \A d \in Cell \ {Recovery} : file'[d] = file[d] /\ disk'[d] = disk[d]
          /\ disk'[Recovery] \subseteq {0, area}
      <3>1. CASE UNCHANGED store
        BY <2>1, <3>1, KindFacts DEF store, Synced
      <3>2. CASE Put1(Recovery, 0)
        <4>1. \A d \in Cell : /\ file'[d] = IF d = Recovery THEN 0 ELSE file[d]
                              /\ disk'[d] = IF d = Recovery THEN disk[d] \cup {0} ELSE disk[d]
          BY <3>2, Put1Disk, KindFacts
        <4> QED BY <2>1, <4>1, KindFacts DEF Synced
      <3> QED BY <2>1, <3>1, <3>2
    <2>5. /\ file'[Body(area)] = file[Body(area)] /\ file'[Size] = file[Size]
          /\ \A d \in DOMAIN file[Body(area)] : file'[d] = file[d]
      BY <2>2, <2>3, <2>4, KindFacts, CellFacts
    <2>6. Clean(file[Body(area)])' /\ Elsewhere(DOMAIN file[Body(area)], area)'
      BY <2>1, <2>2, <2>5 DEF Clean, Elsewhere
    <2>7. Synced(Cell \ {Recovery, Head(area)})'
      BY <2>1, <2>4 DEF Synced
    <2>8. EndOK'
      BY <1>0, <2>4, KindFacts, CellFacts DEF EndOK
    <2> QED BY <2>1, <2>4, <2>6, <2>7, <2>8 DEF DiskOwn, DiskOK, Dirty
  <1>36. ASSUME Invalidate(p) PROVE DiskOwn(p)
    <2> DEFINE v == [file[Head(area)] EXCEPT !.magic = "invalid"]
    <2>1. /\ pc[p] = "invalidate" /\ wr = p /\ pc'[p] = "invalidatesync" /\ UNCHANGED area
          /\ area \in Area /\ Put1(Head(area), v)
      BY <1>0, <1>36 DEF Invalidate, LockInv, Recovering, RestoreOK, TypeOK, Area,
         Goto, RecoverFails
    <2>2. /\ Synced(Cell \ {Recovery, Head(area)}) /\ disk[Recovery] \subseteq {0, area}
          /\ Clean(file[Body(area)]) /\ Elsewhere(DOMAIN file[Body(area)], area)
      BY <1>0, <2>1 DEF DiskOK
    <2>3. v.magic # "valid"
      BY <1>0, <2>1, FileFacts DEF HeadRecord
    <2> HIDE DEF v
    <2>4. \A d \in Cell : /\ file'[d] = IF d = Head(area) THEN v ELSE file[d]
                          /\ disk'[d] = IF d = Head(area) THEN disk[d] \cup {v} ELSE disk[d]
      <3>1. Head(area) \notin BodyCell
        BY <2>1, KindFacts
      <3> QED BY <2>1, <3>1, Put1Disk
    <2>5. /\ DOMAIN file[Body(area)] \subseteq Cell /\ Head(area) \notin DOMAIN file[Body(area)]
      BY <1>0, <2>1, <2>2, BodyFacts, KindFacts DEF Elsewhere
    <2>6. /\ file'[Body(area)] = file[Body(area)] /\ file'[Size] = file[Size]
          /\ disk'[Recovery] = disk[Recovery] /\ disk'[Size] = disk[Size]
          /\ \A d \in DOMAIN file[Body(area)] : file'[d] = file[d]
      BY <2>1, <2>4, <2>5, KindFacts, CellFacts
    <2>7. Clean(file[Body(area)])' /\ Elsewhere(DOMAIN file[Body(area)], area)'
      BY <2>1, <2>2, <2>6 DEF Clean, Elsewhere
    <2>8. Synced(Cell \ {Recovery, Head(area)})'
      BY <2>1, <2>2, <2>4 DEF Synced
    <2>9. EndOK'
      <3>1. ASSUME NEW a \in Area, NEW h \in disk'[Head(a)]
            PROVE  h \in disk[Head(a)] \/ h = v
        <4>1. Head(a) \in Cell
          BY KindFacts
        <4>2. disk'[Head(a)] = IF Head(a) = Head(area) THEN disk[Head(a)] \cup {v}
                               ELSE disk[Head(a)]
          BY <2>4, <4>1
        <4> QED BY ONLY <3>1, <4>2
      <3>2. \A s \in disk[Size], a \in Area : s < a => \A h \in disk[Head(a)] : h.magic # "valid"
        BY <1>0 DEF EndOK
      <3>3. ASSUME NEW s \in disk'[Size], NEW a \in Area, s < a, NEW h \in disk'[Head(a)]
            PROVE  h.magic # "valid"
        BY ONLY <2>3, <2>6, <3>1, <3>2, <3>3
      <3> QED BY <3>3 DEF EndOK
    <2> QED BY <2>1, <2>2, <2>6, <2>7, <2>8, <2>9 DEF DiskOwn, DiskOK, Dirty
  <1>37. ASSUME InvalidateSync(p) PROVE DiskOwn(p)
    <2>1. Sync /\ wr = p /\ pc'[p] \in {"recovered"}
      BY <1>0, <1>37 DEF InvalidateSync, RecoverFails, IoError, Goto, LockInv,
         Committing, Recovering, Unmarking, TypeOK
    <2> QED BY <1>0, <2>1, SyncDisk DEF Dirty
  <1>38. ASSUME Recovered(p) PROVE DiskOwn(p)
    <2>1. goal[p] # "abort" => goal[p] \in {"open", "read", "start", "startall"}
      BY <1>0, <1>38 DEF Recovered, LockInv, Recovering
    <2>2. UNCHANGED store /\ pc[p] \notin Dirty /\ pc'[p] \notin Dirty
      BY <1>0, <1>38, <2>1 DEF Recovered, GoFor, Goto, CancelPc, AfterRecovery,
         TypeOK, Dirty
    <2> QED BY <1>0, <2>2, QuietDisk
  <1>39. ASSUME Die(p) PROVE DiskOwn(p)
    BY <1>0, <1>39 DEF Die
  <1> QED
    BY <1>1, <1>2, <1>3, <1>4, <1>5, <1>6, <1>7, <1>8, <1>9, <1>10, <1>11, <1>12,
       <1>13, <1>14, <1>15, <1>16, <1>17, <1>18, <1>19, <1>20, <1>21, <1>22, <1>23,
       <1>24, <1>25, <1>26, <1>27, <1>28, <1>29, <1>30, <1>31, <1>32, <1>33, <1>34,
       <1>35, <1>36, <1>37, <1>38, <1>39 DEF Calls, Steps

LEMMA DiskStep ==
  ASSUME NEW p \in Proc, Safe, Sound, DiskInv, Calls(p) \/ Steps(p) \/ Die(p)
  PROVE  DiskInv'
  <1> SUFFICES ASSUME budget'.crash > 0
               PROVE  /\ EndOK'
                      /\ wr' = NULL \/ pc'[wr'] \notin Dirty => Synced(Cell)'
                      /\ \A q \in Proc : DiskOK(q)'
    BY DEF DiskInv
  <1>1. budget.crash > 0
    BY FaultOwnStep DEF FaultOwn
  <1>2. /\ LockInv /\ LockInv' /\ TypeOK /\ TypeOK' /\ EndOK /\ \A q \in Proc : DiskOK(q)
        /\ wr = NULL \/ pc[wr] \notin Dirty => Synced(Cell)
    BY <1>1, SafeStep DEF Safe, Typing, DiskInv
  <1>3. \A q \in Proc : pc[q] \in Dirty => wr = q
    BY <1>2 DEF LockInv, Dirty, Committing, Recovering, Unmarking
  <1>4. \A q \in Proc : pc'[q] \in Dirty => wr' = q
    BY <1>2 DEF LockInv, Dirty, Committing, Recovering, Unmarking
  <1>5. DiskOwn(p)
    BY <1>1, DiskOwnStep
  <1>6. /\ wr # p => UNCHANGED <<store, area, todo>>
        /\ tlock # p => UNCHANGED txn
        /\ \A q \in Proc \ {p} : pc'[q] = pc[q] /\ (wr' = q) = (wr = q)
    BY Owners
  <1>7. CASE wr = p
    <2>1. wr' = p \/ wr' = NULL
      BY <1>2, <1>6, <1>7 DEF TypeOK
    <2>2. wr' = NULL => pc'[p] \notin Dirty
      BY <1>4, NtdbAssumption
    <2>3. EndOK' /\ DiskOK(p)' /\ (pc'[p] \notin Dirty => Synced(Cell)')
      BY <1>5, <1>7 DEF DiskOwn
    <2>4. \A q \in Proc \ {p} : DiskOK(q)'
      BY <1>3, <1>6, <1>7 DEF DiskOK, Dirty
    <2> QED BY <2>1, <2>2, <2>3, <2>4
  <1>8. CASE wr # p
    <2>1. UNCHANGED store /\ UNCHANGED <<file, disk, area>> /\ pc'[p] \notin Dirty
      BY <1>5, <1>6, <1>8 DEF DiskOwn, store
    <2>2. EndOK'
      BY <1>2, <2>1 DEF EndOK
    <2>3. ASSUME NEW q \in Proc PROVE DiskOK(q)'
      <3>1. CASE pc'[q] \notin Dirty
        BY <3>1 DEF DiskOK, Dirty
      <3>2. CASE pc'[q] \in Dirty
        <4>1. q # p /\ pc'[q] = pc[q] /\ DiskOK(q)
          BY <1>2, <1>6, <2>1, <3>2
        <4>2. pc[q] = "unmarksync" => UNCHANGED txn
          BY <1>2, <1>6, <4>1 DEF LockInv, InTxn, Unmarking
        <4> QED BY <2>1, <4>1, <4>2 DEF DiskOK, Synced, NoMark, Clean, Elsewhere
      <3> QED BY <3>1, <3>2
    <2>4. ASSUME wr' = NULL \/ pc'[wr'] \notin Dirty PROVE Synced(Cell)'
      <3>1. wr = NULL \/ pc[wr] \notin Dirty
        BY <1>2, <1>6, <1>8, <2>4 DEF TypeOK
      <3> QED BY <1>2, <2>1, <3>1 DEF Synced
    <2> QED BY <2>2, <2>3, <2>4
  <1> QED BY <1>7, <1>8
-----------------------------------------------------------------------------
(* A machine crash *)

SameBut(f, cells) == \A c \in Cell \ cells : f[c] = file[c]

\* What a crash can leave next to the file itself: by what the holder of the
\* write lock was doing.
Loss(f) ==
  \/ f = file
  \/ ~NeedsRecovery(f) /\ ~NeedsRecovery(file) /\ SameBut(f, Cell \ DataCell)
  \/ /\ SameBut(f, {Head(area)}) /\ Clean(file[Body(area)])
     /\ NeedsRecovery(file) /\ area = file[Recovery]
  \/ /\ SameBut(f, DOMAIN file[Body(area)])
     /\ NeedsRecovery(file) /\ area = file[Recovery]
  \/ /\ SameBut(f, {Recovery, Head(area)}) /\ Clean(file[Body(area)])
     /\ f[Recovery] \in {0, area} /\ file[Recovery] \in {0, area} /\ area \in Area
     /\ Elsewhere(DOMAIN file[Body(area)], area)

\* The same while the marker of a commit is being removed.
LossUnmark(f) ==
  /\ SameBut(f, {Head(txn.magic)}) /\ ~NeedsRecovery(file) /\ txn.magic \in Area
  /\ NeedsRecovery(f) =>
       f[Recovery] = txn.magic /\ Elsewhere(DOMAIN file[Body(txn.magic)], txn.magic)

LEMMA ImageSame ==
  ASSUME NEW f \in Images, NEW cells, Synced(Cell \ cells)
  PROVE  SameBut(f, cells)
  BY ImageFacts DEF Synced, SameBut

LEMMA ImageLoss ==
  ASSUME Safe, Sound, DiskInv, budget.crash > 0, NEW f \in Images
  PROVE  \/ Loss(f)
         \/ wr \in Proc /\ pc[wr] = "unmarksync" /\ LossUnmark(f)
  <1>0. /\ TypeOK /\ StoreTyped /\ AreaInv
        /\ EndOK /\ (wr = NULL \/ pc[wr] \notin Dirty => Synced(Cell))
        /\ \A c \in Cell : f[c] \in disk[c]
        /\ file[Size] \in 0 .. NAreas /\ file[Recovery] \in 0 .. NAreas
    BY ImageFacts, FileFacts DEF Safe, Typing, Sound, DiskInv
  <1>1. CASE wr = NULL \/ pc[wr] \notin Dirty
    <2>1. f = file
      BY <1>0, <1>1, ImageFacts DEF Synced, StoreTyped
    <2> QED BY <2>1 DEF Loss
  <1>2. CASE wr # NULL /\ pc[wr] \in Dirty
    <2>0. PICK p \in Proc : wr = p /\ pc[p] \in Dirty
      BY <1>0, <1>2 DEF TypeOK
    <2>1. /\ LockInv /\ StartInv /\ CommitOK(p) /\ MarkOK(p) /\ RestoreOK(p) /\ DiskOK(p) /\ TodoOK(p)
      BY DEF Safe, CommitInv, TodoInv, Sound, MarkInv, RestoreInv, DiskInv
    <2>2. Readable
      BY <1>0, <2>0 DEF AreaInv, Active, Dirty
    <2>3. CASE pc[p] \in {"point", "record", "sync1"}
      <3>1. Synced(DataCell) /\ NoMark /\ ~NeedsRecovery(file)
        BY <2>1, <2>3 DEF DiskOK, MarkOK
      <3>2. \A c \in DataCell : f[c] = file[c]
        BY <1>0, <3>1, KindFacts DEF Synced
      <3>3. f[Size] \in 0 .. NAreas
        <4>1. Typed(Size, f[Size])
          BY <1>0, KindFacts DEF StoreTyped, FileTyped
        <4> QED BY <4>1, KindFacts DEF Typed
      <3>4. ASSUME NeedsRecovery(f) PROVE FALSE
        <4>1. f[Recovery] \in Area /\ f[Recovery] \in disk[Recovery]
          BY <1>0, <3>3, <3>4, KindFacts, NtdbAssumption DEF NeedsRecovery, Area
        <4>2. f[Head(f[Recovery])] \in disk[Head(f[Recovery])]
          BY <1>0, <4>1, KindFacts
        <4> QED BY <3>1, <3>4, <4>1, <4>2 DEF NoMark, NeedsRecovery
      <3>5. SameBut(f, Cell \ DataCell)
        BY <3>2 DEF SameBut
      <3> QED BY <3>1, <3>4, <3>5 DEF Loss
    <2>4. CASE pc[p] = "sync2"
      <3>1. /\ Synced(Cell \ {Head(area)}) /\ area = file[Recovery] /\ area # 0
            /\ Clean(file[Body(area)]) /\ file[Head(area)].magic = "valid"
        BY <2>1, <2>4 DEF DiskOK, CommitOK, MarkOK
      <3>2. NeedsRecovery(file)
        BY <1>0, <2>2, <3>1, NtdbAssumption DEF NeedsRecovery, Readable
      <3> QED BY <3>1, <3>2, ImageSame DEF Loss
    <2>5. CASE pc[p] \in {"write", "restore"}
      <3>1. Synced(Cell \ DOMAIN file[Body(area)]) /\ area = file[Recovery]
        BY <2>1, <2>5 DEF DiskOK, CommitOK, RestoreOK
      <3>2. NeedsRecovery(file)
        <4>1. CASE pc[p] = "restore"
          BY <2>1, <4>1 DEF RestoreOK
        <4>2. CASE pc[p] = "write"
          <5>1. area # 0 /\ file[Head(area)].magic = "valid"
            BY <2>1, <4>2 DEF CommitOK, MarkOK
          <5> QED BY <1>0, <2>2, <3>1, <5>1, NtdbAssumption DEF NeedsRecovery, Readable
        <4> QED BY <2>5, <4>1, <4>2
      <3> QED BY <3>1, <3>2, ImageSame DEF Loss
    <2>6. CASE pc[p] \in {"invalidate", "invalidatesync"}
      <3>1. /\ Synced(Cell \ {Recovery, Head(area)}) /\ disk[Recovery] \subseteq {0, area}
            /\ Clean(file[Body(area)]) /\ Elsewhere(DOMAIN file[Body(area)], area)
        BY <2>1, <2>6 DEF DiskOK
      <3>2. f[Recovery] \in {0, area} /\ file[Recovery] \in {0, area}
        BY <1>0, <3>1, KindFacts DEF StoreTyped, FileTyped
      <3>3. CASE area \in Area
        BY <3>1, <3>2, <3>3, ImageSame DEF Loss
      <3>4. CASE area \notin Area
        <4>1. area = 0
          BY <1>0, <3>4 DEF TypeOK, Area
        <4>2. Recovery \in Cell /\ Head(area) \notin Cell
          BY <3>4, KindFacts
        <4>3. SameBut(f, {Recovery, Head(area)})
          BY <3>1, ImageSame
        <4>4. \A c \in Cell : f[c] = file[c]
          BY <3>2, <4>1, <4>2, <4>3 DEF SameBut
        <4>5. f = file
          BY <1>0, <4>4, ImageFacts DEF StoreTyped
        <4> QED BY <4>5 DEF Loss
      <3> QED BY <3>3, <3>4
    <2>7. CASE pc[p] = "unmarksync"
      <3> DEFINE m == txn.magic
      <3>1. /\ Synced(Cell \ {Head(m)}) /\ ~NeedsRecovery(file) /\ m \in Area
            /\ \/ \A h \in disk[Head(m)] : h.magic # "valid"
               \/ Elsewhere(DOMAIN file[Body(m)], m)
               \/ file[Recovery] # m
        BY <1>0, <2>1, <2>7 DEF DiskOK, MarkOK, StartInv, Unmarking, TypeOK, TxnTyped,
           Area
      <3>2. SameBut(f, {Head(m)})
        BY <3>1, ImageSame
      <3>3. f[Recovery] = file[Recovery] /\ f[Size] = file[Size]
        BY <3>2, KindFacts, CellFacts DEF SameBut
      <3>4. ASSUME NeedsRecovery(f)
            PROVE  f[Recovery] = m /\ Elsewhere(DOMAIN file[Body(m)], m)
        <4>1. f[Recovery] = m
          <5>1. ASSUME f[Recovery] # m PROVE FALSE
            <6>1. file[Recovery] \in Area
              BY <1>0, <3>3, <3>4, NtdbAssumption DEF NeedsRecovery, Area
            <6>2. f[Head(file[Recovery])] = file[Head(file[Recovery])]
              BY <3>2, <3>3, <5>1, <6>1, KindFacts, CellFacts DEF SameBut
            <6> QED BY <3>1, <3>3, <3>4, <6>2 DEF NeedsRecovery
          <5> QED BY <5>1
        <4>2. f[Head(m)] \in disk[Head(m)] /\ f[Head(m)].magic = "valid"
          BY <1>0, <3>1, <3>4, <4>1, KindFacts DEF NeedsRecovery
        <4> QED BY <3>1, <3>3, <4>1, <4>2
      <3> QED BY <2>0, <2>7, <3>1, <3>2, <3>4 DEF LossUnmark
    <2> QED BY <2>0, <2>3, <2>4, <2>5, <2>6, <2>7 DEF Dirty
  <1> QED BY <1>0, <1>1, <1>2 DEF TypeOK

\* Whatever a crash leaves to be recovered is in the file.
LEMMA ImageArea ==
  ASSUME Safe, Sound, DiskInv, budget.crash > 0, NEW f \in Images, NeedsRecovery(f)
  PROVE  \A a \in Area : Head(a) \in DOMAIN f[Body(f[Recovery])] =>
                           a # f[Recovery] /\ a <= f[Size]
  <1> DEFINE r == f[Recovery]
  <1> SUFFICES /\ f[Size] = file[Size] /\ f[Body(r)] = file[Body(r)]
               /\ Elsewhere(DOMAIN file[Body(r)], r)
    BY DEF Elsewhere
  <1>0. /\ StoreTyped /\ AreaInv
        /\ file[Size] \in 0 .. NAreas /\ file[Recovery] \in 0 .. NAreas
    BY FileFacts DEF Safe, Typing, Sound
  <1>1. CASE f = file
    BY <1>0, <1>1 DEF AreaInv
  <1>2. CASE /\ SameBut(f, {Head(area)}) /\ NeedsRecovery(file) /\ area = file[Recovery]
    <2>1. f[Size] = file[Size] /\ r = file[Recovery]
      BY <1>2, KindFacts, CellFacts DEF SameBut
    <2>2. r \in Area
      BY <1>0, <2>1, NtdbAssumption DEF NeedsRecovery, Area
    <2>3. f[Body(r)] = file[Body(r)]
      BY <1>2, <2>2, KindFacts, CellFacts DEF SameBut
    <2> QED BY <1>0, <1>2, <2>1, <2>3 DEF AreaInv
  <1>3. CASE /\ SameBut(f, DOMAIN file[Body(area)]) /\ NeedsRecovery(file)
             /\ area = file[Recovery]
    <2>1. area \in Area
      BY <1>0, <1>3, NtdbAssumption DEF NeedsRecovery, Area
    <2>2. DOMAIN file[Body(area)] \subseteq DataCell \cup HeadCell
      BY <1>0, <2>1, BodyFacts
    <2>3. f[Size] = file[Size] /\ r = file[Recovery] /\ f[Body(area)] = file[Body(area)]
      BY <1>3, <2>1, <2>2, KindFacts DEF SameBut
    <2> QED BY <1>0, <1>3, <2>3 DEF AreaInv
  <1>4. CASE /\ SameBut(f, {Recovery, Head(area)}) /\ f[Recovery] \in {0, area}
             /\ area \in Area /\ Elsewhere(DOMAIN file[Body(area)], area)
    <2>1. f[Size] = file[Size] /\ f[Body(area)] = file[Body(area)]
      BY <1>4, KindFacts, CellFacts DEF SameBut
    <2>2. r = area
      <3>1. 0 \notin 1 .. f[Size]
        BY <1>0, <2>1
      <3> QED BY <1>4, <3>1 DEF NeedsRecovery
    <2> QED BY <1>4, <2>1, <2>2
  <1>5. CASE LossUnmark(f)
    BY <1>5, KindFacts, CellFacts DEF LossUnmark, SameBut
  <1> QED BY <1>1, <1>2, <1>3, <1>4, <1>5, ImageLoss DEF Loss

LEMMA CrashStep ==
  ASSUME Safe, Sound, DiskInv, Crash
  PROVE  Sound' /\ DiskInv'
  <1>1. TypeOK /\ budget.crash > 0 /\ FaultInv
    BY DEF Safe, Typing, Crash, Sound
  <1>2. PICK f \in Images : file' = f
    BY DEF Crash
  <1>3. AreaInv'
    <2>1. ~Active'
      BY DEF Crash, Active
    <2>2. NeedsRecovery(file') => Elsewhere(DOMAIN file[Body(file[Recovery])], file[Recovery])'
      BY <1>1, <1>2, ImageArea DEF Elsewhere
    <2> QED BY <2>1, <2>2 DEF AreaInv
  <1>4. FaultInv'
    BY <1>1 DEF FaultInv, Crash, TypeOK, Budget
  <1>5. FreeInv' /\ MarkInv' /\ RestoreInv'
    BY DEF Crash, FreeInv, FreeOK, MarkInv, MarkOK, RestoreInv, RestoreOK
  <1>6. \A c \in Cell : file'[c] \in disk[c] /\ disk'[c] = {file'[c]}
    BY <1>2, ImageFacts DEF Crash
  <1>7. EndOK'
    <2>1. EndOK
      BY <1>1 DEF DiskInv
    <2> QED BY <1>6, <2>1, KindFacts DEF EndOK
  <1>8. Synced(Cell)' /\ \A p \in Proc : DiskOK(p)'
    BY <1>6 DEF Crash, Synced, DiskOK
  <1> QED BY <1>3, <1>4, <1>5, <1>7, <1>8 DEF Sound, DiskInv

\* The file in a commit and in a recovery, and what a machine crash can
\* leave of it: with deaths and at most one I/O error, or else with machine
\* crashes, the marker of transaction_setup_recovery is in the file as long
\* as a page is not all old or all new, ntdb_transaction_recover restores
\* all of them before it removes the marker, and no page is overwritten
\* before the marker and what it saves are safe.
THEOREM SoundCorrect ==
  ASSUME OneSort
  PROVE  Spec => [](Sound /\ DiskInv)
  <1>1. Init => Sound /\ DiskInv
    BY SoundInit
  <1>2. Safe /\ Sound /\ DiskInv /\ [Next]_vars => (Sound /\ DiskInv)'
    <2> SUFFICES ASSUME Safe, Sound, DiskInv, [Next]_vars
                 PROVE  Sound' /\ DiskInv'
      OBVIOUS
    <2>1. CASE UNCHANGED vars
      BY <2>1, SoundStutter
    <2>2. CASE \E p \in Proc : Calls(p) \/ Steps(p) \/ Die(p)
      BY <2>2, SoundStep, DiskStep
    <2>3. CASE Crash
      BY <2>3, CrashStep
    <2> QED BY <2>1, <2>2, <2>3 DEF Next
  <1> QED BY <1>1, <1>2, Inductive, PTL DEF Spec
=============================================================================
