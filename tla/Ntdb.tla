-------------------------------- MODULE Ntdb --------------------------------
(***************************************************************************)
(* ntdb transactions (junkcode/rusty@rustcorp.com.au-ntdb): processes that *)
(* share a database file, read it under fcntl locks and change it by       *)
(* transactions.  A commit first saves what it will overwrite in a         *)
(* recovery area of the same file and marks it with a magic; whoever finds *)
(* the magic after a death or a crash writes the old contents back.        *)
(*                                                                         *)
(* The file is a function from cells to values, as all the processes see   *)
(* it in the page cache.  disk has, for each cell, the values that a       *)
(* machine crash can leave there: writes are not ordered until a sync.     *)
(* Every write, sync and blocking lock is a step, between which any other  *)
(* process may run, any process may die and the machine may crash.         *)
(***************************************************************************)
EXTENDS Integers, FiniteSets

CONSTANTS
  Proc,     \* the processes
  NPages,   \* pages of the database; the header is in page 1
  NAreas,   \* how many recovery areas the file system has room for
  Values,   \* what a page can hold
  Budgets,  \* bounds on the deaths, crashes, I/O errors, transactions and
            \* nested transactions of a behaviour
  NULL

Budget == [death : Nat, crash : Nat, io : Nat, start : Nat, nest : Nat]

ASSUME NtdbAssumption ==
  /\ IsFiniteSet(Proc) /\ NULL \notin Proc
  /\ NPages \in Nat \ {0} /\ NAreas \in Nat
  /\ Values \subseteq Nat /\ Values # {}
  /\ Budgets \subseteq Budget /\ Budgets # {}

VARIABLES
  file,    \* the contents of the file
  disk,    \* the values of each cell that a machine crash may leave
  tlock,   \* NTDB_TRANSACTION_LOCK: the process that holds it
  olock,   \* NTDB_OPEN_LOCK
  rd,      \* the processes with a read lock on the hash chains
  wr,      \* the process with the write lock on all of them
  txn,     \* struct ntdb_transaction, of the holder of tlock
  pc,      \* what each process does next
  goal,    \* what it goes on with after a recovery or a prepare
  area,    \* recovery_off or recovery_head, of the holder of wr
  todo,    \* the cells that the holder of wr still has to write
  budget   \* what may still happen

vars == <<file, disk, tlock, olock, rd, wr, txn, pc, goal, area, todo, budget>>
locks == <<tlock, olock, rd, wr>>
store == <<file, disk>>
-----------------------------------------------------------------------------
(* The file *)

Page == 1 .. NPages
Area == 1 .. NAreas

\* Areas are numbered in the order of their offsets: the file has those up
\* to its size, and all of them come after the pages.
Size == <<"size", 0>>
Recovery == <<"recovery", 0>>    \* ntdb_header.recovery; 0 for no area
Data(p) == <<"data", p>>
Head(a) == <<"head", a>>         \* the ntdb_recovery_record of an area
Body(a) == <<"body", a>>         \* the old contents that follow it

HeaderCell == {Size, Recovery}
DataCell == {Data(p) : p \in Page}
HeadCell == {Head(a) : a \in Area}
BodyCell == {Body(a) : a \in Area}
Cell == HeaderCell \cup DataCell \cup HeadCell \cup BodyCell

\* What is left of a body of which only some sectors were written.
Garbage == -1
Torn == [c \in DataCell |-> Garbage]

\* ntdb_expand_file fills new space with 0x43.
Fill == [magic |-> "fill", cap |-> 0, eof |-> 0]
\* add_free_record puts the header of a free record over that of an area.
Free == [magic |-> "free", cap |-> 0, eof |-> 0]

Where(c) == IF c[1] = "data" THEN c[2] ELSE NPages + c[2]
First(cells) == CHOOSE c \in cells : \A d \in cells : Where(c) <= Where(d)

\* The value a write adds to what a crash may leave; a body is longer than
\* a sector.
Leaves(c, v) == IF c \in BodyCell THEN {v, Torn} ELSE {v}

\* twrite of several adjacent cells: f is what it writes.
Put(f) ==
  /\ file' = [c \in Cell |-> IF c \in DOMAIN f THEN f[c] ELSE file[c]]
  /\ disk' = [c \in Cell |->
               IF c \in DOMAIN f THEN disk[c] \cup Leaves(c, f[c]) ELSE disk[c]]

Put1(c, v) == Put([d \in {c} |-> v])

\* transaction_sync
Sync ==
  /\ disk' = [c \in Cell |-> {file[c]}]
  /\ UNCHANGED file

\* What a machine crash may leave of some cells, of each on its own.
Left(cells) ==
  {f \in [cells -> UNION {disk[c] : c \in cells}] : \A c \in cells : f[c] \in disk[c]}

Joined(h, d, r, b) ==
  [c \in Cell |-> CASE c \in HeaderCell -> h[c] [] c \in DataCell -> d[c]
                    [] c \in HeadCell -> r[c] [] c \in BodyCell -> b[c]]

\* The files that a machine crash may leave.
Images ==
  {Joined(h, d, r, b) : h \in Left(HeaderCell), d \in Left(DataCell),
                        r \in Left(HeadCell), b \in Left(BodyCell)}
-----------------------------------------------------------------------------
(* Recovery, locks and failures: helpers *)

\* ntdb_needs_recovery
NeedsRecovery(f) ==
  f[Recovery] \in 1 .. f[Size] /\ f[Head(f[Recovery])].magic = "valid"

\* Otherwise the header points past the end of the file, and reading the
\* record there fails.
Readable == file[Recovery] <= file[Size]

\* The database in a file: what its pages hold once it is recovered.
Database(f) ==
  [p \in Page |->
    IF NeedsRecovery(f) /\ Data(p) \in DOMAIN f[Body(f[Recovery])]
    THEN f[Body(f[Recovery])][Data(p)] ELSE f[Data(p)]]

\* A write or a sync that fails changes nothing.
IoError ==
  /\ budget.io > 0
  /\ budget' = [budget EXCEPT !.io = @ - 1]
  /\ UNCHANGED store

Goto(p, l) == pc' = [pc EXCEPT ![p] = l]
GoFor(p, l, g) == Goto(p, l) /\ goal' = [goal EXCEPT ![p] = g]

NoBlocks == [c \in {} |-> 0]
NoTxn == [nesting |-> 0, error |-> FALSE, prepared |-> FALSE, null |-> TRUE,
          blocks |-> NoBlocks, recovery |-> 0, magic |-> 0, eof |-> 0]

\* _ntdb_transaction_cancel of a transaction that is not nested, with
\* magic_offset at m.
CancelPc(m) == IF m = 0 THEN "release" ELSE "unmark"
Cancelling(p) == Goto(p, CancelPc(txn.magic))

\* The blocks that differ from the file: alloc_recovery saves their old
\* contents.
Changed(blocks) == {c \in DOMAIN blocks : blocks[c] # file[c]}
-----------------------------------------------------------------------------
(* Opening, and reading under a hash lock *)

\* ntdb_open takes the open lock and releases it once the header is read;
\* a commit keeps it out.
Open(p) ==
  /\ pc[p] = "closed" /\ olock = NULL
  /\ Goto(p, "opening")
  /\ UNCHANGED <<store, locks, txn, goal, area, todo, budget>>

OpenCheck(p) ==
  /\ pc[p] = "opening"
  /\ \/ ~Readable /\ Goto(p, "closed") /\ UNCHANGED goal
     \/ Readable /\ NeedsRecovery(file) /\ GoFor(p, "lockall", "open")
     \/ Readable /\ ~NeedsRecovery(file) /\ Goto(p, "ready") /\ UNCHANGED goal
  /\ UNCHANGED <<store, locks, txn, area, todo, budget>>

\* Mutant: the first lock does not look for a death in a commit.
LockHashNoCheck(p) ==
  /\ pc[p] = "ready" /\ wr = NULL
  /\ rd' = rd \cup {p}
  /\ Goto(p, "reading")
  /\ UNCHANGED <<store, tlock, olock, wr, txn, goal, area, todo, budget>>

\* ntdb_nest_lock of a hash chain, for reading: the first lock a process
\* takes looks for a death in a commit.
LockHash(p) ==
  /\ pc[p] = "ready" /\ wr = NULL
  /\ \/ /\ NeedsRecovery(file)
        /\ GoFor(p, "lockall", "read")
        /\ UNCHANGED rd
     \/ /\ ~NeedsRecovery(file)
        /\ rd' = rd \cup {p}
        /\ Goto(p, "reading") /\ UNCHANGED goal
  /\ UNCHANGED <<store, tlock, olock, wr, txn, area, todo, budget>>

\* After the recovery it takes the lock again, and does not look again.
RelockHash(p) ==
  /\ pc[p] = "relock" /\ wr = NULL
  /\ rd' = rd \cup {p}
  /\ GoFor(p, "reading", "none")
  /\ UNCHANGED <<store, tlock, olock, wr, txn, area, todo, budget>>

UnlockHash(p) ==
  /\ pc[p] = "reading"
  /\ rd' = rd \ {p}
  /\ Goto(p, "ready")
  /\ UNCHANGED <<store, tlock, olock, wr, txn, goal, area, todo, budget>>
-----------------------------------------------------------------------------
(* Starting a transaction, and the calls inside it *)

\* ntdb_transaction_start: the transaction lock, with the same check...
Start(p) ==
  /\ pc[p] = "ready" /\ tlock = NULL /\ budget.start > 0
  /\ budget' = [budget EXCEPT !.start = @ - 1]
  /\ \/ /\ NeedsRecovery(file)
        /\ GoFor(p, "lockall", "start")
        /\ UNCHANGED tlock
     \/ /\ ~NeedsRecovery(file)
        /\ tlock' = p
        /\ Goto(p, "starting") /\ UNCHANGED goal
  /\ UNCHANGED <<store, olock, rd, wr, txn, area, todo>>

Restart(p) ==
  /\ pc[p] = "restart" /\ tlock = NULL
  /\ tlock' = p
  /\ GoFor(p, "starting", "none")
  /\ UNCHANGED <<store, olock, rd, wr, txn, area, todo, budget>>

\* ...then ntdb_allrecord_lock for reading, which does look again.
LockAllRead(p) ==
  /\ pc[p] = "starting" /\ wr = NULL
  /\ \/ /\ NeedsRecovery(file)
        /\ GoFor(p, "lockall", "startall")
        /\ UNCHANGED <<rd, txn>>
     \/ /\ ~NeedsRecovery(file)
        /\ rd' = rd \cup {p}
        /\ txn' = [NoTxn EXCEPT !.eof = file[Size]]
        /\ Goto(p, "txn") /\ UNCHANGED goal
  /\ UNCHANGED <<store, tlock, olock, wr, area, todo, budget>>

\* transaction_write.  A block is a copy of its page, and of the header if
\* that is where it is.
Write(p, pg, v) ==
  /\ pc[p] = "txn"
  /\ \/ /\ ~txn.prepared
        /\ txn' = [txn EXCEPT
             !.null = FALSE,
             !.blocks = [c \in DOMAIN @ \cup {Data(pg)} |->
                          IF c = Data(pg) THEN v ELSE @[c]],
             !.recovery = IF pg = 1 /\ Data(1) \notin DOMAIN txn.blocks
                          THEN file[Recovery] ELSE @]
        /\ UNCHANGED <<store, budget>>
     \/ /\ txn.prepared
        /\ txn' = [txn EXCEPT !.error = TRUE]
        /\ UNCHANGED <<store, budget>>
     \/ /\ ~txn.prepared /\ IoError
        /\ txn' = [txn EXCEPT !.error = TRUE]
  /\ UNCHANGED <<locks, pc, goal, area, todo>>

NestedStart(p) ==
  /\ pc[p] = "txn" /\ budget.nest > 0
  /\ budget' = [budget EXCEPT !.nest = @ - 1]
  /\ txn' = [txn EXCEPT !.nesting = @ + 1]
  /\ UNCHANGED <<store, locks, pc, goal, area, todo>>

\* Mutant: a cancel always leaves one level of nesting.
CancelTxnNested(p) ==
  /\ txn' = [txn EXCEPT !.nesting = @ - 1, !.error = TRUE]
  /\ UNCHANGED pc

\* _ntdb_transaction_cancel
CancelTxn(p) ==
  \/ /\ txn.nesting # 0
     /\ txn' = [txn EXCEPT !.nesting = @ - 1, !.error = TRUE]
     /\ UNCHANGED pc
  \/ /\ txn.nesting = 0
     /\ Cancelling(p)
     /\ UNCHANGED txn

Cancel(p) ==
  /\ pc[p] = "txn"
  /\ CancelTxn(p)
  /\ UNCHANGED <<store, locks, goal, area, todo, budget>>

\* ntdb_transaction_prepare_commit, up to the lock.  It has nothing to do
\* in a nested or a null transaction.
Prepare(p) ==
  /\ pc[p] = "txn"
  /\ \/ (txn.prepared \/ txn.error) /\ CancelTxn(p) /\ UNCHANGED goal
     \/ /\ ~txn.prepared /\ ~txn.error /\ txn.nesting = 0 /\ ~txn.null
        /\ GoFor(p, "upgrade", "prepare")
        /\ UNCHANGED txn
  /\ UNCHANGED <<store, locks, area, todo, budget>>

\* ntdb_transaction_commit, up to the lock or the first write.
Commit(p) ==
  /\ pc[p] = "txn"
  /\ \/ /\ txn.nesting # 0
        /\ txn' = [txn EXCEPT !.nesting = @ - 1]
        /\ UNCHANGED <<pc, goal, todo>>
     \/ /\ txn.nesting = 0 /\ (txn.null \/ (txn.error /\ ~txn.prepared))
        /\ Cancelling(p)
        /\ UNCHANGED <<txn, goal, todo>>
     \/ /\ txn.nesting = 0 /\ ~txn.null /\ ~txn.error /\ ~txn.prepared
        /\ GoFor(p, "upgrade", "commit")
        /\ UNCHANGED <<txn, todo>>
     \/ /\ txn.nesting = 0 /\ ~txn.null /\ txn.prepared
        /\ GoFor(p, "write", "commit")
        /\ todo' = DOMAIN txn.blocks
        /\ UNCHANGED txn
  /\ UNCHANGED <<store, locks, area, budget>>
-----------------------------------------------------------------------------
(* _ntdb_transaction_prepare_commit and transaction_setup_recovery *)

\* The caller is ntdb_transaction_commit, which cancels the transaction, or
\* the application, which still has it open.  m is magic_offset.
PrepareFails(p, m) ==
  Goto(p, IF goal[p] = "commit" THEN CancelPc(m) ELSE "txn")

\* Mutant: the upgrade does not wait for the readers.
UpgradeHasty(p) ==
  /\ pc[p] = "upgrade"
  /\ \/ /\ wr = NULL
        /\ wr' = p /\ rd' = rd \ {p}
        /\ Goto(p, "lockopen")
     \/ /\ wr = p
        /\ PrepareFails(p, txn.magic)
        /\ UNCHANGED <<wr, rd>>
  /\ UNCHANGED <<store, tlock, olock, txn, goal, area, todo, budget>>

\* ntdb_allrecord_upgrade waits for the readers; it refuses a second
\* upgrade, after a prepare that failed.
Upgrade(p) ==
  /\ pc[p] = "upgrade"
  /\ \/ /\ wr = NULL /\ rd = {p}
        /\ wr' = p /\ rd' = {}
        /\ Goto(p, "lockopen")
     \/ /\ wr = p
        /\ PrepareFails(p, txn.magic)
        /\ UNCHANGED <<wr, rd>>
  /\ UNCHANGED <<store, tlock, olock, txn, goal, area, todo, budget>>

LockOpen(p) ==
  /\ pc[p] = "lockopen" /\ olock = NULL
  /\ olock' = p
  /\ Goto(p, "setup")
  /\ UNCHANGED <<store, tlock, rd, wr, txn, goal, area, todo, budget>>

\* Nothing changed: no recovery data, and nothing to commit.
SetupNull(p) ==
  /\ pc[p] = "setup" /\ Changed(txn.blocks) = {}
  /\ txn' = [txn EXCEPT !.null = TRUE, !.prepared = TRUE]
  /\ Goto(p, IF goal[p] = "commit" THEN CancelPc(txn.magic) ELSE "txn")
  /\ UNCHANGED <<store, locks, goal, area, todo, budget>>

\* ntdb_recovery_area: the area the header points to, if it is one.
RecoveryArea ==
  IF /\ file[Recovery] # 0
     /\ file[Head(file[Recovery])].magic \in {"valid", "invalid"}
  THEN file[Recovery] ELSE 0

Fits(blocks) ==
  /\ RecoveryArea # 0
  /\ Cardinality(Changed(blocks)) <= file[Head(RecoveryArea)].cap

\* The area is used again if it is large enough; otherwise it is freed, as
\* a write of the transaction, and the file gets a new one.
Setup(p) ==
  /\ pc[p] = "setup" /\ Changed(txn.blocks) # {}
  /\ \/ /\ Fits(txn.blocks)
        /\ area' = RecoveryArea
        /\ Goto(p, "record")
        /\ UNCHANGED txn
     \/ /\ ~Fits(txn.blocks) /\ RecoveryArea = 0
        /\ Goto(p, "expand")
        /\ UNCHANGED <<txn, area>>
     \/ /\ ~Fits(txn.blocks) /\ RecoveryArea # 0
        /\ txn' = [txn EXCEPT !.blocks =
             [c \in DOMAIN @ \cup {Head(RecoveryArea)} |->
               IF c = Head(RecoveryArea) THEN Free ELSE @[c]]]
        /\ Goto(p, "expand")
        /\ UNCHANGED area
  /\ UNCHANGED <<store, locks, goal, todo, budget>>

\* create_recovery_area, first half: the file grows by an area with room
\* for at least what is to be saved.
Expand(p) ==
  /\ pc[p] = "expand"
  /\ LET n == file[Size] + 1
         need == Cardinality(Changed(txn.blocks)) IN
     \/ /\ n \in Area
        /\ \E cap \in {need, NPages + NAreas} :
             Put([c \in {Size, Head(n), Body(n)} |->
                   IF c = Size THEN n
                   ELSE IF c = Head(n) THEN [Fill EXCEPT !.cap = cap] ELSE Torn])
        /\ area' = n
        /\ Goto(p, "point")
        /\ UNCHANGED budget
     \/ /\ n \notin Area
        /\ PrepareFails(p, txn.magic)
        /\ UNCHANGED <<store, area, budget>>
     \/ /\ IoError
        /\ PrepareFails(p, txn.magic)
        /\ UNCHANGED area
  /\ UNCHANGED <<locks, txn, goal, todo>>

\* Mutant: the block with the header keeps its old copy.
WriteExistingNot(a) == txn

\* transaction_write_existing of header.recovery
WriteExisting(a) == [txn EXCEPT !.recovery = a]

\* ...second half: the header, in the file and in the block that has it.
Point(p) ==
  /\ pc[p] = "point"
  /\ \/ /\ Put1(Recovery, area)
        /\ txn' = WriteExisting(area)
        /\ Goto(p, "record")
        /\ UNCHANGED budget
     \/ /\ IoError
        /\ PrepareFails(p, txn.magic)
        /\ UNCHANGED txn
  /\ UNCHANGED <<locks, goal, area, todo>>

\* The record, with the old contents of what will change.
Record(p) ==
  /\ pc[p] = "record"
  /\ \/ /\ Put([c \in {Head(area), Body(area)} |->
                 IF c = Body(area) THEN [d \in Changed(txn.blocks) |-> file[d]]
                 ELSE [file[c] EXCEPT !.magic = "invalid", !.eof = txn.eof]])
        /\ Goto(p, "sync1")
        /\ UNCHANGED budget
     \/ /\ IoError
        /\ PrepareFails(p, txn.magic)
  /\ UNCHANGED <<locks, txn, goal, area, todo>>

Sync1(p) ==
  /\ pc[p] = "sync1"
  /\ \/ Sync /\ Goto(p, "mark") /\ UNCHANGED budget
     \/ IoError /\ PrepareFails(p, txn.magic)
  /\ UNCHANGED <<locks, txn, goal, area, todo>>

\* NTDB_RECOVERY_MAGIC
Mark(p) ==
  /\ pc[p] = "mark"
  /\ txn' = [txn EXCEPT !.magic = area]
  /\ \/ /\ Put1(Head(area), [file[Head(area)] EXCEPT !.magic = "valid"])
        /\ Goto(p, "sync2")
        /\ UNCHANGED budget
     \/ /\ IoError
        /\ PrepareFails(p, area)
  /\ UNCHANGED <<locks, goal, area, todo>>

Sync2(p) ==
  /\ pc[p] = "sync2"
  /\ \/ /\ Sync
        /\ txn' = [txn EXCEPT !.prepared = TRUE]
        /\ Goto(p, IF goal[p] = "commit" THEN "write" ELSE "txn")
        /\ todo' = IF goal[p] = "commit" THEN DOMAIN txn.blocks ELSE {}
        /\ UNCHANGED budget
     \/ /\ IoError
        /\ PrepareFails(p, txn.magic)
        /\ UNCHANGED <<txn, todo>>
  /\ UNCHANGED <<locks, goal, area>>
-----------------------------------------------------------------------------
(* ntdb_transaction_commit and _ntdb_transaction_cancel *)

\* One block, with the header if it is in there.  A write that fails leads
\* to recovery, in place.
CommitWrite(p) ==
  /\ pc[p] = "write" /\ todo # {}
  /\ LET c == First(todo) IN
     \/ /\ Put([d \in {c} \cup (IF c = Data(1) THEN {Recovery} ELSE {}) |->
                 IF d = Recovery THEN txn.recovery ELSE txn.blocks[d]])
        /\ todo' = todo \ {c}
        /\ UNCHANGED <<pc, goal, budget>>
     \/ /\ IoError
        /\ GoFor(p, "check", "abort")
        /\ UNCHANGED todo
  /\ UNCHANGED <<locks, txn, area>>

\* The blocks are gone.  A sync that fails leaves the transaction open.
CommitSync(p) ==
  /\ pc[p] = "write" /\ todo = {}
  /\ txn' = [txn EXCEPT !.null = TRUE]
  /\ \/ Sync /\ GoFor(p, CancelPc(txn.magic), "committed") /\ UNCHANGED budget
     \/ IoError /\ GoFor(p, "txn", "none")
  /\ UNCHANGED <<locks, area, todo>>

\* A marker that cannot be removed is logged and no more: the commit that
\* it belongs to returns NTDB_SUCCESS all the same.
UnmarkFails(p) ==
  IoError /\ GoFor(p, "release", IF goal[p] = "committed" THEN "logged" ELSE "none")

Unmark(p) ==
  /\ pc[p] = "unmark"
  /\ \/ /\ Put1(Head(txn.magic), [file[Head(txn.magic)] EXCEPT !.magic = "invalid"])
        /\ Goto(p, "unmarksync")
        /\ UNCHANGED <<goal, budget>>
     \/ UnmarkFails(p)
  /\ UNCHANGED <<locks, txn, area, todo>>

\* Mutant: the recovery marker is removed without a sync.
UnmarkNoSync(p) ==
  /\ pc[p] = "unmarksync"
  /\ Goto(p, "release")
  /\ UNCHANGED <<store, locks, txn, goal, area, todo, budget>>

UnmarkSync(p) ==
  /\ pc[p] = "unmarksync"
  /\ \/ Sync /\ Goto(p, "release") /\ UNCHANGED <<goal, budget>>
     \/ UnmarkFails(p)
  /\ UNCHANGED <<locks, txn, area, todo>>

\* Everything p holds, and what it alone may use: at the end of a
\* transaction, of a recovery, of p.
Unlock(p) ==
  /\ tlock' = IF tlock = p THEN NULL ELSE tlock
  /\ olock' = IF olock = p THEN NULL ELSE olock
  /\ wr' = IF wr = p THEN NULL ELSE wr
  /\ rd' = rd \ {p}
  /\ txn' = IF tlock = p THEN NoTxn ELSE txn
  /\ area' = IF wr = p THEN 0 ELSE area
  /\ todo' = IF wr = p THEN {} ELSE todo

Release(p) ==
  /\ pc[p] = "release"
  /\ Unlock(p)
  /\ GoFor(p, "ready", "none")
  /\ UNCHANGED <<store, budget>>
-----------------------------------------------------------------------------
(* ntdb_lock_and_recover and ntdb_transaction_recover *)

LockAll(p) ==
  /\ pc[p] = "lockall" /\ wr = NULL /\ rd = {}
  /\ wr' = p
  /\ Goto(p, "rlockopen")
  /\ UNCHANGED <<store, tlock, olock, rd, txn, goal, area, todo, budget>>

RecoverLockOpen(p) ==
  /\ pc[p] = "rlockopen" /\ olock = NULL
  /\ olock' = p
  /\ Goto(p, "check")
  /\ UNCHANGED <<store, tlock, rd, wr, txn, goal, area, todo, budget>>

Check(p) ==
  /\ pc[p] = "check"
  /\ \/ /\ ~NeedsRecovery(file)
        /\ Goto(p, "recovered")
        /\ UNCHANGED <<area, todo>>
     \/ /\ NeedsRecovery(file)
        /\ area' = file[Recovery]
        /\ todo' = DOMAIN file[Body(file[Recovery])]
        /\ Goto(p, "restore")
  /\ UNCHANGED <<store, locks, txn, goal, budget>>

RecoverFails(p) == IoError /\ Goto(p, "failed")

Restore(p) ==
  /\ pc[p] = "restore" /\ todo # {}
  /\ LET c == First(todo) IN
     \/ /\ Put1(c, file[Body(area)][c])
        /\ todo' = todo \ {c}
        /\ UNCHANGED <<pc, budget>>
     \/ RecoverFails(p) /\ UNCHANGED todo
  /\ UNCHANGED <<locks, txn, goal, area>>

RestoreSync(p) ==
  /\ pc[p] = "restore" /\ todo = {}
  /\ \/ Sync /\ Goto(p, "unpoint") /\ UNCHANGED budget
     \/ RecoverFails(p)
  /\ UNCHANGED <<locks, txn, goal, area, todo>>

\* An area past the end of the recovered file is forgotten.
Unpoint(p) ==
  /\ pc[p] = "unpoint"
  /\ \/ /\ file[Head(area)].eof < area
        /\ Put1(Recovery, 0)
        /\ Goto(p, "invalidate")
        /\ UNCHANGED budget
     \/ /\ file[Head(area)].eof >= area
        /\ Goto(p, "invalidate")
        /\ UNCHANGED <<store, budget>>
     \/ RecoverFails(p)
  /\ UNCHANGED <<locks, txn, goal, area, todo>>

Invalidate(p) ==
  /\ pc[p] = "invalidate"
  /\ \/ /\ Put1(Head(area), [file[Head(area)] EXCEPT !.magic = "invalid"])
        /\ Goto(p, "invalidatesync")
        /\ UNCHANGED budget
     \/ RecoverFails(p)
  /\ UNCHANGED <<locks, txn, goal, area, todo>>

InvalidateSync(p) ==
  /\ pc[p] = "invalidatesync"
  /\ \/ Sync /\ Goto(p, "recovered") /\ UNCHANGED budget
     \/ RecoverFails(p)
  /\ UNCHANGED <<locks, txn, goal, area, todo>>

\* What the caller of the recovery does next.
AfterRecovery(g) ==
  CASE g = "open" -> "ready" [] g = "read" -> "relock"
    [] g = "start" -> "restart" [] g = "startall" -> "starting"

\* ntdb_lock_and_recover drops its locks; inside a commit that fails there
\* is the transaction to cancel, however the recovery went.
Recovered(p) ==
  /\ pc[p] \in {"recovered", "failed"}
  /\ \/ /\ goal[p] = "abort"
        /\ GoFor(p, CancelPc(txn.magic), "none")
        /\ UNCHANGED <<locks, txn, area, todo>>
     \/ /\ goal[p] # "abort" /\ pc[p] = "recovered"
        /\ wr' = NULL /\ olock' = NULL /\ area' = 0 /\ todo' = {}
        /\ GoFor(p, AfterRecovery(goal[p]), "none")
        /\ UNCHANGED <<tlock, rd, txn>>
     \/ /\ goal[p] # "abort" /\ pc[p] = "failed"
        /\ Unlock(p)
        /\ GoFor(p, IF goal[p] = "open" THEN "closed" ELSE "ready", "none")
  /\ UNCHANGED <<store, budget>>
-----------------------------------------------------------------------------
(* The end of a process, and of all of them *)

Gone(p) ==
  /\ Unlock(p)
  /\ GoFor(p, "closed", "none")
  /\ UNCHANGED store

\* ntdb_close, after the transaction, if any, is cancelled.
Close(p) ==
  /\ pc[p] = "ready"
  /\ Gone(p)
  /\ UNCHANGED budget

\* Death: the kernel drops the locks, nothing else happens.  So does
\* ntdb_close inside a nested transaction, which it cancels only once.
Die(p) ==
  /\ pc[p] # "closed" /\ budget.death > 0
  /\ budget' = [budget EXCEPT !.death = @ - 1]
  /\ Gone(p)

Crash ==
  /\ budget.crash > 0
  /\ budget' = [budget EXCEPT !.crash = @ - 1]
  /\ \E f \in Images : file' = f
  /\ disk' = [c \in Cell |-> {file'[c]}]
  /\ tlock' = NULL /\ olock' = NULL /\ rd' = {} /\ wr' = NULL
  /\ txn' = NoTxn /\ area' = 0 /\ todo' = {}
  /\ pc' = [p \in Proc |-> "closed"]
  /\ goal' = [p \in Proc |-> "none"]

\* What ntdb_new_database puts in a page.
Blank == CHOOSE v \in Values : TRUE

Init ==
  /\ file = [c \in Cell |->
       CASE c[1] = "data" -> Blank
         [] c[1] = "head" -> Fill
         [] c[1] = "body" -> Torn
         [] OTHER -> 0]
  /\ disk = [c \in Cell |-> {file[c]}]
  /\ tlock = NULL /\ olock = NULL /\ rd = {} /\ wr = NULL
  /\ txn = NoTxn /\ area = 0 /\ todo = {}
  /\ pc = [p \in Proc |-> "closed"]
  /\ goal = [p \in Proc |-> "none"]
  /\ budget \in Budgets

Calls(p) ==
  \/ Open(p) \/ LockHash(p) \/ UnlockHash(p) \/ Start(p)
  \/ \E pg \in Page, v \in Values : Write(p, pg, v)
  \/ NestedStart(p) \/ Cancel(p) \/ Prepare(p) \/ Commit(p) \/ Close(p)

Steps(p) ==
  \/ OpenCheck(p) \/ RelockHash(p) \/ Restart(p) \/ LockAllRead(p)
  \/ Upgrade(p) \/ LockOpen(p) \/ SetupNull(p) \/ Setup(p) \/ Expand(p)
  \/ Point(p) \/ Record(p) \/ Sync1(p) \/ Mark(p) \/ Sync2(p)
  \/ CommitWrite(p) \/ CommitSync(p) \/ Unmark(p) \/ UnmarkSync(p) \/ Release(p)
  \/ LockAll(p) \/ RecoverLockOpen(p) \/ Check(p) \/ Restore(p) \/ RestoreSync(p)
  \/ Unpoint(p) \/ Invalidate(p) \/ InvalidateSync(p) \/ Recovered(p)

Next == (\E p \in Proc : Calls(p) \/ Steps(p) \/ Die(p)) \/ Crash

Spec == Init /\ [][Next]_vars
-----------------------------------------------------------------------------
(* Properties *)

PcLabel ==
  {"closed", "opening", "ready", "reading", "relock", "starting", "restart",
   "txn", "upgrade", "lockopen", "setup", "expand", "point", "record", "sync1",
   "mark", "sync2", "write", "unmark", "unmarksync", "release",
   "lockall", "rlockopen", "check", "restore", "unpoint", "invalidate",
   "invalidatesync", "recovered", "failed"}

Goal == {"none", "open", "read", "start", "startall", "prepare", "commit",
         "abort", "committed", "logged"}

HeadRecord == [magic : {"fill", "free", "valid", "invalid"}, cap : Nat, eof : Nat]

\* A value of the kind that a cell holds; a body may have lost sectors, but
\* only pages and records are saved in it.
Typed(c, v) ==
  /\ c \in HeaderCell => v \in 0 .. NAreas
  /\ c \in HeadCell => v \in HeadRecord
  /\ c \in BodyCell =>
       /\ DOMAIN v \subseteq DataCell \cup HeadCell
       /\ \A d \in DOMAIN v \cap HeadCell : v[d] \in HeadRecord

FileTyped == \A c \in Cell : file[c] \in disk[c] /\ \A v \in disk[c] : Typed(c, v)

TxnTyped(t) ==
  /\ t.nesting \in Nat
  /\ t.error \in BOOLEAN /\ t.prepared \in BOOLEAN /\ t.null \in BOOLEAN
  /\ DOMAIN t.blocks \subseteq DataCell \cup HeadCell
  /\ \A c \in DOMAIN t.blocks : Typed(c, t.blocks[c])
  /\ t.recovery \in 0 .. NAreas /\ t.magic \in 0 .. NAreas /\ t.eof \in 0 .. NAreas

\* The type invariant: locks, transaction, processes, the cells of the file
\* and what a crash may leave in them hold what their declarations in
\* lock.c, transaction.c and private.h say.
TypeOK ==
  /\ FileTyped /\ TxnTyped(txn)
  /\ tlock \in Proc \cup {NULL} /\ olock \in Proc \cup {NULL}
  /\ rd \subseteq Proc /\ wr \in Proc \cup {NULL}
  /\ area \in 0 .. NAreas /\ todo \subseteq DataCell \cup HeadCell
  /\ pc \in [Proc -> PcLabel] /\ goal \in [Proc -> Goal]
  /\ budget \in Budget

\* The databases that a machine crash, if there is one to come, can leave
\* once they are recovered.
AfterCrash ==
  IF budget.crash = 0 THEN {Database(file)} ELSE {Database(f) : f \in Images}

\* What the open transaction wrote.
Pending == [p \in {q \in Page : Data(q) \in DOMAIN txn.blocks} |->
             txn.blocks[Data(p)]]

NtdbStore == INSTANCE NtdbStore
  WITH val <- Database(file), may <- AfterCrash, pend <- Pending

\* ntdb_transaction_commit makes all the writes of its transaction visible
\* at once, and whatever dies, fails or crashes in between, recovery
\* (transaction.c:1166) gives back the database before or after it, never
\* a part of it.  Which of the two the caller was told is not part of this.
ImplementsStore == NtdbStore!Spec

\* Readers see no changes until the commit (ntdb.h:271): a process with a
\* hash lock finds the committed database in the pages, not what a commit
\* that was cut short has overwritten.
ReadersSeeCommitted ==
  \A p \in Proc, pg \in Page :
    pc[p] = "reading" => file[Data(pg)] = Database(file)[pg]

\* The goals of a process whose commit returns NTDB_SUCCESS.
Success == {"committed", "logged"}

\* The writes of the transaction are in the database, and no crash of the
\* machine can take them back.
Durable ==
  /\ \A pg \in DOMAIN Pending : Database(file)[pg] = Pending[pg]
  /\ AfterCrash = {Database(file)}

\* When ntdb_transaction_commit returns success, all of its writes are in
\* the pages; unless it had to log that the recovery marker is still there
\* (transaction.c:502), they are in the database as well and no crash of
\* the machine can take them back (ntdb.h:304).
CommitDurable ==
  \A p \in Proc :
    pc[p] = "release" /\ goal[p] \in Success =>
      /\ \A pg \in DOMAIN Pending : file[Data(pg)] = Pending[pg]
      /\ goal[p] = "committed" => Durable

\* Success means that the changes are written and robust against a crash of
\* the machine, as ntdb.h:302-305 has it.  The code breaks this: it returns
\* NTDB_SUCCESS too when the recovery marker could not be removed, and the
\* next recovery undoes the commit (transaction.c:502-506, 1155-1157).
SuccessMeansDurable ==
  \A p \in Proc :
    pc[p] = "release" /\ goal[p] \in Success => Durable

\* While a process holds a read lock on a hash chain or, in a transaction
\* that it has not committed, on all of them, the pages stay as they are:
\* no commit and no recovery of another process runs underneath it
\* (ntdb.h:271, lock.c:255).
StableReads ==
  [][rd \cap rd' # {} => \A pg \in Page : file'[Data(pg)] = file[Data(pg)]]_vars
=============================================================================
