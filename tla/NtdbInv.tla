------------------------------ MODULE NtdbInv ------------------------------
(***************************************************************************)
(* The inductive invariants of Ntdb, in layers: what holds whatever fails  *)
(* (Safe), what holds of the file when processes die or one I/O error      *)
(* happens, or else when the machine crashes (Sound), what a crash can     *)
(* then leave (DiskInv), and what holds of the readers when only one thing *)
(* fails (Fresh).                                                          *)
(***************************************************************************)
EXTENDS Ntdb

(* Whatever fails *)

\* The file and the transaction are the functions and records that TypeOK
\* looks into.
StoreTyped ==
  /\ FileTyped
  /\ file = [c \in Cell |-> file[c]]
  /\ disk = [c \in Cell |-> disk[c]]

TxnShape(t) == DOMAIN t = {"nesting", "error", "prepared", "null", "blocks",
                           "recovery", "magic", "eof"}

Typing == TypeOK /\ StoreTyped /\ TxnShape(txn)

\* Where a process has the write lock and the open lock to commit...
Committing == {"lockopen", "setup", "expand", "point", "record", "sync1",
               "mark", "sync2", "write"}
\* ...or to recover, or may still have them.
Recovering == {"rlockopen", "check", "restore", "unpoint", "invalidate",
               "invalidatesync", "recovered", "failed"}
Unmarking == {"unmark", "unmarksync"}
InTxn == Committing \cup Unmarking \cup {"txn", "upgrade", "release"}

\* Recovery inside a transaction: of a commit that failed, or found on the
\* way into the transaction.
Nested(p) == pc[p] \in Recovering \cup {"lockall"} /\ goal[p] \in {"startall", "abort"}

\* Who has which lock, by what it is doing.
LockInv ==
  /\ wr # NULL => rd = {}
  /\ \A p \in Proc :
       /\ tlock = p <=> pc[p] \in InTxn \cup {"starting"} \/ Nested(p)
       /\ pc[p] \in Committing \cup Recovering \cup Unmarking => wr = p
       /\ wr = p => pc[p] \in InTxn \cup Recovering
       /\ p \in rd => pc[p] \in {"reading", "txn", "upgrade", "release"}
       /\ pc[p] = "reading" => p \in rd
       /\ pc[p] \in {"txn", "upgrade"} => p \in rd \/ wr = p
       /\ pc[p] \in (Committing \cup Recovering) \ {"lockopen", "rlockopen"} => olock = p
       /\ olock = p => wr = p
       /\ goal[p] = "abort" => pc[p] \in Recovering \ {"rlockopen"}
       /\ goal[p] = "committed" => pc[p] \in Unmarking \cup {"release"}
       /\ goal[p] = "logged" => pc[p] = "release"
       /\ pc[p] \in Recovering \cup {"lockall"} =>
            goal[p] \in {"open", "read", "start", "startall", "abort"}

\* The transaction starts clean, and a marked one has all the locks.
StartInv ==
  /\ tlock = NULL => txn = NoTxn
  /\ txn.magic # 0 => wr = tlock /\ olock = tlock
  /\ \A p \in Proc :
       /\ pc[p] = "starting" => txn = NoTxn
       /\ Nested(p) /\ goal[p] = "startall" => txn = NoTxn
       /\ pc[p] \in Unmarking => txn.magic # 0

\* The header that a commit writes is the one it read, the area it uses is
\* the one the header points to, and what it has written is in the pages; a
\* transaction that was committed with success has nothing left to sync,
\* if its marker could be removed.
CommitOK(p) ==
  /\ pc[p] \in Committing \cup {"txn", "upgrade"} /\ Data(1) \in DOMAIN txn.blocks =>
       txn.recovery = file[Recovery]
  /\ pc[p] \in (Committing \ {"write"}) \cup {"upgrade"} => ~txn.prepared
  /\ pc[p] = "point" => area # 0
  /\ \/ pc[p] \in {"record", "sync1", "mark", "sync2", "write"}
     \/ pc[p] = "txn" /\ txn.prepared /\ ~txn.null
     => area = file[Recovery] /\ area # 0
  /\ \/ pc[p] \in {"sync2", "write"}
     \/ pc[p] = "txn" /\ txn.prepared /\ ~txn.null
     => txn.magic = area
  /\ pc[p] = "write" =>
       /\ todo \subseteq DOMAIN txn.blocks
       /\ \A c \in (DOMAIN txn.blocks \cap DataCell) \ todo : file[c] = txn.blocks[c]
  /\ goal[p] \in Success =>
       /\ txn.magic = file[Recovery] /\ txn.magic # 0
       /\ \A c \in DOMAIN txn.blocks \cap DataCell : file[c] = txn.blocks[c]
  /\ goal[p] = "committed" =>
       /\ pc[p] \in {"unmarksync", "release"} => file[Head(txn.magic)].magic # "valid"
       /\ pc[p] = "release" => \A c \in Cell : disk[c] = {file[c]}

CommitInv == \A p \in Proc : CommitOK(p)

\* Recovery restores what the area saved.
TodoOK(p) ==
  pc[p] = "restore" => area # 0 /\ todo \subseteq DOMAIN file[Body(area)]

TodoInv == \A p \in Proc : TodoOK(p)

Safe == Typing /\ LockInv /\ StartInv /\ CommitInv /\ TodoInv
-----------------------------------------------------------------------------
(* With deaths and at most one I/O error, or with machine crashes only *)

\* Nothing that the area saved was overwritten yet, or all of it is back.
Clean(b) == \A c \in DOMAIN b : file[c] = b[c]

\* The area saved what the transaction changes.
Covered(b) ==
  /\ DOMAIN b \subseteq DOMAIN txn.blocks
  /\ \A c \in DOMAIN txn.blocks \ DOMAIN b : file[c] = txn.blocks[c]

\* All of the transaction is in the pages.
Done == \A c \in DOMAIN txn.blocks \cap DataCell : file[c] = txn.blocks[c]

\* Some process has opened the database.
Active == \E p \in Proc : pc[p] \notin {"closed", "opening"}

\* The records among these cells are of other areas of the file than r.
Elsewhere(cells, r) ==
  \A a \in Area : Head(a) \in cells => a # r /\ a <= file[Size]

\* A recovery area does not restore itself, only others of the file; it
\* lies in the file unless a crash left one that cannot be opened.
AreaInv ==
  /\ Active => Readable
  /\ NeedsRecovery(file) =>
       Elsewhere(DOMAIN file[Body(file[Recovery])], file[Recovery])

\* The old area that a transaction frees is one of the file, and another
\* one than it uses.
FreeOK(p) ==
  /\ \/ pc[p] \in {"lockopen", "setup"}
     \/ pc[p] \in {"txn", "upgrade"} /\ wr # p
     => DOMAIN txn.blocks \subseteq DataCell
  /\ pc[p] = "expand" => \A a \in Area : Head(a) \in DOMAIN txn.blocks => a <= file[Size]
  /\ pc[p] = "point" =>
       /\ area <= file[Size]
       /\ \A a \in Area : Head(a) \in DOMAIN txn.blocks => a < area
  /\ \/ pc[p] \in {"record", "sync1", "mark", "sync2", "write"}
     \/ pc[p] = "txn" /\ txn.prepared /\ ~txn.null
     => Elsewhere(DOMAIN txn.blocks, area)

FreeInv == \A p \in Proc : FreeOK(p)

\* The marker is in the file from mark until unmark, and the pages are
\* either all old or all new whenever it may be removed.
MarkOK(p) ==
  /\ \/ pc[p] \in {"lockopen", "setup", "expand", "point", "record", "sync1",
                   "mark", "unmarksync"}
     \/ pc[p] \in {"txn", "upgrade"} /\ txn.magic = 0
     => ~NeedsRecovery(file)
  /\ pc[p] = "point" => file[Head(area)].magic # "valid"
  /\ \/ pc[p] \in {"sync1", "mark", "sync2"}
     \/ pc[p] = "txn" /\ txn.prepared /\ ~txn.null
     => Clean(file[Body(area)]) /\ Covered(file[Body(area)])
  /\ \/ pc[p] \in {"sync2", "write"}
     \/ pc[p] = "txn" /\ txn.prepared /\ ~txn.null
     => file[Head(area)].magic = "valid"
  /\ pc[p] = "write" => txn.prepared /\ Covered(file[Body(area)])
  /\ pc[p] \in {"txn", "upgrade", "unmark"} /\ NeedsRecovery(file) =>
       LET b == file[Body(txn.magic)] IN
       /\ file[Recovery] = txn.magic
       /\ Clean(b) \/ (txn.prepared /\ Covered(b) /\ Done)

MarkInv == \A p \in Proc : MarkOK(p)

\* Recovery puts everything back before it removes the marker.
RestoreOK(p) ==
  /\ pc[p] \in {"restore", "unpoint"} => NeedsRecovery(file) /\ area = file[Recovery]
  /\ pc[p] = "restore" =>
       \A c \in DOMAIN file[Body(area)] \ todo : file[c] = file[Body(area)][c]
  /\ pc[p] = "unpoint" => Clean(file[Body(area)])
  /\ pc[p] = "invalidate" =>
       area # 0 /\ file[Recovery] \in {0, area} /\ Clean(file[Body(area)])
  /\ pc[p] \in {"invalidatesync", "recovered"} => ~NeedsRecovery(file)

RestoreInv == \A p \in Proc : RestoreOK(p)

\* A recovery inside a commit that failed does not fail as well.
FaultInv ==
  /\ budget.io <= 1
  /\ budget.crash = 0 \/ (budget.death = 0 /\ budget.io = 0)
  /\ \A p \in Proc : goal[p] = "abort" => budget.io = 0 /\ pc[p] # "failed"

Sound == AreaInv /\ FreeInv /\ MarkInv /\ RestoreInv /\ FaultInv
-----------------------------------------------------------------------------
(* What a machine crash can leave *)

\* Where the holder of the write lock has written what is not yet synced.
Dirty == {"point", "record", "sync1", "sync2", "write", "unmarksync", "restore",
          "invalidate", "invalidatesync"}

Synced(cells) == \A c \in cells : disk[c] = {file[c]}

\* No crash leaves the marker of a recovery area.
NoMark == \A r \in disk[Recovery] \cap Area : \A h \in disk[Head(r)] : h.magic # "valid"

\* The pages are not overwritten before a crash leaves the marker with all
\* that was saved, and the marker is not removed before the pages are safe.
DiskOK(p) ==
  /\ pc[p] \in {"point", "record", "sync1"} => Synced(DataCell) /\ NoMark
  /\ pc[p] = "point" => \A h \in disk[Head(area)] : h.magic # "valid"
  /\ pc[p] = "sync2" => Synced(Cell \ {Head(area)})
  /\ pc[p] \in {"write", "restore"} => Synced(Cell \ DOMAIN file[Body(area)])
  /\ pc[p] = "unmarksync" =>
       /\ Synced(Cell \ {Head(txn.magic)})
       /\ \/ \A h \in disk[Head(txn.magic)] : h.magic # "valid"
          \/ Elsewhere(DOMAIN file[Body(txn.magic)], txn.magic)
          \/ file[Recovery] # txn.magic
  /\ pc[p] \in {"invalidate", "invalidatesync"} =>
       /\ Synced(Cell \ {Recovery, Head(area)})
       /\ disk[Recovery] \subseteq {0, area}
       /\ Clean(file[Body(area)])
       /\ Elsewhere(DOMAIN file[Body(area)], area)

\* There is no marker past the end of the file.
EndOK ==
  \A s \in disk[Size], a \in Area : s < a => \A h \in disk[Head(a)] : h.magic # "valid"

DiskInv ==
  budget.crash > 0 =>
    /\ EndOK
    /\ wr = NULL \/ pc[wr] \notin Dirty => Synced(Cell)
    /\ \A p \in Proc : DiskOK(p)
-----------------------------------------------------------------------------
(* With at most one death or I/O error *)

Spent == budget.death + budget.io = 0

\* A marker without a commit or a recovery that will remove it is the one
\* failure, and whoever found it once does not meet another.
Fresh ==
  /\ budget.death + budget.io <= 1
  /\ NeedsRecovery(file) /\ wr = NULL => Spent
  /\ \A p \in Proc :
       /\ pc[p] = "release" /\ wr = p /\ NeedsRecovery(file) => Spent
       /\ pc[p] \in {"failed", "relock"} \/ goal[p] = "read" => Spent
       /\ pc[p] = "relock" =>
            /\ wr = NULL => ~NeedsRecovery(file)
            /\ \A q \in Proc :
                 /\ pc[q] # "failed"
                 /\ pc[q] = "release" /\ wr = q => ~NeedsRecovery(file)
       /\ pc[p] = "reading" => ~NeedsRecovery(file)
=============================================================================
