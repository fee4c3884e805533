# TLA+ models of ccan

ccan is an archive of some 140 small C modules. Most of them are sequential
data structures, macros or codecs that unit tests reach. This directory models
the code whose correctness depends on the *order* in which things happen, or on
invariants that only long sequences of calls can break:

* `ccan/io`, the asynchronous I/O library: an event loop and the callbacks it
  is at the mercy of;
* `ccan/timer`, the timer wheel that its loop drives;
* `ccan/tal`, the hierarchical allocator under it, whose destructors call back
  into it while a tree is being freed;
* `ccan/htable`, a hash table that hides metadata in the bits its pointers
  have in common;
* ntdb (`junkcode/rusty@rustcorp.com.au-ntdb`), the largest concurrent program
  of the repository: processes that share a database file, with transactions
  that survive deaths and machine crashes.

They are checked with TLC. Every safety property of the five is also proved
with TLAPS, for instances of any size, together with the refinements: of ntdb's
transactions down to what a machine crash can leave on the disk, of the timer
wheel, and of the hash table up to the two defects found in it.

## 1. Inventory

### ccan/io (`io.c`, `poll.c`, `backend.h`)

*State.* A global poll table (`fds`, `pollfds`, parallel arrays; every
object's `backend_info` is its index), a global array `always` of plans whose
next callback is due, the counters `num_waiting`, `num_exclusive`,
`fairness_counter`, the break request `io_loop_return`; per connection two
plans (IO_IN, IO_OUT) with a status, the exclusive flags and a finish callback.

*Operations.* `io_new_conn`, `io_new_listener`, `io_close*`,
`io_close_listener`, `io_set_finish`; plans: `io_read/io_write` and variants,
`io_connect`, `io_always`, `io_wait`, `io_duplex`, `io_halfclose`,
`io_sock_shutdown`; `io_wake`, `io_conn_exclusive`, `io_break`,
`io_flush_sync`; and `io_loop`, with `io_ready`/`do_plan`/`next_plan` and
`handle_always` behind it.

*Interaction.* One thread, but control alternates between the loop and the
application's callbacks, and these nest: a callback that closes another
connection runs its finish callback, which may create a connection, whose init
callback runs at once. All of this happens while `io_loop` is half way
through a rotation over the table, holding indices, counts and events that
callbacks invalidate. A signal handler may call `io_break` at any point.

*Correct means:* table, objects and counters agree; the always array agrees
with the plans; poll is asked for exactly what the plans wait for; a reported
event is never applied to a plan it was not reported for; a freed connection
is not touched; no ready descriptor and no woken waiter starves; `io_loop`
returns after `io_break`.

### ccan/timer (`timer.c`)

*State.* `base`, the current time in grains; lazily allocated levels of
`PER_LEVEL` buckets; the far list; cached minima `first` and `firsts[]` that
`timer_del` does not maintain. *Operations.* add, delete, earliest, expire;
expiring cascades buckets downwards, allocates levels and retries when the
first timer turns out to be deleted. *Correct means:* it is a set of timers
from which due ones are taken earliest first.

### ccan/tal (`tal.c`)

*State.* For each object a parent, a list of children, a list of properties
(destructors, notifiers, a name) and a destroying bit; a global count of
notifiers. *Operations.* allocate, steal, resize, free, add and delete
destructors and notifiers. *Interaction.* `del_tree` calls destructors in the
middle of tearing down a tree; these may allocate, steal, resize and free in
the same tree, and free again what is being freed. *Correct means:* the live
objects form a tree, whatever a destructor does; `del_tree` and `notify` never
go on with something freed under them; a destructor runs exactly once;
`tal_free` ends.

### ccan/htable (`htable.c`)

*State.* A table of words, each a pointer without the bits all pointers share
(`common_mask`, `common_bits`) and with bits of its hash in their place, among
them the perfect bit ("in its own bucket"); counts of elements and of deletion
markers. *Operations.* add, delete, iterate, clear, copy; adding may clean
markers (`rehash_table`), double the table, or shrink the common mask and
re-encode every word. *Correct means:* it is a bag of pointers; every element
is found by its hash; there is always an empty bucket for a search to stop at;
deleting does not disturb an iteration.

### ntdb (`transaction.c`, `lock.c`, `open.c`)

*State.* The shared file: pages, the header's pointer to a recovery area, and
recovery areas with a magic, a capacity, the old size and saved contents; what
of it is on the disk; fcntl locks (transaction, open, hash chains); for each
process its transaction: written blocks, nesting, prepared, error.
*Operations.* open, close, read locks; start, nested start, write, prepare,
commit, cancel; recovery, by whoever first finds a valid magic.
*Hard:* processes interleave at every lock, write and sync; any of them may
die between two of these; the machine may crash and keep any subset of the
unsynced writes; recovery may be cut short itself; writes and syncs may fail.
*Correct means:* a commit is atomic and, once it has returned, durable; a
reader sees committed data that stays as it is while it holds its lock.

### The rest

`membuf`/`rbuf`, `pipecmd`, `lbalance` and `antithread` have behaviour worth a
model. The other modules (lists and trees, maps, graphs, codecs, crypto, text,
arithmetic, macros, tools) are sequential or pure; `PROJECT.json` lists them
with the reason for leaving each group out. The models cover a few thousand of
the repository's hundred thousand lines: most of those are protocol and codec
libraries, generated code, test support and small pure functions.

The hazards of the modelled code, with the properties aimed at each, are in
`PROJECT.json` under `hazards`.

## 2. Modules

| module | what it is |
|---|---|
| `CArray` | the unordered C arrays of `poll.c`: delete by moving the last element |
| `IoLoop` | the event loop: poll table, plans, callbacks, `io_loop`; an arbitrary client |
| `IoLoopInv` | the inductive invariants `IInv` and `CountInv` |
| `IoFlush` | `IoLoop` plus `io_flush_sync` |
| `IoRoles` | `IoLoop` with clients that do one thing for ever, and fairness |
| `IoLoopProofs` | proofs of the poll table, the plans, the callbacks and the counters |
| `TimerSet` | what ccan/timer promises: a set of timers |
| `TimerWheel` | what it does: levels, buckets, cascading, cached minima |
| `TimerWheelInv` | its inductive invariant `IInv` |
| `TimerWheelProofs` | proofs of the placement of timers and of the refinement of `TimerSet` |
| `NumProofs` | least numbers, induction, recursion and loops on intervals |
| `Tal` | the tree of objects, with del_tree as steps between which callbacks run |
| `TalInv` | its inductive invariant `IInv` |
| `TalProofs` | proofs of the tree, of destructors and of the count of notifiers |
| `HtableBag` | what htable promises: a bag of pointers |
| `Htable` | what it does: probing, markers, the perfect bit, the common mask |
| `HtableInv` | its inductive invariant `IInv`, and its steps as steps of a bag |
| `HtableProofs` | proofs of the invariant, of lookup and of the refinement of `HtableBag` |
| `NtdbStore` | what transactions promise: a store that changes atomically and durably |
| `Ntdb` | what they do: locks, recovery areas, syncs, deaths, crashes, recovery |
| `NtdbInv` | its inductive invariants `Safe`, `Sound`, `DiskInv` and `Fresh` |
| `NtdbProofs` | proofs about locks, types and durability, whatever fails |
| `NtdbSoundProofs` | proofs about markers, saved contents and the disk |
| `NtdbStoreProofs` | the refinement of `NtdbStore`, and what readers see |
| `MC...` | small instances (`Tal` and `IoFlush` need none of their own) |

Three of the components are shown to implement an abstract specification:
`TimerWheel` implements `TimerSet` (`ImplementsTimerSet`),
`Htable` implements `HtableBag` (`ImplementsBag`), `Ntdb` implements
`NtdbStore` (`ImplementsStore`).

### How IoLoop corresponds to the code

Variables have the names of the C variables. `pc` says where `io_loop` or
`io_ready` is while no callback runs (`top`: the head of the `while`; `poll`:
about to call poll; `dispatch`: the head of the rotation's `for`; `in`, `out`:
about to call `do_plan` on that direction), and `stack` holds the callbacks in
progress, innermost first. While the stack is not empty, or in `main()`, the
client takes steps; otherwise the loop does. A C function that calls a
callback is two actions: everything up to the call (`NextPlan`, in `IoDone`,
`RunAlways`, `NewConn`) and everything after it (`Return`, `ReturnFreed`).
What a frame's C locals still refer to after the callback is exactly what the
actions read. `freed` on a frame stands for the obligation to return
`&io_conn_freed` when the callback's connection was closed under it.

`mem` is tal's view of an object; `dying` is the time of the finish callback.
A pollfd's `fd` is negated exactly when `events` is 0 (`setup_pfd`), so it is
not modelled. `exclude_pollfds`/`restore_pollfds` bracket poll and cancel out,
so they appear as what poll is asked (`Polled`). `SwapRemove` is the move of
`del_fd`, `remove_from_always` and `handle_always`.

poll, and the descriptors behind it, are external: poll may answer any subset
of what it was asked, or an error, and transfers may end in any of the ways
`do_plan` distinguishes. `AlwaysReady` plans are always reported.

The client may do anything the API allows: plan a direction only if it has no
plan and only for the connection whose callback runs, return from a callback
with at least one plan set (`next_plan` asserts it). `app` is the set of
optional features that the client of a behaviour uses, one of `Apps`; it only
removes steps. The theorems hold for every `Apps`. `fairness_counter` is kept
modulo `FairMod`, where the code increments an int without end.

### How TimerWheel corresponds to the code

`timers` is a struct timers, with `where[t]` the list that `t` is on; `Far` is
the far list, and `firsts[Levels]` its watermark, as in the C array. Lists are
sets: order would only matter within a bucket of level 0, and there every
choice is taken. One call of `timers_expire` is `ExpireCall` and one step per
turn of its `do ... while`. `clock` and `ret` record arguments and results for
the refinement; `time[t]` is set to 0 when `t` leaves its list, where nothing
reads it, to save states. Subtraction in `level_of` is modulo the word size,
scaled to `2^(LevelBits * Levels)`.

### How Tal corresponds to the code

`stack` holds the calls of `tal_free` and `del_tree` under way, innermost
first: their object and where they are (`told`: a notifier of the parent is told
of the child, before it is unlinked; `notify` looks for the next free notifier;
`call`: one of them runs; `children`: in the loop over the list). While the
innermost one is at `told` or `call`, or the stack is empty, the application may
make any call, about any object that is still allocated, those being destroyed
included. Every step of `del_tree` between two callbacks is an action. `at` is
the property whose `next` pointer `notify` reads when the callback returns. It
may be gone: a notifier, unlike a destructor, is not forgotten before it is
called, and may delete itself. The frame is then `wild`, and the behaviour ends,
since nothing can be said of what the code does next. The same happens when
whoever is told of a child frees or resizes it. Objects and properties are
never reused, so that a use after free shows. `tal_resize_` is modelled when it
moves the object, which becomes a new one with the same list, properties and
children.

The application keeps to two rules that the code does not check and needs: it
does not steal or resize an object that is being destroyed (it would be freed
while still linked), and does not make an object its own ancestor. Notifiers are
of the end (`"free"`), of the loss of a child (`"del_child"`), or of both.
Callbacks for the other events are left out: those of `tal_alloc_`, `tal_steal_`
and `tal_resize_` are at the end of the call, where whatever they do is a
further call; those for `TAL_NOTIFY_ADD_NOTIFIER` and `TAL_NOTIFY_DEL_NOTIFIER`
come before the count is changed, and a callback that adds or deletes notifiers
there is not modelled.

### How Htable corresponds to the code

A word is the set of its bits, `W` of them, so that the masks of the code are
set operations and nothing is lost in translation. The struct is a record, the
static functions are operators on it with the names of the code, and each
public call is one action (the table belongs to one thread). Loops over
buckets are recursive functions. `ret` is what the last call returned; `wild`
and `assert` stand for a call that never returned, because a pointer was
decoded that nobody added or an assertion failed.

### How Ntdb corresponds to the code

The file is a function from cells to values: each page, the header field
`recovery`, the size, and for each recovery area a head (magic, `max_len`,
`eof`) and a body (the saved old contents). `file` is what all processes see
(the page cache); `disk[c]` is the set of values that a crash may leave in
cell `c`. A write adds a value to it, and possibly a torn one; a sync leaves
one. A crash picks any combination (`Images`) and takes all processes down. A
death takes one process down with its locks and leaves the file alone.

Each process has a `pc`; every write, sync and blocking lock is an action of
its own, with the steps of the code between two of these folded in. `goal`
remembers which caller a shared piece of code returns to: `prepare_commit`
called by the application or by `commit`, the recovery called by open, by a
lock, by a start, or by a commit that fails. It also tells what a commit
returns: success, with the marker removed (`committed`) or with nothing but a
message in the log that it could not be (`logged`). `txn` is the transaction of the
holder of the transaction lock. `txn.recovery` is the copy of the header field
in the block that holds page 1, which goes stale when the header is written
directly; `transaction_write_existing` is what keeps it in step.

The contents of pages are abstract values: hash chains and free lists are data
to transactions. Freeing an old recovery area is a write of the transaction
over its head.

## 3. Runs

| run | checks | instance |
|---|---|---|
| `IoLoop_core` | `AlwaysList WaitingCount EventsMatch DoPlanAssert ReventsFresh NoDeafSleep IInv ExclusiveCount BreakBound` | 2 connections, both directions, 2 nested callbacks; per behaviour wait/wake, EPIPE, errors and finish, or exclusive flags and timers, or timers, signals and break |
| `IoLoop_table` | `TypeOK PollTable PendingCount` | 2 connections and a listener: a table of 3 that changes under the rotation |
| `IoRoles` | `FdServed BreakReturns AllServed WakeServed` | two busy readers (one breaks) next to a connection that re-arms `io_always` for ever; or a busy reader that wakes two waiters |
| `TimerWheel` | `TypeOK TimersCheck IInv ImplementsTimerSet RetryAdvances` | 2 timers, 3 levels of 2 buckets, times 0..6 |
| `Tal` | `TypeOK TreeOK FramesLive DestructorsOnce NotifiersCounted IInv FreeEnds` | 3 objects, 2 notifiers or destructors, 2 nested `tal_free` |
| `Htable` | `TypeOK HtableCheck RoomToProbe IInv ImplementsBag IterationSafe` | 3 pointers of 6 bits, 4 elements, tables of up to 8 buckets, two hash functions |
| `Ntdb` | `TypeOK ReadersSeeCommitted CommitDurable ImplementsStore StableReads` | 2 processes, 2 pages, 2 recovery areas; per behaviour a death, one or two crashes, or an I/O error |
| `IoFlush_doc` | violates `DoPlanAssert` | 2 connections |
| `Ntdb_race_doc` | violates `ReadersSeeCommitted` | two deaths |
| `Ntdb_abort_doc` | violates `ImplementsStore` | one process, two I/O errors |
| `Ntdb_unmark_doc` | violates `SuccessMeansDurable` | one process, one I/O error |
| `Htable_double_doc` | violates `NoWildPointer` | 3 pointers to objects of 8 bytes, hashes 2, 3 and 10 |

The five violations are defects, where the code does not do what its
documentation or assertions say; `PROJECT.json` quotes the lines under
`findings`.

* `io_flush_sync` leaves POLLOUT in the poll table, and the assertion in
  `do_plan` fails when poll reports it.
* `ntdb_nest_lock` takes its lock again after a recovery without looking for
  the magic again; `ntdb_allrecord_lock` does look again.
* `ntdb_transaction_commit` ignores that its recovery in place failed, and the
  cancel then removes the magic that would have let the next process recover.
* `ntdb_transaction_commit` returns success also when the last step, removing
  the recovery marker, failed: with the marker in the file the next process
  undoes the commit. `CommitDurable` is what the code guarantees.
* `double_table` decodes old entries with a mask that has changed since.

*Divergences without a run.* Smaller disagreements, met while modelling:

* io.h:765 says that no non-exclusive connection is serviced while one is
  exclusive; a callback that sets the flag half way through a rotation does
  not stop the others of that rotation (poll.c:435).
* io.h:601 says that `io_loop` returns as soon as the function that called
  `io_break` does; `io_ready` keeps going with the same connection first
  (io.c:446). `BreakBound` is what the code guarantees.
* io.h:585 says that woken connections move on to their next callback;
  `handle_always` takes the newest request first, so a connection that re-arms
  `io_always` for ever starves them. `WakeServed` is checked without one.
* ntdb.h:280 says that the final commit fails after a nested cancel; it does
  not if the transaction was prepared before (transaction.c:1084).
* ntdb.h:293 says that a cancel discards the changes. A commit whose last sync
  of the data failed returns an error with the transaction still open and every
  page written; the cancel that has to follow removes the marker, and so
  installs the changes (transaction.c:1131).
* transaction.c:81-85 promises that opening recovers "with no administrator
  intervention". The header's pointer to a new recovery area and the file's new
  size are written without a sync in between; a crash that keeps the pointer
  and loses the size leaves a database that no open can read, the branch
  `~Readable` of `OpenCheck`.
* htable.c:279 asserts that the table is not empty; it fails when the perfect
  bit was lost, all elements were deleted, and the next pointer added is 0 in
  all bits outside of the mask and has a hash without bits inside: `AddTo` has
  the outcome (`assert`), and the hashes of the runs avoid it.
* htable.h:70 says that a table is usable after `htable_init_sized` failed; it
  has `bits` of 1 or more and one word of memory (htable.c:114).
* tal.h:253 says of a TAL_NOTIFY_FREE notifier that it "is exactly equivalent to
  a destructor", and tal.h:175 allows a destructor to delete itself in its own
  call. A notifier that does so is freed, and `notify` then reads its `next`
  pointer (tal.c:228). In the model its frame goes wild (`Return`).
* Whoever is told of a child by TAL_NOTIFY_DEL_CHILD runs before the child is
  unlinked. If it frees or resizes the child, or deletes itself, `tal_free` goes
  on with freed memory (tal.c:531, tal.c:228), about which tal.h says nothing
  (`ReturnTold`).
* tal.h:277 says that adding a destructor calls `TAL_NOTIFY_ADD_NOTIFIER`;
  `tal_add_destructor_` does not (tal.c:564).

*Bounds.* Two connections suffice for one callback to disturb the entry, plan
or flag of another, and three table entries (`IoLoop_table`) for an entry that
is neither the closed one nor the moved one; the proofs cover every size.
`MaxDepth` 2 gives a finish or init callback inside a callback. Each
behaviour's client keeps to one of the sets of features in `Apps`; that other
mixes break nothing is proved, not checked. `FairMod` is a
common multiple of the possible table sizes, so `fairness_counter % num_fds`
is exact. Times 0..6 on levels of two buckets make `base` wrap on
every level but the top, with timers on every level and on the far list.

In `Tal`, three objects give a chain of two under an object that survives, and
`MaxDepth` 2 a `tal_free` in a destructor; two properties give a list in which
one deletes or follows the other, or two lists. The proofs cover every size.
The client may simply stop, so deadlock is not checked. In
`Htable`, six bits leave room for a bit that all pointers share, the perfect
bit, and two in which they differ; tables of 1, 2, 4 and 8 buckets are cleaned
and doubled, and the hashes wrap round the end and clash. In `Ntdb`, two pages
make a commit that can be cut in half, and the header is in one of them; two
areas allow the first to be outgrown and freed; three transactions in a row
reuse an area after each outcome of a crash. Failures of different kinds do
not mix in one behaviour, and `budget` names how many of each may happen: the
violation runs show what a second one can do.

*Fairness* (`IoRoles`). The program is one thread: it takes a step whenever
one is possible (weak fairness of `Setup \/ Callbacks \/ Loop`). poll returns
when its timeout is 0 or a descriptor it looks at is ready (weak fairness of
`Poll` when `Prompt`); nothing is assumed when it may block. Reading ends in
EAGAIN at last, since kernel buffers are finite (strong fairness of
`IoAgain`): without it `io_ready` stays with one connection for ever, which is
what the code does (`KEEP_GOING`). In `Tal` the same thread runs `del_tree` on
and callbacks return (weak fairness of `Return \/ ReturnTold \/ DelTree`). `Ntdb` and `Htable` state no liveness: a process may always stop.

What the liveness runs show about the code: `FdServed` excludes entry 0 of the
table, because `handle_always` cuts in ahead of it and ends the rotation;
while some always request is pending on every turn, entry 0 is never served.
`WakeServed` holds among waiters only.

## 4. Proofs

`IoLoopProofs` proves, for every `Conn`, `Listener`, `WaitAddr`, `Apps`,
`FairMod`, `MaxDepth` and `AlwaysReady`, from the named assumptions of
`IoLoop` (finite, disjoint sets; positive bounds):

| theorem | states |
|---|---|
| `Inductive` | `Spec => []IInv` |
| `TypeCorrect` | `Spec => []TypeOK` |
| `PollTableCorrect` | `Spec => []PollTable` |
| `AlwaysCorrect` | `Spec => []AlwaysList` |
| `EventsCorrect` | `Spec => []EventsMatch` |
| `DoPlanCorrect` | `Spec => []DoPlanAssert` |
| `ReventsCorrect` | `Spec => []ReventsFresh` |
| `WaitingCorrect` | `Spec => []WaitingCount` |
| `ExclusiveCorrect` | `Spec => []ExclusiveCount` |
| `PendingCorrect` | `Spec => []PendingCount` |
| `SleepCorrect` | `Spec => []NoDeafSleep` |
| `BreakCorrect` | `Spec => BreakBound` |

*The argument.* None of the properties is inductive by itself. `DoPlanAssert`
speaks of the moment before `do_plan`; for it to hold when a callback returns
in the middle of `io_ready`, one has to know of the connection being served,
while any number of nested callbacks run, that it is alive unless its frame
says freed, that its events are out of the table, and that its write plan still
polls if a write is to be tried (`Service`, `CurOK`). That needs callbacks and
memory to agree: at most one live callback per connection, finish callbacks
only for dying ones (`FramesOK`), and no plans for dead connections
(`PlansLive`). `ReventsFresh` exempts connections in a callback; the inductive
form `ReventsWanted` does not. `IInv` is the conjunction; TLC checks it first
(`IoLoop_core`).

The proof has one lemma per conjunct (`TypeStep`, `PollTableStep`,
`FramesStep`, `PlansStep`, `AlwaysStep`, `EventsStep`, `WantedStep`,
`ServiceStep`), each by cases on the actions. The first lemmas are what
`SwapRemove` does to an array without duplicates. `EventsStep` and
`WantedStep` share one lemma (`TouchedStep`) that says what any step but poll
may do to a connection's entry.

The counters are inductive once `IInv` is known: `CountInv`
is `WaitingCount`, `ExclusiveCount`, `PendingCount` and `PollAwake`, which says
that nothing runs between io_loop's assertion and `poll`. The work is in
counting. `Hits(s, T)` is the set of indices of an array whose elements are in
`T`; four lemmas say how its size changes when an element is appended, changed
or deleted by `SwapRemove`. The last one needs no bijection: deleting is
changing one element and dropping the last. `StepKinds` sorts all steps into
eight kinds by what they do to the table, and for each kind the change of
`num_waiting` and `r` is compared with the change of the size. `r` may be too
high, never too low: an entry that a callback deletes before its turn is not
subtracted. `NoDeafSleep` follows from `WaitingCount` and `PollAwake`.
`BreakBound` follows from `IInv` alone: with `io_loop_return` set only
`IoDone` and `IoFail` call anything, and they call `cur`.

### Ntdb

Proved for every `Proc`, `NPages`, `NAreas`, `Values` and `Budgets`, from the
assumption that these have their types:

| theorem | states | failures |
|---|---|---|
| `Inductive` | `Spec => []Safe` | any |
| `TypeCorrect` | `Spec => []TypeOK` | any |
| `DurableCorrect` | `Spec => []CommitDurable` | any |
| `StableCorrect` | `Spec => StableReads` | any |
| `SoundCorrect` | `Spec => [](Sound /\ DiskInv)` | `OneSort` |
| `StoreCorrect` | `Spec => ImplementsStore` | `OneSort` |
| `ReadersCorrect` | `Spec => []ReadersSeeCommitted` | `OneFailure` |

`OneSort`: in a behaviour there are any number of deaths and at most one I/O
error, or any number of machine crashes. `OneFailure`: one death, or one I/O
error, or any number of machine crashes. The budgets of the run `Ntdb` satisfy
both. These limits are needed, and say what the code survives:

* for `CommitDurable` no failure is excluded, but its second half speaks of
  commits whose marker could be removed; one I/O error there takes back a
  commit that returned success (`Ntdb_unmark_doc`);
* a second I/O error, in the recovery inside a commit, breaks the refinement
  (`Ntdb_abort_doc`), and a second death breaks `ReadersSeeCommitted`
  (`Ntdb_race_doc`);
* a death and a machine crash together can lose data: if a process dies
  between removing the marker and syncing that, the next transaction writes
  its saved contents into the same area while the disk may still hold the
  marker, and a crash can keep the marker over a half-written body. `DiskInv`
  has no such state only because failures of two sorts do not mix.

*The argument* has four layers, each an inductive invariant relative to the
ones before.

1. `Safe` (`NtdbProofs`): types; who may hold which lock at which `pc`
   (`LockInv`: a writer of pages has the write lock, so has no readers next to
   it: `StableReads`); what a transaction holds at each `pc`; and at the end of
   a commit, that its blocks are in the file, and on the disk if the marker
   could be removed (`CommitInv`, from which `CommitDurable` follows).
2. `Sound`: what is in the file. The areas of the active database lie in the
   file and none restores itself (`AreaInv`), the old area that a transaction
   frees is one of the file and another than the one it uses (`FreeInv`), a
   marker covers a complete copy of the old contents of every page that the
   commit overwrites (`MarkInv`), and a recovery under way has restored all
   but its `todo` (`RestoreInv`). `FaultInv` keeps track of the failures left.
3. `DiskInv`: what may be on the disk. Away from the writes of the holder of
   the write lock, the disk is the file (`Synced`); at each of its `pc`s the
   cells that may differ are listed (`DiskOK`), so that every image a crash can
   leave is again a file that satisfies `Sound`.
4. `Fresh`: a marker that nobody is about to remove is the one failure; a
   process that waited for a recovery does not meet a second one.

The refinement maps the state to the database as the next reader will find it,
the one a crash would leave, and the pages a transaction wrote (`Database`,
`AfterCrash`, `Pending`). `AfterCrash` is defined through the set of all
images; `MayLemma` replaces that by a formula on `pc`: outside of the few steps
about the removal of the marker a crash leaves what is there. `UnmarkOnly` and
`StoreStep` then show, action by action, that a step changes nothing the store
can see or is the commit. `StoreCrash` does the same for a crash.

### Tal

Proved for every `MaxObj`, `MaxProp`, `MaxDepth` and `Fn`, from the
assumption that these have their types and that no function is the null
pointer:

| theorem | states |
|---|---|
| `Inductive` | `Spec => []IInv` |
| `TypeCorrect` | `Spec => []TypeOK` |
| `TreeCorrect` | `Spec => []TreeOK` |
| `FramesCorrect` | `Spec => []FramesLive` |
| `DestructorsCorrect` | `Spec => []DestructorsOnce` |
| `NotifiersCorrect` | `Spec => []NotifiersCounted` |

*The argument.*

* The tree. That an object is not below itself is a statement about paths and
  would need induction over their length. `NoCycle` says the same without
  paths: in every set of objects there is one whose parent is outside of it.
  Each action preserves it by mapping a set after the step to one before:
  `TalResize` puts the old address back for the new one; `TalSteal` takes the
  object and all that is below it out of the set, which its new parent is not
  in (`Within`). With `Lists` (parent pointers and lists of
  children agree) it gives `TreeOK` (`TreeLemma`). `NoCycle` also speaks of
  objects that are being destroyed, whose parent may be freed already, so a
  freed number must not come back as somebody's parent (`Known`).
* The loops under way. `Frames` adds to `FramesLive` what keeps it true: while
  the application runs, no `del_tree` is between two callbacks, so that one
  that has a next pointer to read is in a callback; and a destructor that runs
  has been blotted out, so that the deletion of a property by its function
  never finds it. What `TalDelNotifier` takes away from under a callback is
  therefore never a destructor (`DelSet`), which is the exception that
  `FramesLive` names. Every step leaves a frame as it is, adds one, changes the
  innermost or takes it away (`FramesKeep`, `FramesPush`, `FramesTop`,
  `FramesTail`). Who is told of a child is no destructor either (`TellFact`).
* Destructors. `Ran` says of every list where `notify` is in it: what comes
  after `at` has not been called (`Waiting`), the others have been (`Served`).
  Adding puts a property before `at` and marks it late (`AfterCons`), deleting
  takes out one other than `at` (`AfterRemove`), and a step of `notify` moves
  `at` over properties that are not interested in the end (`AfterNextSet`).
  Of a frame whose `at` was deleted nothing is said, and nothing is needed.
  When the loop has ended all are served, which is what `FreeSelf` needs.
  `Owned` keeps the lists apart, so that one `del_tree` says nothing about the
  notifiers of another.
* The count. `Kinded` has it that a notifier is of the end, of a child, or of
  both, so the test for `TAL_NOTIFY_FREE` in `tal_del_notifier_` takes off
  exactly what `tal_add_notifier_` counted. The count can be too high (notifiers
  that go with their object are not taken off), never too low.

### TimerWheel

Proved for every `Timer`, `LevelBits`, `Levels` and `MaxTime`, from the
assumptions that there are finitely many timers, at least one level of at least
two buckets, and that every time fits the width of the wheel (the shift by 65
that the code would otherwise do is not modelled):

| theorem | states |
|---|---|
| `WheelInductive` | `Spec => []IInv` |
| `WheelTypeOK` | `Spec => []TypeOK` |
| `WheelTimersCheck` | `Spec => []TimersCheck` |
| `WheelRetryAdvances` | `Spec => RetryAdvances` |
| `WheelImplementsTimerSet` | `Spec => ImplementsTimerSet` |

*The argument.*

* `timers_check` is not inductive. Of a far timer it only asks that it is not
  before the last grain of the current turn of the first missing level. A
  timer that is exactly there could be passed by `timer_fast_forward`, which
  looks at the far list only when `base` crosses that level. `Beyond` has it in
  a later turn. `InTime` adds that `base` is never past `first`, nor past the
  clock: that is what `Ahead` and the wrap of the unsigned difference in
  `level_of` rely on.
* Numbers. A bucket is found by dividing by a power of two, and no prover knows
  that those divide each other. `Pow2` is a recursive function; that it is one
  (`Pow2Recursion`) and `Pow2[m + n] = Pow2[m] * Pow2[n]` (`Pow2Sum`) are by
  induction. `SpanDivides` and `DivCoarser` reduce the rest to division of one
  quotient by another. `LevelOfFact` says which distances a level stands for,
  `CrossedFact` which levels `base` leaves the current turn of.
* Moving `base` on. `Emptied`: a timer that `timer_fast_forward` does not
  collect is still right for the new `base`, because in a level that is not
  crossed the current bucket is the same, and in one that is crossed
  every other bucket is still ahead (`StaysInBucket`). `Grown` does it for the
  far list and the level that is added. What is collected is put where its time
  belongs (`PlaceOfFact`), so all of it is right again (`FastForwardFact`).
* Searching. The minima are lower bounds only, and `brute_force_first` skips a
  level whose bound cannot beat what it has. `BruteForceFact` follows the loop,
  with the invariant that `first` is the least time on the levels it has
  passed (`Exact`), up to the far list. On level 0 the buckets from `base` on
  are in the order of time (`SameTime`, `UpdateFirstFact`), and the current one
  holds nothing of the next turn.
* The refinement maps `due[t]` to the time of a timer on some list. `OneInv`
  has that `timers_expire` returns a timer that is due and no later than any
  other, `NothingInv`, `NoneInv` and `RetryInv` that NULL means that none is
  due. `RetryAdvances` holds because a turn that looks again has made `first`
  exact, after it was a bound that no timer had.

`NumProofs` has induction and recursion in a form that the provers can use: the
library's theorems take an operator as a parameter, which cannot be
instantiated, but a set of numbers or a function can be. The least member of a
set of numbers comes from the library's theorem on well-founded relations.

### Htable

Proved for every width `W` of a word, every `Ptr`, `Rehash`, `MaxBits`,
`MaxElems` and `MaxLocks`, from the assumptions that pointers are words other
than 0 and 1, that every hash function gives each of them a word, and that a
table may have two buckets:

| theorem | states |
|---|---|
| `HtableInductive` | `Spec => []IInv` |
| `HtableTypeOK` | `Spec => []TypeOK` |
| `HtableAlwaysCheck` | `Spec => []HtableCheck` |
| `HtableRoomToProbe` | `Spec => []RoomToProbe` |
| `HtableIterationSafe` | `Spec => IterationSafe` |
| `HtableBagSteps` | `Spec => BagSteps` |
| `HtableImplementsBag` | `Spec /\ []~Loses /\ []NoAssert => ImplementsBag` |

`ImplementsBag` is false for some hashes, because of two defects of the code.
`double_table` can give back common bits while entries of the old mask are
still to be decoded (`Loses`; `Htable_double_doc`), and the assertion of
htable.c:279 can fail (`NoAssert`). `BagSteps` says that these two are all:
any other step adds, deletes and keeps what it says. `HtableImplementsBag`
draws the conclusion for the behaviours that meet neither. The behaviours of
the run `Htable` are such; it doubles, cleans and changes the mask without
them. The other theorems need no such hypothesis: even when `double_table`
decodes a wrong pointer, what it makes of it is a sound table.

*The argument.* `HtableCheck` and `RoomToProbe` are not inductive. A pointer
may be in the table several times, and the check is content when one copy is
found; when that is deleted the others must be found too. `Chain` says of
every entry that the bits above it are those that lookup expects `k` buckets
after the one its hash selects (`At`), with the perfect bit if and only if `k`
is 0, and that none of the buckets on the way is empty (`Path`). `Counted` has
the entries and a bound of the markers, so that with the limit of
`htable_add_` some bucket is empty. `Words` adds that the perfect bit is one of
the common ones.

* The common mask. `FixUp` with more bits given up does not change the pointer
  that a word decodes to; `Exposed` goes on until no entry looks empty or
  deleted. It ends because each turn takes a bit that the decoded pointer has,
  and a pointer whose bits are all exposed is not 0 or 1 (`ExposedFact`). What
  a lookup expects changes with the mask in the same way (`FixTableFact`).
* Adding puts the pointer at the first bucket that is empty or a marker. The
  buckets before it are entries, so its path is full, and no other path had
  used that bucket as its end. If its word looks empty or deleted, one more
  bit is exposed; then it does not.
* Cleaning moves entries to earlier buckets of their paths while markers vanish
  from these. `Sifted` is the invariant of the loop: the buckets it has passed
  hold no marker, the entries in them have full paths, and the path of no entry
  goes across the bucket where the loop started, which was empty. That is why
  it must not begin at bucket 0: the mutant that does so breaks `IInv`.
* Doubling adds the old entries to a new table. `Moved` has for the first `n`
  buckets of the old one that the new one is sound and, as long as the mask is
  the same, holds each pointer as often as they do.
* Deleting writes a marker unless the next bucket is empty. If it is, no path
  goes on beyond the bucket that is cleared.
* The loops are recursive functions; `Iteration` of `NumProofs` gives their
  values from an invariant that may depend on the turn.

### Only model-checked

That no `double_table` of the run `Htable` loses common bits, and so that
`ImplementsBag` holds there without a hypothesis. Liveness (`IoRoles`,
`FreeEnds`) needs fairness and ENABLED, which are out of the prover's reach.

## 5. Not modelled

In ccan/io: allocation failure (only possible with a non-default tal backend),
calling `io_loop` from a callback, `io_always` on a direction that has a plan
(not asserted by the code, not allowed by the documentation), a finish
callback that frees its own connection, the capacities of the arrays, the
bytes transferred, `io_never`, and conversions of timeouts. In ccan/timer:
allocation failure, the allocator hooks, `timers_dump`, `timers_cleanup`, and
timers beyond the top level, where the code's shift by 65 is undefined.

In tal: names, `take`, `tal_cleanup`, backends and allocation failure (the
default error function aborts), an extra argument of destructors (it only
narrows which one is deleted). In htable: allocator hooks, failure of
`htable_init_sized` and `htable_copy`, the typed wrappers. In ntdb: stores
outside of transactions and what they do to free lists and hash chains, pages
appended by a transaction, several locks or contexts of one process, fork,
lock attempts that fail (EDEADLK, EINTR), the gradual locking of all records,
NTDB_NOSYNC, read-only and internal databases, byte order, memory maps as
opposed to writes (a map is the same page cache), and I/O errors when reading.

## 6. Plan

To model next: `io_loop` composed with `TimerWheel` in place of the free choice
of `LoopExpired`; `membuf` and `rbuf` (pointers into a buffer across growth);
`pipecmd` (the exec error pipe) and `lbalance`; plain stores of ntdb next to
transactions.
