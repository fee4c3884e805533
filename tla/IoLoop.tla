------------------------------- MODULE IoLoop -------------------------------
(***************************************************************************)
(* The event loop of ccan/io: io_loop() and the poll table of poll.c, the  *)
(* plans and callbacks of io.c.                                            *)
(*                                                                         *)
(* Everything runs in one thread, but control alternates between the loop  *)
(* and the application's callbacks, and callbacks nest: a callback may     *)
(* close another connection, whose finish callback runs at once and may    *)
(* create a connection, whose init callback runs at once, and so on.  All  *)
(* of that happens while io_loop is half way through a rotation over the   *)
(* poll table.  The application is a nondeterministic client that takes    *)
(* any step the API allows it, in main() or in the innermost callback.     *)
(*                                                                         *)
(* Index n of a C array is index n + 1 here.  A pollfd's fd is negated in  *)
(* the code exactly when its events are 0, so only events are kept.        *)
(***************************************************************************)
EXTENDS Integers, Sequences, FiniteSets, Functions, CArray

CONSTANTS
  Conn,         \* the struct io_conn objects that may exist
  Listener,     \* the struct io_listener objects that may exist
  WaitAddr,     \* the addresses passed to io_wait and io_wake
  Apps,         \* the applications: the optional API features each uses
  FairMod,      \* fairness_counter is kept modulo this bound
  MaxDepth,     \* bound on nested callbacks
  AlwaysReady,  \* plans whose descriptor is never without data or room
  NoConn        \* no connection

Features ==
  {"listener", "exclusive", "finish", "break", "signal", "timers", "errors",
   "wait", "epipe", "failure"}

IO_IN == "in"
IO_OUT == "out"
Dir == {IO_IN, IO_OUT}
ERR == "err"

\* struct io_plan: conn->plan[IO_IN] and conn->plan[IO_OUT].
Plan == Conn \X Dir
Obj == Conn \cup Listener

\* The address io_sock_shutdown waits on; nobody wakes it.
Shutdown == "io_sock_shutdown"
NoWait == "none"

ASSUME ConnAssumption ==
  /\ IsFiniteSet(Conn) /\ IsFiniteSet(Listener)
  /\ Conn \cap Listener = {} /\ NoConn \notin Obj
ASSUME AppAssumption == Apps \subseteq SUBSET Features
ASSUME WaitAssumption == WaitAddr \cap {Shutdown, NoWait} = {}
ASSUME BoundAssumption == FairMod \in Nat \ {0} /\ MaxDepth \in Nat \ {0}
ASSUME ReadyAssumption == AlwaysReady \subseteq Plan

VARIABLES
  fds,              \* the objects of the poll table
  pollfds,          \* their events and revents
  backend_info,     \* fd->backend_info: index in the table, 0 for none
  num_waiting,      \* entries with events
  num_exclusive,    \* plans set exclusive
  exclusive,        \* fd->exclusive[]: the set of exclusive plans
  always,           \* plans whose next callback is to be called at once
  status,           \* plan->status
  waitaddr,         \* plan->arg.u1.const_vp of a waiting plan
  mem,              \* tal's view of each object: free, live or dying
  finish,           \* connections with a finish callback
  io_loop_return,   \* set by io_break
  fairness_counter,
  pc,               \* where control is when no callback runs
  r,                \* events poll reported and io_loop has yet to serve
  rotation,
  cur,              \* the connection io_ready works for
  evs,              \* io_ready's pollflags
  stack,            \* the callbacks in progress, innermost first
  app               \* the application of this behaviour

table == <<fds, pollfds, backend_info, num_waiting>>
excl == <<exclusive, num_exclusive>>
plans == <<always, status, waitaddr>>
loop == <<fairness_counter, pc, r, rotation, cur, evs>>
vars == <<table, excl, plans, mem, finish, io_loop_return, loop, stack, app>>

num_fds == Len(fds)
num_always == Len(always)

Status == {"unset", "notstarted", "started", "waiting", "always"}
Polling == {"notstarted", "started"}
Frame == [fn : {"next", "finish", "error"}, conn : Conn \cup {NoConn},
          dir : Dir, freed : BOOLEAN]
PollFd == [events : SUBSET Dir, revents : SUBSET (Dir \cup {ERR})]

\* The types of poll.c's static state, of the connections and of io_loop's
\* and io_ready's locals.
TypeOK ==
  /\ fds \in Seq(Obj)
  /\ pollfds \in Seq(PollFd)
  /\ backend_info \in [Obj -> Nat]
  /\ num_waiting \in Int
  /\ num_exclusive \in Int
  /\ exclusive \in SUBSET Plan
  /\ always \in Seq(Plan)
  /\ status \in [Plan -> Status]
  /\ waitaddr \in [Plan -> WaitAddr \cup {Shutdown, NoWait}]
  /\ mem \in [Obj -> {"free", "live", "dying"}]
  /\ finish \in SUBSET Conn
  /\ io_loop_return \in BOOLEAN
  /\ fairness_counter \in 0 .. FairMod - 1
  /\ pc \in {"main", "top", "poll", "dispatch", "in", "out", "aborted"}
  /\ r \in Int
  /\ rotation \in Nat
  /\ cur \in Conn \cup {NoConn}
  /\ evs \in SUBSET (Dir \cup {ERR})
  /\ stack \in Seq(Frame)
  /\ app \in Apps

Init ==
  /\ fds = <<>>
  /\ pollfds = <<>>
  /\ backend_info = [o \in Obj |-> 0]
  /\ num_waiting = 0
  /\ num_exclusive = 0
  /\ exclusive = {}
  /\ always = <<>>
  /\ status = [p \in Plan |-> "unset"]
  /\ waitaddr = [p \in Plan |-> NoWait]
  /\ mem = [o \in Obj |-> "free"]
  /\ finish = {}
  /\ io_loop_return = FALSE
  /\ fairness_counter = 0
  /\ pc = "main"
  /\ r = 0
  /\ rotation = 0
  /\ cur = NoConn
  /\ evs = {}
  /\ stack = <<>>
  /\ app \in Apps
-----------------------------------------------------------------------------
(***************************************************************************)
(* The poll table.                                                         *)
(***************************************************************************)
One(b) == IF b THEN 1 ELSE 0

\* add_fd, to the entries pfds: a new one at the end, "in case we're iterating
\* now" with no revents.
AddFd(o, events, pfds) ==
  /\ fds' = Append(fds, o)
  /\ pollfds' = Append(pfds, [events |-> events, revents |-> {}])
  /\ backend_info' = [backend_info EXCEPT ![o] = num_fds + 1]
  /\ num_waiting' = num_waiting + One(events # {})

\* Mutant: the entry goes without being taken out of the count.
UncountForgotten(n) == num_waiting

\* num_waiting without entry n.
Uncount(n) == num_waiting - One(pollfds[n].events # {})

\* Mutant: the object that was moved keeps its old index.
MovedNoFixup(o) == [backend_info EXCEPT ![o] = 0]

\* The indices after the last entry was moved over o's.
Moved(o) ==
  [backend_info EXCEPT ![fds[num_fds]] = backend_info[o], ![o] = 0]

\* Mutant: the write side's flag is forgotten.
ReleasedInOnly(o) == One(<<o, IO_IN>> \in exclusive)

\* How many exclusive flags go with o.
Released(o) == One(<<o, IO_IN>> \in exclusive) + One(<<o, IO_OUT>> \in exclusive)

\* del_fd: the last entry is moved over o's.  The flags go with the object.
DelFd(o) ==
  LET n == backend_info[o]
  IN  /\ fds' = SwapRemove(fds, n)
      /\ pollfds' = SwapRemove(pollfds, n)
      /\ backend_info' = Moved(o)
      /\ num_waiting' = Uncount(n)
      /\ num_exclusive' = num_exclusive - Released(o)
      /\ exclusive' = exclusive \ {<<o, IO_IN>>, <<o, IO_OUT>>}

\* setup_pfd: the events that c's plans poll for.
Interest(c) == {d \in Dir : status[<<c, d>>] \in Polling}

\* Mutant: the old events are not cleared first.
BackendNewPlanNoReset(c, events) ==
  LET n == backend_info[c]
      both == pollfds[n].events \cup events
  IN  /\ pollfds' = [pollfds EXCEPT ![n].events = both]
      /\ num_waiting' = Uncount(n) + One(both # {})
      /\ UNCHANGED <<fds, backend_info>>

\* backend_new_plan: c now polls for events.
BackendNewPlan(c, events) ==
  LET n == backend_info[c]
  IN  /\ pollfds' = [pollfds EXCEPT ![n].events = events]
      /\ num_waiting' = Uncount(n) + One(events # {})
      /\ UNCHANGED <<fds, backend_info>>

\* Mutant: only the read side's request is removed.
RemoveFromAlwaysInOnly(a, p) ==
  IF status[p] = "always" /\ p[2] = IO_IN
  THEN SwapRemove(a, IndexOf(a, p))
  ELSE a

\* remove_from_always: nothing to do unless the plan's status is IO_ALWAYS.
RemoveFromAlways(a, p) ==
  IF status[p] = "always" THEN SwapRemove(a, IndexOf(a, p)) ELSE a
-----------------------------------------------------------------------------
(***************************************************************************)
(* Callbacks.                                                              *)
(***************************************************************************)
\* The application runs: in main(), or in the innermost callback.
Running == stack # <<>> \/ pc = "main"

\* There is room for one more callback.
Room == Len(stack) < MaxDepth

Call(fn, c, d) == [fn |-> fn, conn |-> c, dir |-> d, freed |-> FALSE]

\* Mutant: they do not.
OrphanForgotten(s, c) == s

\* The callbacks of c have to report to their caller that c is gone.
Orphan(s, c) ==
  [k \in 1 .. Len(s) |-> IF s[k].conn = c THEN [s[k] EXCEPT !.freed = TRUE] ELSE s[k]]

\* next_plan, first half: the finished plan is unset and next is called.
NextPlan(c, d) ==
  /\ status' = [status EXCEPT ![<<c, d>>] = "unset"]
  /\ stack' = <<Call("next", c, d)>> \o stack

\* io_new_conn: a table entry that polls nothing, and init is called as the
\* IO_IN plan's next.
NewConn(c, pfds) ==
  /\ mem[c] = "free"
  /\ mem' = [mem EXCEPT ![c] = "live"]
  /\ finish' = finish \ {c}
  /\ AddFd(c, {}, pfds)
  /\ status' = [status EXCEPT ![<<c, IO_IN>>] = "unset",
                              ![<<c, IO_OUT>>] = "unset"]
  /\ stack' = <<Call("next", c, IO_IN)>> \o stack

\* destroy_conn, run by tal_free as c's destructor (io_close) or just before
\* it (io_close_taken_fd): the entry and the always requests go, then the
\* finish callback is called.
DestroyConn(c) ==
  /\ mem[c] = "live"
  /\ DelFd(c)
  /\ always' = RemoveFromAlways(RemoveFromAlways(always, <<c, IO_IN>>),
                                <<c, IO_OUT>>)
  /\ status' = [status EXCEPT ![<<c, IO_IN>>] = "unset",
                              ![<<c, IO_OUT>>] = "unset"]
  /\ waitaddr' = [waitaddr EXCEPT ![<<c, IO_IN>>] = NoWait,
                                  ![<<c, IO_OUT>>] = NoWait]
  /\ finish' = finish \ {c}
  /\ IF c \in finish
     THEN /\ mem' = [mem EXCEPT ![c] = "dying"]
          /\ stack' = <<Call("finish", c, IO_IN)>> \o Orphan(stack, c)
     ELSE /\ mem' = [mem EXCEPT ![c] = "free"]
          /\ stack' = Orphan(stack, c)

\* io_close_listener, and destroy_listener behind it.
CloseListener(l) ==
  /\ mem[l] = "live"
  /\ mem' = [mem EXCEPT ![l] = "free"]
  /\ DelFd(l)
-----------------------------------------------------------------------------
(***************************************************************************)
(* What the application may do, in main() or in any callback.              *)
(***************************************************************************)
IoNewConn(c) ==
  /\ Running /\ Room
  /\ NewConn(c, pollfds)
  /\ UNCHANGED <<excl, always, waitaddr, io_loop_return, loop>>

IoNewListener(l) ==
  /\ Running /\ "listener" \in app
  /\ mem[l] = "free"
  /\ mem' = [mem EXCEPT ![l] = "live"]
  /\ AddFd(l, {IO_IN}, pollfds)
  /\ UNCHANGED <<excl, plans, finish, io_loop_return, loop, stack>>

IoCloseListener(l) ==
  /\ Running
  /\ CloseListener(l)
  /\ UNCHANGED <<plans, finish, io_loop_return, loop, stack>>

\* io_close, io_close_taken_fd, tal_free(conn), and the failing ends of
\* io_connect, io_halfclose and io_sock_shutdown.
IoClose(c) ==
  /\ Running
  /\ c \in finish => Room
  /\ DestroyConn(c)
  /\ UNCHANGED <<io_loop_return, loop>>

IoSetFinish(c) ==
  /\ Running /\ "finish" \in app
  /\ mem[c] = "live" /\ c \notin finish
  /\ finish' = finish \cup {c}
  /\ UNCHANGED <<table, excl, plans, mem, io_loop_return, loop, stack>>

\* io_conn_exclusive and io_conn_out_exclusive; backend_set_exclusive counts
\* changes only.
IoConnExclusive(p, b) ==
  /\ Running /\ "exclusive" \in app
  /\ mem[p[1]] = "live" /\ b # (p \in exclusive)
  /\ exclusive' = IF b THEN exclusive \cup {p} ELSE exclusive \ {p}
  /\ num_exclusive' = IF b THEN num_exclusive + 1 ELSE num_exclusive - 1
  /\ UNCHANGED <<table, plans, mem, finish, io_loop_return, loop, stack>>

IoBreak ==
  /\ Running /\ "break" \in app
  /\ io_loop_return' = TRUE
  /\ UNCHANGED <<table, excl, plans, mem, finish, loop, stack>>

\* A signal handler calls io_break while io_loop runs.
SignalBreak ==
  /\ ~Running /\ "signal" \in app /\ pc # "aborted"
  /\ io_loop_return' = TRUE
  /\ UNCHANGED <<table, excl, plans, mem, finish, loop, stack>>

Waiters(w) == {p \in Plan : status[p] = "waiting" /\ waitaddr[p] = w}

\* backend_wake scans the table in order, IO_IN before IO_OUT.
ScanPos(p) == 2 * backend_info[p[1]] + One(p[2] = IO_OUT)

\* io_wake: every waiter's next callback is to be called at once.
IoWake(w) ==
  /\ Running
  /\ Waiters(w) # {}
  /\ \E f \in Bijection(1 .. Cardinality(Waiters(w)), Waiters(w)) :
       /\ \A j, k \in DOMAIN f : j < k => ScanPos(f[j]) < ScanPos(f[k])
       /\ always' = always \o f
  /\ status' = [p \in Plan |-> IF p \in Waiters(w) THEN "always" ELSE status[p]]
  /\ waitaddr' = [p \in Plan |-> IF p \in Waiters(w) THEN NoWait ELSE waitaddr[p]]
  /\ UNCHANGED <<table, excl, mem, finish, io_loop_return, loop, stack>>
-----------------------------------------------------------------------------
(***************************************************************************)
(* What a connection's own callback may do: give it plans and return.      *)
(***************************************************************************)
\* The innermost callback is one of c's and the direction has no plan
\* (io_plan_arg asserts it).
MayPlan(c, d) ==
  /\ stack # <<>>
  /\ stack[1].fn = "next" /\ stack[1].conn = c /\ ~stack[1].freed
  /\ status[<<c, d>>] = "unset"

\* io_read, io_write, their partial variants, io_connect in progress, and
\* io_plan_arg with io_set_plan.
IoPlan(c, d) ==
  /\ MayPlan(c, d)
  /\ status' = [status EXCEPT ![<<c, d>>] = "notstarted"]
  /\ UNCHANGED <<table, excl, always, waitaddr, mem, finish, io_loop_return, loop, stack>>

\* io_always, io_out_always, a transfer of no bytes, an immediate connect.
IoAlways(c, d) ==
  /\ MayPlan(c, d)
  /\ status' = [status EXCEPT ![<<c, d>>] = "always"]
  /\ always' = Append(always, <<c, d>>)
  /\ UNCHANGED <<table, excl, waitaddr, mem, finish, io_loop_return, loop, stack>>

\* io_wait_dir: io_wait, io_out_wait, io_sock_shutdown.
IoWait(c, d, w) ==
  /\ MayPlan(c, d) /\ "wait" \in app
  /\ w = Shutdown => d = IO_OUT
  /\ status' = [status EXCEPT ![<<c, d>>] = "waiting"]
  /\ waitaddr' = [waitaddr EXCEPT ![<<c, d>>] = w]
  /\ UNCHANGED <<table, excl, always, mem, finish, io_loop_return, loop, stack>>

\* io_ready is done with one direction: it tries the other or returns to
\* the rotation.
NextDirection ==
  IF pc = "in" /\ IO_OUT \in evs
  THEN /\ pc' = "out"
       /\ UNCHANGED <<rotation, cur, evs>>
  ELSE /\ pc' = "dispatch"
       /\ rotation' = rotation + 1
       /\ cur' = NoConn
       /\ evs' = {}

\* io_ready returns: the connection is gone, or it is finished with it.
ReadyReturn ==
  /\ pc' = "dispatch"
  /\ rotation' = rotation + 1
  /\ cur' = NoConn
  /\ evs' = {}

\* The outermost callback is called by do_plan.
ByDoPlan == Len(stack) = 1 /\ pc \in {"in", "out"}

\* next_plan, second half: the callback left a plan in one direction at least
\* (io_halfclose leaves the other unset), and the events it wants are set up.
\* do_plan keeps going with a plan that has not started.
Return ==
  /\ stack # <<>> /\ stack[1].fn = "next" /\ ~stack[1].freed
  /\ LET c == stack[1].conn
         d == stack[1].dir
     IN  /\ \E e \in Dir : status[<<c, e>>] # "unset"
         /\ BackendNewPlan(c, Interest(c))
         /\ IF ByDoPlan /\ status[<<c, d>>] # "notstarted"
            THEN NextDirection
            ELSE UNCHANGED <<pc, rotation, cur, evs>>
  /\ stack' = Tail(stack)
  /\ UNCHANGED <<excl, plans, mem, finish, io_loop_return, fairness_counter, r>>

\* The callback returns &io_conn_freed.
ReturnFreed ==
  /\ stack # <<>> /\ stack[1].fn = "next" /\ stack[1].freed
  /\ IF ByDoPlan
     THEN ReadyReturn
     ELSE UNCHANGED <<pc, rotation, cur, evs>>
  /\ stack' = Tail(stack)
  /\ UNCHANGED <<table, excl, plans, mem, finish, io_loop_return, fairness_counter, r>>

\* The finish callback returns and tal frees the connection.
FinishReturn ==
  /\ stack # <<>> /\ stack[1].fn = "finish"
  /\ mem' = [mem EXCEPT ![stack[1].conn] = "free"]
  /\ stack' = Tail(stack)
  /\ UNCHANGED <<table, excl, plans, finish, io_loop_return, loop>>

\* A listener's init callback, called without a connection, returns.
ErrorReturn ==
  /\ stack # <<>> /\ stack[1].fn = "error"
  /\ stack' = Tail(stack)
  /\ UNCHANGED <<table, excl, plans, mem, finish, io_loop_return, loop>>

AppNext ==
  \/ \E c \in Conn : IoNewConn(c) \/ IoClose(c) \/ IoSetFinish(c)
  \/ \E l \in Listener : IoNewListener(l) \/ IoCloseListener(l)
  \/ \E p \in Plan, b \in BOOLEAN : IoConnExclusive(p, b)
  \/ IoBreak
  \/ \E w \in WaitAddr : IoWake(w)
  \/ \E c \in Conn, d \in Dir : IoPlan(c, d) \/ IoAlways(c, d)
  \/ \E c \in Conn, d \in Dir, w \in WaitAddr \cup {Shutdown} : IoWait(c, d, w)
  \/ Return \/ ReturnFreed \/ FinishReturn \/ ErrorReturn
-----------------------------------------------------------------------------
(***************************************************************************)
(* The loop.  Its steps are taken while no callback runs.                  *)
(***************************************************************************)
At(l) == pc = l /\ stack = <<>>

\* What is left of a rotation is forgotten on the way to l.
Leave(l) ==
  /\ pc' = l
  /\ r' = 0 /\ rotation' = 0 /\ cur' = NoConn /\ evs' = {}
  /\ UNCHANGED fairness_counter

IoLoopCall ==
  /\ At("main")
  /\ Leave("top")
  /\ UNCHANGED <<table, excl, plans, mem, finish, io_loop_return, stack>>

\* The end of io_loop: whatever made it leave, the break request is used up.
LoopReturn ==
  /\ Leave("main")
  /\ io_loop_return' = FALSE
  /\ UNCHANGED <<table, excl, plans, mem, finish, stack>>

LoopBroken == At("top") /\ io_loop_return /\ LoopReturn

LoopEmpty == At("top") /\ ~io_loop_return /\ num_fds = 0 /\ LoopReturn

\* assert(num_waiting || num_always): "You can't tell them all to go to
\* sleep!"
LoopAsleep ==
  /\ At("top") /\ ~io_loop_return /\ num_fds # 0
  /\ num_waiting = 0 /\ num_always = 0
  /\ Leave("aborted")
  /\ UNCHANGED <<table, excl, plans, mem, finish, io_loop_return, stack>>

\* Mutant: a break request does not stop the loop.
AwakeIgnoringBreak ==
  At("top") /\ num_fds # 0 /\ (num_waiting # 0 \/ num_always # 0)

Awake ==
  /\ At("top") /\ ~io_loop_return /\ num_fds # 0
  /\ num_waiting # 0 \/ num_always # 0

LoopExpired == Awake /\ "timers" \in app /\ LoopReturn

LoopPoll ==
  /\ Awake
  /\ Leave("poll")
  /\ UNCHANGED <<table, excl, plans, mem, finish, io_loop_return, stack>>

\* What poll is asked about entry i (exclude_pollfds; restore_pollfds puts
\* the events back).
Polled(i) ==
  IF num_exclusive = 0
  THEN pollfds[i].events
  ELSE {d \in pollfds[i].events : <<fds[i], d>> \in exclusive}

\* What poll may answer about it: any of those events, or an error.
Answers(i) ==
  {E \in (SUBSET Polled(i)) \cup {{ERR}} :
     /\ \A d \in Polled(i) : <<fds[i], d>> \in AlwaysReady => d \in E
     /\ E = {ERR} => Polled(i) # {} /\ "failure" \in app}

\* poll returns: with events, or because its timeout is over.
PollReturns ==
  \E rev \in [1 .. num_fds -> UNION {Answers(i) : i \in 1 .. num_fds}] :
    /\ \A i \in 1 .. num_fds : rev[i] \in Answers(i)
    /\ r' = Cardinality({i \in 1 .. num_fds : rev[i] # {}})
    /\ r' # 0 \/ num_always # 0 \/ "timers" \in app
    /\ pollfds' = [i \in 1 .. num_fds |-> [pollfds[i] EXCEPT !.revents = rev[i]]]

\* Mutant: it never moves.
NextFairnessStuck == fairness_counter

\* fairness_counter++; only its value modulo num_fds is ever used.
NextFairness == (fairness_counter + 1) % FairMod

Poll ==
  /\ At("poll")
  /\ PollReturns
  /\ fairness_counter' = NextFairness
  /\ rotation' = 0
  /\ pc' = "dispatch"
  /\ UNCHANGED <<fds, backend_info, num_waiting, excl, plans, mem, finish,
                 io_loop_return, cur, evs, stack>>

\* EINTR: around the loop again.
PollInterrupted ==
  /\ At("poll") /\ "signal" \in app
  /\ Leave("top")
  /\ UNCHANGED <<table, excl, plans, mem, finish, io_loop_return, stack>>

PollFailed ==
  /\ At("poll") /\ "failure" \in app
  /\ LoopReturn
-----------------------------------------------------------------------------
(***************************************************************************)
(* The rotation over the table after poll.                                 *)
(***************************************************************************)
\* Mutant: the last entry never has its turn.
SlotOffByOne == 1 + ((rotation + fairness_counter) % (num_fds - 1))

\* The entry whose turn it is.
Slot == 1 + ((rotation + fairness_counter) % num_fds)

\* Mutant: the rotation is finished before a break request is honoured.
RotatingIgnoringBreak == At("dispatch") /\ rotation < num_fds

Rotating == At("dispatch") /\ rotation < num_fds /\ ~io_loop_return

Revents == pollfds[Slot].revents

\* Mutant: the events are left in place.
ClearedNot == pollfds

\* "Clear so we don't get confused if exclusive next time"
Cleared == [pollfds EXCEPT ![Slot].revents = {}]

RotationEnd ==
  /\ At("dispatch") /\ (rotation >= num_fds \/ io_loop_return)
  /\ Leave("top")
  /\ UNCHANGED <<table, excl, plans, mem, finish, io_loop_return, stack>>

\* Mutant: the scan stops short of the first request.
EligibleOffByOne ==
  {k \in 2 .. num_always : num_exclusive = 0 \/ always[k] \in exclusive}

\* The always requests handle_always may take.
Eligible == {k \in 1 .. num_always : num_exclusive = 0 \/ always[k] \in exclusive}

\* handle_always takes the last one and leaves the rotation: when no events
\* are left, or ahead of the first entry.
RunAlways ==
  /\ Rotating
  /\ r = 0 \/ Slot = 1
  /\ \E k \in Eligible :
       /\ \A j \in Eligible : j <= k
       /\ always' = SwapRemove(always, k)
       /\ NextPlan(always[k][1], always[k][2])
  /\ pollfds' = Cleared
  /\ Leave("top")
  /\ UNCHANGED <<fds, backend_info, num_waiting, excl, waitaddr, mem, finish, io_loop_return>>

\* No events are left and no always request may be taken.
RotationDone ==
  /\ Rotating /\ r = 0 /\ Eligible = {}
  /\ pollfds' = Cleared
  /\ Leave("top")
  /\ UNCHANGED <<fds, backend_info, num_waiting, excl, plans, mem, finish,
                 io_loop_return, stack>>

\* The entry itself is looked at.
Serving == Rotating /\ r # 0 /\ (Slot = 1 => Eligible = {})

NextEntry ==
  /\ rotation' = rotation + 1
  /\ UNCHANGED <<fairness_counter, pc, cur, evs>>

\* Mutant: every entry visited counts as served.
EntryIdleCounted ==
  /\ Serving /\ Revents = {}
  /\ r' = r - 1
  /\ NextEntry
  /\ UNCHANGED <<table, excl, plans, mem, finish, io_loop_return, stack>>

EntryIdle ==
  /\ Serving /\ Revents = {}
  /\ NextEntry
  /\ UNCHANGED <<table, excl, plans, mem, finish, io_loop_return, r, stack>>

\* accept_conn: a new connection.
AcceptConn(c) ==
  /\ Serving /\ fds[Slot] \in Listener /\ IO_IN \in Revents
  /\ NewConn(c, Cleared)
  /\ r' = r - 1
  /\ NextEntry
  /\ UNCHANGED <<excl, always, waitaddr, io_loop_return>>

\* accept_conn: accept fails; init is told if extended errors are enabled.
AcceptFail ==
  /\ Serving /\ fds[Slot] \in Listener /\ IO_IN \in Revents
  /\ stack' = IF "errors" \in app THEN <<Call("error", NoConn, IO_IN)>> ELSE <<>>
  /\ pollfds' = Cleared
  /\ r' = r - 1
  /\ NextEntry
  /\ UNCHANGED <<fds, backend_info, num_waiting, excl, plans, mem, finish, io_loop_return>>

ListenerError ==
  /\ Serving /\ fds[Slot] \in Listener /\ Revents = {ERR}
  /\ CloseListener(fds[Slot])
  /\ r' = r - 1
  /\ NextEntry
  /\ UNCHANGED <<plans, finish, io_loop_return, stack>>

\* Mutant: a listener is taken for a connection.
ConnReadyAny ==
  /\ Serving /\ Revents \cap Dir # {}
  /\ pollfds' = Cleared
  /\ pc' = IF IO_IN \in Revents THEN "in" ELSE "out"
  /\ cur' = fds[Slot]
  /\ evs' = Revents
  /\ r' = r - 1
  /\ UNCHANGED <<fds, backend_info, num_waiting, excl, plans, mem, finish,
                 io_loop_return, rotation, fairness_counter, stack>>

\* io_ready is called.
ConnReady ==
  /\ Serving /\ fds[Slot] \in Conn /\ Revents \cap Dir # {}
  /\ pollfds' = Cleared
  /\ pc' = IF IO_IN \in Revents THEN "in" ELSE "out"
  /\ cur' = fds[Slot]
  /\ evs' = Revents
  /\ r' = r - 1
  /\ UNCHANGED <<fds, backend_info, num_waiting, excl, plans, mem, finish,
                 io_loop_return, rotation, fairness_counter, stack>>

ConnError ==
  /\ Serving /\ fds[Slot] \in Conn /\ Revents = {ERR}
  /\ DestroyConn(fds[Slot])
  /\ r' = r - 1
  /\ NextEntry
  /\ UNCHANGED io_loop_return
-----------------------------------------------------------------------------
(***************************************************************************)
(* do_plan, by what plan->io returned.                                     *)
(***************************************************************************)
\* -1 with EAGAIN.
IoAgain(d) ==
  /\ At(d)
  /\ NextDirection
  /\ UNCHANGED <<table, excl, plans, mem, finish, io_loop_return, fairness_counter, r, stack>>

\* 0: it started but did not finish.
IoStarted(d) ==
  /\ At(d)
  /\ status' = [status EXCEPT ![<<cur, d>>] = "started"]
  /\ NextDirection
  /\ UNCHANGED <<table, excl, always, waitaddr, mem, finish, io_loop_return,
                 fairness_counter, r, stack>>

\* 1: it is finished, next is called.
IoDone(d) ==
  /\ At(d)
  /\ NextPlan(cur, d)
  /\ UNCHANGED <<table, excl, always, waitaddr, mem, finish, io_loop_return, loop>>

\* -1: the connection is closed.
IoFail(d) ==
  /\ At(d) /\ "failure" \in app
  /\ DestroyConn(cur)
  /\ ReadyReturn
  /\ UNCHANGED <<io_loop_return, fairness_counter, r>>

\* Mutant: the table is not told.
IoEpipeNoRefresh ==
  /\ At(IO_OUT) /\ "epipe" \in app
  /\ IO_IN \in Interest(cur)
  /\ status' = [status EXCEPT ![<<cur, IO_OUT>>] = "unset"]
  /\ ReadyReturn
  /\ UNCHANGED <<table, excl, always, waitaddr, mem, finish, io_loop_return,
                 fairness_counter, r, stack>>

\* -1 with EPIPE while the read side still polls: writing is given up, and
\* the connection stays to drain what there is to read.
IoEpipe ==
  /\ At(IO_OUT) /\ "epipe" \in app
  /\ IO_IN \in Interest(cur)
  /\ status' = [status EXCEPT ![<<cur, IO_OUT>>] = "unset"]
  /\ BackendNewPlan(cur, Interest(cur) \ {IO_OUT})
  /\ ReadyReturn
  /\ UNCHANGED <<excl, always, waitaddr, mem, finish, io_loop_return, fairness_counter, r, stack>>

Serve ==
  \/ EntryIdle \/ AcceptFail \/ ListenerError \/ ConnReady \/ ConnError
  \/ \E c \in Conn : AcceptConn(c)

DoPlan ==
  \/ \E d \in Dir : IoAgain(d) \/ IoStarted(d) \/ IoDone(d) \/ IoFail(d)
  \/ IoEpipe

LoopNext ==
  \/ IoLoopCall \/ LoopBroken \/ LoopEmpty \/ LoopAsleep \/ LoopExpired
  \/ LoopPoll \/ Poll \/ PollInterrupted \/ PollFailed \/ SignalBreak
  \/ RotationEnd \/ RunAlways \/ RotationDone \/ Serve \/ DoPlan

\* assert() has ended the program.
Aborted == pc = "aborted" /\ UNCHANGED vars

Next == (AppNext \/ LoopNext \/ Aborted) /\ UNCHANGED app

Spec == Init /\ [][Next]_vars
-----------------------------------------------------------------------------
(***************************************************************************)
(* Safety.                                                                 *)
(***************************************************************************)
Live(o) == mem[o] = "live"

\* The poll table and the objects agree: fds and pollfds are parallel, every
\* live object has exactly one entry and backend_info is its index, and no
\* entry is left behind by an object that was freed.  (The assertions of
\* del_fd and setup_pfd.)
PollTable ==
  /\ Len(pollfds) = num_fds
  /\ \A o \in Obj : IF Live(o) THEN /\ backend_info[o] \in 1 .. num_fds
                                    /\ fds[backend_info[o]] = o
                               ELSE backend_info[o] = 0
  /\ \A i \in 1 .. num_fds : Live(fds[i]) /\ backend_info[fds[i]] = i

\* The always array holds exactly the plans with status IO_ALWAYS, each once:
\* the assertions of backend_new_always, remove_from_always and io_do_always.
AlwaysList ==
  /\ IsInjective(always)
  /\ Range(always) = {p \in Plan : status[p] = "always"}

\* num_waiting counts the entries with events, so that the assertion "You
\* can't tell them all to go to sleep!" tests what it means to.
WaitingCount ==
  num_waiting = Cardinality({i \in 1 .. num_fds : pollfds[i].events # {}})

\* num_exclusive counts the exclusive plans, all of live connections: a count
\* that is left too high would silence every other connection for ever.
ExclusiveCount ==
  /\ num_exclusive = Cardinality(exclusive)
  /\ \A p \in exclusive : Live(p[1])

InCallback(c) ==
  \E k \in 1 .. Len(stack) :
    stack[k].fn = "next" /\ stack[k].conn = c /\ ~stack[k].freed

\* While none of its callbacks runs, a connection's entry asks poll for
\* exactly the directions whose plans are polling, whatever was closed,
\* moved, excluded or woken in between.
EventsMatch ==
  \A c \in Conn :
    Live(c) /\ ~InCallback(c) => pollfds[backend_info[c]].events = Interest(c)

\* "We shouldn't have polled for this event if this wasn't true!": io_ready
\* only tries a plan that polls, of a connection that still exists.
DoPlanAssert ==
  \A d \in Dir :
    At(d) => Live(cur) /\ status[<<cur, d>>] \in Polling

\* An event that poll reported is never served later than the plan it was
\* reported for: the entries still to be visited in this rotation only hold
\* events that their connection's plans still wait for.
ReventsFresh ==
  pc \in {"dispatch", "in", "out"} =>
    \A i \in 1 .. num_fds :
      fds[i] \in Conn /\ ~InCallback(fds[i]) =>
        pollfds[i].revents \cap Dir \subseteq Interest(fds[i])

\* r never falls below the number of entries with events to serve, so that
\* the exit on r == 0 leaves none of them unserved, whatever callbacks did to
\* the table.
PendingCount ==
  pc \in {"dispatch", "in", "out"} =>
    r >= Cardinality({i \in 1 .. num_fds : pollfds[i].revents # {}})

\* Without exclusive connections, io_loop never blocks in poll for ever
\* without a descriptor to look at.
NoDeafSleep ==
  At("poll") /\ num_always = 0 /\ num_exclusive = 0 =>
    \E i \in 1 .. num_fds : Polled(i) # {}

\* After io_break the connection being served may still be called back, until
\* io_ready is done with it, but no other one is before io_loop returns.
BreakBound ==
  [][io_loop_return /\ stack = <<>> /\ pc # "main" /\ stack' # <<>>
       => stack'[1].conn = cur]_vars
=============================================================================
