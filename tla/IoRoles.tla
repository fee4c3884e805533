------------------------------- MODULE IoRoles -------------------------------
(***************************************************************************)
(* io_loop driven by an application whose connections each do one thing    *)
(* for ever, so that one can ask what is eventually served.  The loop, the *)
(* poll table and the API calls are those of IoLoop; only the client is    *)
(* restricted: main() creates every connection and calls io_loop again     *)
(* whenever it returns.                                                    *)
(*                                                                         *)
(*   reader   reads again from every callback                              *)
(*   breaker  a reader whose callback calls io_break                       *)
(*   waker    a reader whose callback calls io_wake for all the waiters    *)
(*   waiter   io_waits again from every callback                           *)
(*   ticker   io_always again from every callback                          *)
(***************************************************************************)
EXTENDS IoLoop

CONSTANT Roles  \* the applications: what each connection does

ASSUME RoleAssumption ==
  Roles \subseteq [Conn -> {"reader", "breaker", "waker", "waiter", "ticker"}]

VARIABLE role  \* the application of this behaviour

roleVars == <<vars, role>>

\* The callback of c has yet to make its plan.
Unplanned(c) == MayPlan(c, IO_IN)

\* The io_wake or io_break that comes before it.
Preamble(c) ==
  \/ /\ role[c] = "waker" /\ Unplanned(c)
     /\ \E w \in WaitAddr : IoWake(w)
  \/ /\ role[c] = "breaker" /\ Unplanned(c) /\ pc # "main" /\ ~io_loop_return
     /\ IoBreak

Prepared(c) ==
  /\ role[c] = "waker" => \A w \in WaitAddr : Waiters(w) = {}
  /\ role[c] = "breaker" => io_loop_return \/ pc = "main"

Replan(c) ==
  \/ /\ role[c] \in {"reader", "breaker", "waker"} /\ Prepared(c)
     /\ IoPlan(c, IO_IN)
  \/ /\ role[c] = "waiter"
     /\ \E w \in WaitAddr : IoWait(c, IO_IN, w)
  \/ /\ role[c] = "ticker"
     /\ IoAlways(c, IO_IN)

Setup ==
  /\ stack = <<>> /\ pc = "main"
  /\ \E c \in Conn : IoNewConn(c)

Callbacks ==
  \/ \E c \in Conn : Preamble(c) \/ Replan(c)
  \/ Return

\* io_loop, once every connection exists.
Loop ==
  \/ IoLoopCall /\ \A c \in Conn : Live(c)
  \/ LoopBroken \/ LoopPoll \/ RotationEnd \/ RunAlways \/ RotationDone
  \/ EntryIdle \/ ConnReady
  \/ \E d \in Dir : IoAgain(d) \/ IoStarted(d) \/ IoDone(d)

RolesInit == Init /\ role \in Roles

RolesNext == (Setup \/ Callbacks \/ Loop \/ Poll) /\ UNCHANGED <<app, role>>

\* poll does not block: its timeout is 0, or a descriptor it looks at is
\* ready.
Prompt ==
  \/ num_always # 0
  \/ \E i \in 1 .. num_fds, d \in Dir : d \in Polled(i) /\ <<fds[i], d>> \in AlwaysReady

(***************************************************************************)
(* The program is one thread that runs whenever it is not blocked in poll, *)
(* its callbacks return, and reading from a descriptor gives EAGAIN at     *)
(* last because kernel buffers are finite.                                 *)
(***************************************************************************)
Fairness ==
  /\ WF_roleVars((Setup \/ Callbacks \/ Loop) /\ UNCHANGED <<app, role>>)
  /\ WF_roleVars(Poll /\ Prompt /\ UNCHANGED <<app, role>>)
  /\ SF_roleVars((\E d \in Dir : IoAgain(d)) /\ UNCHANGED <<app, role>>)

RolesSpec == RolesInit /\ [][RolesNext]_roleVars /\ Fairness
-----------------------------------------------------------------------------
\* c reads from a descriptor that always has data.
Busy(c) == <<c, IO_IN>> \in AlwaysReady /\ role[c] \in {"reader", "breaker", "waker"}

\* A descriptor that stays ready is served again and again, even while a
\* ticker keeps an always request pending for ever, unless it has the first
\* entry of the table: fairness_counter moves the start of the rotation, and
\* the always requests only cut in ahead of the first entry.
FdServed ==
  \A c \in Conn :
    (Busy(c) /\ Live(c) /\ pc = "poll" /\ backend_info[c] # 1) ~> (cur = c)

\* A descriptor that stays ready is served even in the first entry while no
\* ticker runs.
AllServed ==
  \A c \in Conn :
    (Busy(c) /\ Live(c) /\ pc = "poll" /\ \A d \in Conn : role[d] # "ticker")
      ~> (cur = c)

\* After io_break, io_loop returns.
BreakReturns == io_loop_return ~> (pc = "main")

\* "All io_conns who have returned io_wait() on @waitaddr will move on to
\* their next callback." (io.h, io_wake)
WakeServed ==
  \A c \in Conn :
    (role[c] = "waiter" /\ status[<<c, IO_IN>>] = "always") ~> InCallback(c)
=============================================================================
