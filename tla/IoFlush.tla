------------------------------- MODULE IoFlush -------------------------------
(***************************************************************************)
(* io_flush_sync on top of IoLoop: an unfinished write is completed at     *)
(* once, with the descriptor blocking, and the write plan's next callback  *)
(* becomes an always request.  Unlike every other change of a plan, the    *)
(* poll table is not told of it.                                           *)
(***************************************************************************)
EXTENDS IoLoop

\* plan->io is called until it returns 1 or -1; 0 leaves the plan started.
IoFlushSync(c) ==
  /\ Running
  /\ Live(c)
  /\ status[<<c, IO_OUT>>] \in Polling
  /\ \/ /\ status' = [status EXCEPT ![<<c, IO_OUT>>] = "always"]
        /\ always' = Append(always, <<c, IO_OUT>>)
     \/ /\ status' = [status EXCEPT ![<<c, IO_OUT>>] = "started"]
        /\ UNCHANGED always
  /\ UNCHANGED <<table, excl, waitaddr, mem, finish, io_loop_return, loop, stack, app>>

FlushNext == Next \/ \E c \in Conn : IoFlushSync(c)

FlushSpec == Init /\ [][FlushNext]_vars
=============================================================================
