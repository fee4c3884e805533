----------------------------- MODULE IoLoopInv -----------------------------
(***************************************************************************)
(* The inductive invariant of IoLoop: the safety properties, and what the  *)
(* callbacks in progress and the event being served add to them.           *)
(***************************************************************************)
EXTENDS IoLoop

\* A callback whose connection still exists, and a finish callback.
NextFrame(f) == f.fn = "next" /\ ~f.freed
FinishFrame(f) == f.fn = "finish"

\* Callbacks and memory agree: a finish callback runs for a connection that
\* is being destroyed, and at most one callback of a live connection is in
\* progress that was not orphaned by closing it.
FramesFor(s, m) ==
  /\ \A k \in 1 .. Len(s) :
       /\ s[k].fn # "error" => s[k].conn \in Conn
       /\ NextFrame(s[k]) => m[s[k].conn] = "live"
       /\ FinishFrame(s[k]) => m[s[k].conn] = "dying"
  /\ \A j, k \in 1 .. Len(s) :
       /\ s[j].conn = s[k].conn
       /\ \/ NextFrame(s[j]) /\ NextFrame(s[k])
          \/ FinishFrame(s[j]) /\ FinishFrame(s[k])
       => j = k

FramesOK == FramesFor(stack, mem)

\* Only a live connection has plans.
PlansLive == \A p \in Plan : status[p] # "unset" => Live(p[1])

\* A connection's entry in the poll table.
Entry(c) == pollfds[backend_info[c]]

\* The stronger form of ReventsFresh: it holds of connections in a callback
\* too.
ReventsWanted ==
  pc \in {"dispatch", "in", "out"} =>
    \A c \in Conn : Live(c) => Entry(c).revents \cap Dir \subseteq Interest(c)

\* io_ready's connection: its events were taken out of the table, and a write
\* still to be tried has a plan that polls.
CurOK ==
  /\ cur \in Conn /\ Live(cur)
  /\ Entry(cur).revents = {}
  /\ pc = "in" /\ IO_OUT \in evs => status[<<cur, IO_OUT>>] \in Polling

\* io_ready between two calls of do_plan, and inside the callback of one.
Service ==
  pc \in Dir =>
    IF stack = <<>>
    THEN CurOK /\ status[<<cur, pc>>] \in Polling
    ELSE LET b == stack[Len(stack)]
         IN  /\ b.fn = "next" /\ b.conn = cur /\ b.dir = pc
             /\ ~b.freed => CurOK

IInv ==
  /\ TypeOK
  /\ PollTable
  /\ FramesOK
  /\ PlansLive
  /\ AlwaysList
  /\ EventsMatch
  /\ ReventsWanted
  /\ Service

\* io_loop only polls when the assertion on the counters let it pass, and
\* nothing that could change them runs before poll does.
PollAwake == pc = "poll" => stack = <<>> /\ (num_waiting # 0 \/ num_always # 0)

\* What the counters of poll.c and io_loop count; IInv is what they need.
CountInv == WaitingCount /\ ExclusiveCount /\ PendingCount /\ PollAwake
=============================================================================
