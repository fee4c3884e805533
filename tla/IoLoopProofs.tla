---------------------------- MODULE IoLoopProofs ----------------------------
(***************************************************************************)
(* Proofs about IoLoop for any number of connections, listeners and wait   *)
(* addresses, any application and any depth of nested callbacks.           *)
(***************************************************************************)
EXTENDS IoLoopInv, FiniteSetTheorems, Functions, TLAPS

-----------------------------------------------------------------------------
(***************************************************************************)
(* What deleting from a C array by moving its last element does.           *)
(***************************************************************************)
\* Deleting (poll.c: del_fd, remove_from_always, handle_always) gives a
\* sequence one shorter, with the last element in the hole.
LEMMA SwapRemoveType ==
  ASSUME NEW S, NEW s \in Seq(S), NEW i \in 1 .. Len(s)
  PROVE  /\ SwapRemove(s, i) \in Seq(S)
         /\ Len(SwapRemove(s, i)) = Len(s) - 1
         /\ \A k \in 1 .. Len(s) - 1 :
              SwapRemove(s, i)[k] = IF k = i THEN s[Len(s)] ELSE s[k]
  BY DEF SwapRemove

\* Without a bound on i: still a sequence.
LEMMA SwapRemoveSeq ==
  ASSUME NEW S, NEW s \in Seq(S), NEW i
  PROVE  SwapRemove(s, i) \in Seq(S)
<1>1. CASE Len(s) = 0
  BY <1>1 DEF SwapRemove
<1>2. CASE Len(s) # 0
  BY <1>2 DEF SwapRemove
<1> QED
  BY <1>1, <1>2

\* No element occurs twice afterwards if none did before, and exactly the
\* deleted element is gone.
LEMMA SwapRemoveElems ==
  ASSUME NEW S, NEW s \in Seq(S), NEW i \in 1 .. Len(s), IsInjective(s)
  PROVE  /\ IsInjective(SwapRemove(s, i))
         /\ Range(SwapRemove(s, i)) = Range(s) \ {s[i]}
<1> DEFINE t == SwapRemove(s, i)
<1>1. /\ t \in Seq(S)
      /\ Len(t) = Len(s) - 1
      /\ \A k \in 1 .. Len(s) - 1 : t[k] = IF k = i THEN s[Len(s)] ELSE s[k]
  BY SwapRemoveType
<1>2. DOMAIN t = 1 .. Len(s) - 1 /\ DOMAIN s = 1 .. Len(s) /\ Len(s) \in Nat
  BY <1>1
<1> HIDE DEF t
<1>3. IsInjective(t)
  BY <1>1, <1>2 DEF IsInjective
<1>4. Range(t) \subseteq Range(s) \ {s[i]}
  BY <1>1, <1>2 DEF IsInjective, Range
<1>5. ASSUME NEW x \in Range(s) \ {s[i]}
      PROVE  x \in Range(t)
  <2>1. PICK k \in 1 .. Len(s) : s[k] = x /\ k # i
    BY <1>2 DEF Range
  <2>2. CASE k = Len(s)
    <3>1. i \in 1 .. Len(s) - 1 /\ t[i] = x
      BY <1>1, <2>1, <2>2
    <3> QED
      BY <1>2, <3>1 DEF Range
  <2>3. CASE k # Len(s)
    <3>1. k \in 1 .. Len(s) - 1 /\ t[k] = x
      BY <1>1, <2>1, <2>3
    <3> QED
      BY <1>2, <3>1 DEF Range
  <2> QED
    BY <2>2, <2>3
<1> QED
  BY <1>3, <1>4, <1>5 DEF t

\* Where an element is found (find_always).
LEMMA IndexOfFound ==
  ASSUME NEW S, NEW s \in Seq(S), NEW x \in Range(s)
  PROVE  IndexOf(s, x) \in 1 .. Len(s) /\ s[IndexOf(s, x)] = x
<1>1. \E k \in 1 .. Len(s) : s[k] = x
  BY DEF Range
<1> QED
  BY <1>1 DEF IndexOf

-----------------------------------------------------------------------------
(***************************************************************************)
(* The stack of callbacks.                                                 *)
(***************************************************************************)
\* Calling a callback.
LEMMA PushFrame ==
  ASSUME NEW s \in Seq(Frame), NEW f \in Frame
  PROVE  /\ <<f>> \o s \in Seq(Frame)
         /\ Len(<<f>> \o s) = Len(s) + 1
         /\ (<<f>> \o s)[1] = f
         /\ \A k \in 1 .. Len(s) : (<<f>> \o s)[k + 1] = s[k]
  OBVIOUS

\* Returning from a callback.
LEMMA PopFrame ==
  ASSUME NEW s \in Seq(Frame), s # <<>>
  PROVE  /\ Tail(s) \in Seq(Frame)
         /\ Len(Tail(s)) = Len(s) - 1
         /\ \A k \in 1 .. Len(s) - 1 : Tail(s)[k] = s[k + 1]
         /\ Len(s) \in Nat \ {0}
         /\ s[1] \in Frame
  OBVIOUS

\* Freeing a connection under its callbacks.
LEMMA OrphanFrames ==
  ASSUME NEW s \in Seq(Frame), NEW c
  PROVE  /\ Orphan(s, c) \in Seq(Frame)
         /\ Len(Orphan(s, c)) = Len(s)
         /\ \A k \in 1 .. Len(s) :
              /\ Orphan(s, c)[k].fn = s[k].fn
              /\ Orphan(s, c)[k].conn = s[k].conn
              /\ Orphan(s, c)[k].dir = s[k].dir
              /\ s[k].conn # c => Orphan(s, c)[k] = s[k]
              /\ s[k].conn = c => Orphan(s, c)[k].freed
<1> DEFINE e(k) == IF s[k].conn = c THEN [s[k] EXCEPT !.freed = TRUE] ELSE s[k]
<1>1. ASSUME NEW k \in 1 .. Len(s)
      PROVE  e(k) \in Frame
  <2>1. s[k] \in Frame
    OBVIOUS
  <2> QED
    BY <2>1 DEF Frame
<1>2. Orphan(s, c) \in Seq(Frame) /\ Len(Orphan(s, c)) = Len(s)
  BY <1>1 DEF Orphan
<1>3. \A k \in 1 .. Len(s) : Orphan(s, c)[k] = e(k) /\ s[k] \in Frame
  BY DEF Orphan
<1> QED
  BY <1>2, <1>3 DEF Frame
-----------------------------------------------------------------------------
(***************************************************************************)
(* Type correctness.                                                       *)
(***************************************************************************)
\* The parts of TypeOK, so that a step only has to speak of the part that it
\* changes.
TypeTable ==
  /\ fds \in Seq(Obj)
  /\ pollfds \in Seq(PollFd)
  /\ backend_info \in [Obj -> Nat]
  /\ num_waiting \in Int
TypeExcl == num_exclusive \in Int /\ exclusive \in SUBSET Plan
TypePlans ==
  /\ always \in Seq(Plan)
  /\ status \in [Plan -> Status]
  /\ waitaddr \in [Plan -> WaitAddr \cup {Shutdown, NoWait}]
TypeMem == mem \in [Obj -> {"free", "live", "dying"}] /\ finish \in SUBSET Conn
TypeLoop ==
  /\ fairness_counter \in 0 .. FairMod - 1
  /\ pc \in {"main", "top", "poll", "dispatch", "in", "out", "aborted"}
  /\ r \in Int
  /\ rotation \in Nat
  /\ cur \in Conn \cup {NoConn}
  /\ evs \in SUBSET (Dir \cup {ERR})
TypeRest == io_loop_return \in BOOLEAN

\* TypeOK by groups of variables that change together.
LEMMA TypeParts ==
  TypeOK <=> TypeTable /\ TypeExcl /\ TypePlans /\ TypeMem /\ TypeLoop /\ TypeRest
               /\ stack \in Seq(Frame) /\ app \in Apps
  BY DEF TypeOK, TypeTable, TypeExcl, TypePlans, TypeMem, TypeLoop, TypeRest

\* The same for the next state.
LEMMA TypePartsPrime ==
  ASSUME app \in Apps, UNCHANGED app
  PROVE  TypeOK' <=>
           /\ TypeTable' /\ TypeExcl' /\ TypePlans' /\ TypeMem' /\ TypeLoop' /\ TypeRest'
           /\ stack' \in Seq(Frame)
  BY DEF TypeOK, TypeTable, TypeExcl, TypePlans, TypeMem, TypeLoop, TypeRest

\* The static state of poll.c is well typed before the first call.
LEMMA TypeInit == Init => TypeOK
<1> SUFFICES ASSUME Init PROVE TypeOK
  OBVIOUS
<1>1. TypeTable /\ TypeExcl
  BY DEF Init, TypeTable, TypeExcl
<1>2. TypePlans /\ TypeMem
  BY DEF Init, TypePlans, TypeMem, Status
<1>3. TypeLoop /\ stack \in Seq(Frame) /\ app \in Apps
  BY BoundAssumption DEF Init, TypeLoop
<1>4. TypeRest
  BY DEF Init, TypeRest
<1> QED
  BY <1>1, <1>2, <1>3, <1>4, TypeParts

\* add_fd keeps the types of the table.
LEMMA AddFdType ==
  ASSUME TypeTable, NEW o \in Obj, NEW E \in SUBSET Dir, NEW pfds \in Seq(PollFd),
         AddFd(o, E, pfds)
  PROVE  TypeTable'
<1>1. [events |-> E, revents |-> {}] \in PollFd
  BY DEF PollFd
<1>2. One(E # {}) \in Int
  BY DEF One
<1> QED
  BY <1>1, <1>2 DEF TypeTable, AddFd, num_fds

\* A flag counts as an integer.
LEMMA OneInt == \A b : One(b) \in Int
  BY DEF One

\* del_fd keeps the types of the table and of the exclusive flags.
LEMMA DelFdType ==
  ASSUME TypeTable, TypeExcl, NEW o \in Obj, DelFd(o)
  PROVE  TypeTable' /\ TypeExcl'
<1>1. fds' \in Seq(Obj) /\ pollfds' \in Seq(PollFd)
  BY SwapRemoveSeq DEF DelFd, TypeTable
<1>2. backend_info' \in [Obj -> Nat]
  BY DEF DelFd, Moved, TypeTable
<1>3. num_waiting' \in Int /\ num_exclusive' \in Int
  BY OneInt DEF DelFd, Uncount, Released, TypeTable, TypeExcl
<1> QED
  BY <1>1, <1>2, <1>3 DEF DelFd, TypeTable, TypeExcl

\* Changing one element of a sequence, if it is there.
LEMMA ExceptSeq ==
  ASSUME NEW S, NEW s \in Seq(S), NEW n, NEW x, n \in 1 .. Len(s) => x \in S
  PROVE  /\ [s EXCEPT ![n] = x] \in Seq(S)
         /\ Len([s EXCEPT ![n] = x]) = Len(s)
<1>1. [s EXCEPT ![n] = x] = [k \in 1 .. Len(s) |-> IF k = n THEN x ELSE s[k]]
  OBVIOUS
<1> DEFINE e(k) == IF k = n THEN x ELSE s[k]
<1>2. Len(s) \in Nat /\ \A k \in 1 .. Len(s) : e(k) \in S
  OBVIOUS
<1> HIDE DEF e
<1>3. [k \in 1 .. Len(s) |-> e(k)] \in Seq(S) /\ Len([k \in 1 .. Len(s) |-> e(k)]) = Len(s)
  BY <1>2
<1> QED
  BY <1>1, <1>3 DEF e

\* backend_new_plan keeps the types of the table.
LEMMA NewPlanType ==
  ASSUME TypeTable, NEW c, NEW E \in SUBSET Dir, BackendNewPlan(c, E)
  PROVE  TypeTable'
<1> DEFINE n == backend_info[c]
<1>1. pollfds' = [pollfds EXCEPT ![n].events = E]
  BY DEF BackendNewPlan
<1>2. ASSUME NEW k \in 1 .. Len(pollfds)
      PROVE  [pollfds[k] EXCEPT !.events = E] \in PollFd
  <2>1. pollfds[k] \in PollFd
    BY DEF TypeTable
  <2> QED
    BY <2>1 DEF PollFd
<1>3. pollfds' \in Seq(PollFd)
  BY <1>1, <1>2, ExceptSeq DEF TypeTable
<1>4. num_waiting' \in Int
  BY OneInt DEF BackendNewPlan, Uncount, TypeTable
<1> QED
  BY <1>3, <1>4 DEF BackendNewPlan, TypeTable

\* Clearing revents keeps the table's type, length and events.
LEMMA ClearedType ==
  ASSUME TypeTable
  PROVE  /\ Cleared \in Seq(PollFd)
         /\ Len(Cleared) = Len(pollfds)
<1>1. ASSUME NEW k \in 1 .. Len(pollfds)
      PROVE  [pollfds[k] EXCEPT !.revents = {}] \in PollFd
  <2>1. pollfds[k] \in PollFd
    BY DEF TypeTable
  <2> QED
    BY <2>1 DEF PollFd
<1> QED
  BY <1>1, ExceptSeq DEF TypeTable, Cleared

\* A callback in progress is a frame.
LEMMA CallType ==
  ASSUME NEW fn \in {"next", "finish", "error"}, NEW c \in Conn \cup {NoConn}, NEW d \in Dir
  PROVE  Call(fn, c, d) \in Frame
  BY DEF Call, Frame

\* remove_from_always leaves an array of plans.
LEMMA SwapTypes ==
  ASSUME TypePlans, NEW p, NEW a \in Seq(Plan)
  PROVE  RemoveFromAlways(a, p) \in Seq(Plan)
  BY SwapRemoveSeq DEF RemoveFromAlways

\* io_new_conn keeps the types of what it changes.
LEMMA NewConnType ==
  ASSUME TypeOK, NEW c \in Conn, NEW pfds \in Seq(PollFd), NewConn(c, pfds)
  PROVE  /\ TypeTable' /\ TypeMem' /\ stack' \in Seq(Frame)
         /\ status' \in [Plan -> Status]
<1>1. TypeTable'
  BY TypeParts, AddFdType DEF NewConn, Obj
<1>2. TypeMem' /\ status' \in [Plan -> Status]
  BY DEF NewConn, TypeOK, TypeMem, Status
<1>3. Call("next", c, IO_IN) \in Frame
  BY CallType DEF Dir
<1>4. stack' \in Seq(Frame)
  BY <1>3, PushFrame DEF NewConn, TypeOK
<1> QED
  BY <1>1, <1>2, <1>4

\* destroy_conn keeps the types of what it changes.
LEMMA DestroyConnType ==
  ASSUME TypeOK, NEW c \in Conn, DestroyConn(c)
  PROVE  /\ TypeTable' /\ TypeExcl' /\ TypePlans' /\ TypeMem'
         /\ stack' \in Seq(Frame)
<1>1. TypeTable' /\ TypeExcl'
  BY TypeParts, DelFdType DEF DestroyConn, Obj
<1>2. always' \in Seq(Plan)
  BY TypeParts, SwapTypes DEF DestroyConn, TypeOK
<1>3. TypePlans'
  BY <1>2 DEF DestroyConn, TypeOK, TypePlans, Status
<1>4. TypeMem'
  BY DEF DestroyConn, TypeOK, TypeMem
<1>5. Call("finish", c, IO_IN) \in Frame
  BY CallType DEF Dir
<1>6. Orphan(stack, c) \in Seq(Frame)
  BY OrphanFrames DEF TypeOK
<1>7. stack' = <<Call("finish", c, IO_IN)>> \o Orphan(stack, c) \/ stack' = Orphan(stack, c)
  BY DEF DestroyConn
<1>8. stack' \in Seq(Frame)
  BY <1>5, <1>6, <1>7, PushFrame
<1> QED
  BY <1>1, <1>3, <1>4, <1>8

\* destroy_listener keeps the types of what it changes.
LEMMA CloseListenerType ==
  ASSUME TypeOK, NEW l \in Listener, CloseListener(l)
  PROVE  TypeTable' /\ TypeExcl' /\ (finish' = finish => TypeMem')
<1>1. TypeTable' /\ TypeExcl'
  BY TypeParts, DelFdType DEF CloseListener, Obj
<1>2. finish' = finish => TypeMem'
  BY DEF CloseListener, TypeOK, TypeMem
<1> QED
  BY <1>1, <1>2

\* next_plan keeps the types of what it changes.
LEMMA NextPlanType ==
  ASSUME TypeOK, NEW c \in Conn, NEW d \in Dir, NextPlan(c, d)
  PROVE  status' \in [Plan -> Status] /\ stack' \in Seq(Frame)
<1>1. Call("next", c, d) \in Frame
  BY CallType
<1> QED
  BY <1>1, PushFrame DEF NextPlan, TypeOK, Status

\* The ways out of a rotation keep the types of the loop's variables.
LEMMA LeaveType ==
  ASSUME TypeLoop, NEW l \in {"main", "top", "poll", "aborted"}, Leave(l)
  PROVE  TypeLoop'
  BY DEF TypeLoop, Leave

\* io_ready's control flow keeps the types of the loop's variables.
LEMMA DirectionType ==
  ASSUME TypeLoop, UNCHANGED <<fairness_counter, r>>,
         NextDirection \/ ReadyReturn \/ UNCHANGED <<pc, rotation, cur, evs>>
  PROVE  TypeLoop'
  BY DEF TypeLoop, NextDirection, ReadyReturn

\* The rotation's next turn keeps the types of the loop's variables.
LEMMA NextEntryType ==
  ASSUME TypeLoop, NextEntry, r' = r - 1 \/ r' = r
  PROVE  TypeLoop'
  BY DEF TypeLoop, NextEntry

\* The entry whose turn it is exists.
LEMMA SlotInTable ==
  ASSUME TypeOK, Rotating
  PROVE  Slot \in 1 .. num_fds
<1> DEFINE x == rotation + fairness_counter
<1>1. x \in Nat /\ num_fds \in Nat \ {0}
  BY DEF TypeOK, Rotating, num_fds
<1>2. x % num_fds \in 0 .. num_fds - 1
  BY <1>1
<1> QED
  BY <1>1, <1>2 DEF Slot

\* Finitely many plans wait.
LEMMA WaitersFinite == \A w : IsFiniteSet(Waiters(w))
<1>1. IsFiniteSet(Dir)
  <2>1. Dir = ({} \cup {IO_IN}) \cup {IO_OUT}
    BY DEF Dir
  <2> QED
    BY <2>1, FS_EmptySet, FS_AddElement
<1>2. IsFiniteSet(Plan)
  BY <1>1, ConnAssumption, FS_Product DEF Plan
<1> QED
  BY <1>2, FS_Subset DEF Waiters

\* Every API call keeps TypeOK.
LEMMA AppTypeStep ==
  ASSUME IInv, AppNext, UNCHANGED app
  PROVE  TypeOK'
<1> USE DEF IInv
<1>0. app \in Apps
  BY DEF TypeOK
<1> USE <1>0
<1>1. /\ TypeOK /\ TypeTable /\ TypeExcl /\ TypePlans /\ TypeMem /\ TypeLoop /\ TypeRest
      /\ stack \in Seq(Frame)
  BY TypeParts
<1>2. ASSUME NEW c \in Conn, IoNewConn(c)
      PROVE  TypeOK'
  <2>1. /\ TypeTable' /\ TypeMem' /\ stack' \in Seq(Frame)
        /\ status' \in [Plan -> Status]
    BY <1>1, <1>2, NewConnType DEF IoNewConn, TypeTable
  <2>2. TypePlans' /\ TypeExcl' /\ TypeLoop' /\ TypeRest'
    BY <1>1, <1>2, <2>1 DEF IoNewConn, TypePlans, TypeExcl, TypeLoop, TypeRest, excl, loop
  <2> QED
    BY <2>1, <2>2, TypePartsPrime
<1>3. ASSUME NEW c \in Conn, IoClose(c)
      PROVE  TypeOK'
  <2>1. /\ TypeTable' /\ TypeExcl' /\ TypePlans' /\ TypeMem'
        /\ stack' \in Seq(Frame)
    BY <1>1, <1>3, DestroyConnType DEF IoClose
  <2>2. TypeLoop' /\ TypeRest'
    BY <1>1, <1>3 DEF IoClose, TypeLoop, TypeRest, loop
  <2> QED
    BY <2>1, <2>2, TypePartsPrime
<1>4. ASSUME NEW c \in Conn, IoSetFinish(c)
      PROVE  TypeOK'
  BY <1>1, <1>4 DEF TypeOK, IoSetFinish, table, excl, plans, loop
<1>5. ASSUME NEW l \in Listener, IoNewListener(l)
      PROVE  TypeOK'
  <2>1. TypeTable'
    BY <1>1, <1>5, AddFdType DEF IoNewListener, TypeTable, Obj, Dir
  <2>2. TypeMem' /\ TypePlans' /\ TypeExcl' /\ TypeLoop' /\ TypeRest' /\ stack' \in Seq(Frame)
    BY <1>1, <1>5 DEF IoNewListener, TypeMem, TypePlans, TypeExcl, TypeLoop, TypeRest,
                      plans, excl, loop
  <2> QED
    BY <2>1, <2>2, TypePartsPrime
<1>6. ASSUME NEW l \in Listener, IoCloseListener(l)
      PROVE  TypeOK'
  <2>1. TypeTable' /\ TypeExcl' /\ TypeMem'
    BY <1>1, <1>6, CloseListenerType DEF IoCloseListener
  <2>2. TypePlans' /\ TypeLoop' /\ TypeRest' /\ stack' \in Seq(Frame)
    BY <1>1, <1>6 DEF IoCloseListener, TypePlans, TypeLoop, TypeRest, plans, loop
  <2> QED
    BY <2>1, <2>2, TypePartsPrime
<1>7. ASSUME NEW p \in Plan, NEW b \in BOOLEAN, IoConnExclusive(p, b)
      PROVE  TypeOK'
  <2>1. exclusive' \in SUBSET Plan /\ num_exclusive' \in Int
    BY <1>1, <1>7 DEF IoConnExclusive, TypeExcl
  <2> QED
    BY <1>1, <1>7, <2>1 DEF TypeOK, IoConnExclusive, table, plans, loop
<1>8. ASSUME IoBreak
      PROVE  TypeOK'
  <2>1. TypeRest'
    BY <1>8 DEF IoBreak, TypeRest
  <2> QED
    BY <1>1, <1>8, <2>1 DEF TypeOK, TypeRest, IoBreak, table, excl, plans, loop
<1>9. ASSUME NEW w \in WaitAddr, IoWake(w)
      PROVE  TypeOK'
  <2>1. always' \in Seq(Plan)
    <3>1. PICK f \in Bijection(1 .. Cardinality(Waiters(w)), Waiters(w)) : always' = always \o f
      BY <1>9 DEF IoWake
    <3>2. f \in [1 .. Cardinality(Waiters(w)) -> Plan]
      BY DEF Bijection, Injection, Waiters
    <3>3. Cardinality(Waiters(w)) \in Nat
      BY WaitersFinite, FS_CardinalityType
    <3>4. f \in Seq(Plan)
      BY <3>2, <3>3
    <3> QED
      BY <1>1, <3>1, <3>4 DEF TypePlans
  <2>2. TypePlans'
    BY <1>1, <1>9, <2>1 DEF IoWake, TypePlans, Status
  <2> QED
    BY <1>1, <1>9, <2>2, TypePartsPrime
       DEF IoWake, TypeTable, TypeExcl, TypeMem, TypeLoop, TypeRest, table, excl, loop
<1>10. ASSUME NEW c \in Conn, NEW d \in Dir, IoPlan(c, d)
       PROVE  TypeOK'
  BY <1>1, <1>10 DEF TypeOK, IoPlan, Status, table, excl, loop
<1>11. ASSUME NEW c \in Conn, NEW d \in Dir, IoAlways(c, d)
       PROVE  TypeOK'
  <2>1. TypePlans'
    BY <1>1, <1>11 DEF IoAlways, TypePlans, Plan, Status
  <2> QED
    BY <1>1, <1>11, <2>1 DEF TypeOK, TypePlans, IoAlways, table, excl, loop
<1>12. ASSUME NEW c \in Conn, NEW d \in Dir, NEW w \in WaitAddr \cup {Shutdown}, IoWait(c, d, w)
       PROVE  TypeOK'
  BY <1>1, <1>12 DEF TypeOK, IoWait, Status, table, excl, loop
<1>13. ASSUME Return
       PROVE  TypeOK'
  <2>1. PICK E \in SUBSET Dir : BackendNewPlan(stack[1].conn, E)
    BY <1>13 DEF Return, Interest
  <2>2. TypeTable'
    BY <1>1, <2>1, NewPlanType
  <2>3. TypeLoop'
    BY <1>1, <1>13, DirectionType DEF Return
  <2>4. stack' \in Seq(Frame)
    BY <1>1, <1>13, PopFrame DEF Return
  <2>5. TypeExcl' /\ TypePlans' /\ TypeMem' /\ TypeRest'
    BY <1>1, <1>13 DEF Return, TypeExcl, TypePlans, TypeMem, TypeRest, excl, plans
  <2> QED
    BY <2>2, <2>3, <2>4, <2>5, TypePartsPrime
<1>14. ASSUME ReturnFreed
       PROVE  TypeOK'
  <2>1. TypeLoop'
    BY <1>1, <1>14, DirectionType DEF ReturnFreed
  <2>2. stack' \in Seq(Frame)
    BY <1>1, <1>14, PopFrame DEF ReturnFreed
  <2>3. TypeTable' /\ TypeExcl' /\ TypePlans' /\ TypeMem' /\ TypeRest'
    BY <1>1, <1>14 DEF ReturnFreed, TypeTable, TypeExcl, TypePlans, TypeMem, TypeRest,
                       table, excl, plans
  <2> QED
    BY <2>1, <2>2, <2>3, TypePartsPrime
<1>15. ASSUME FinishReturn \/ ErrorReturn
       PROVE  TypeOK'
  <2>1. stack' \in Seq(Frame)
    BY <1>1, <1>15, PopFrame DEF FinishReturn, ErrorReturn
  <2>2. TypeTable' /\ TypeExcl' /\ TypePlans' /\ TypeMem' /\ TypeLoop' /\ TypeRest'
    BY <1>1, <1>15 DEF FinishReturn, ErrorReturn, TypeTable, TypeExcl, TypePlans, TypeMem,
                       TypeLoop, TypeRest, table, excl, plans, loop
  <2> QED
    BY <2>1, <2>2, TypePartsPrime
<1> QED
  BY <1>2, <1>3, <1>4, <1>5, <1>6, <1>7, <1>8, <1>9, <1>10, <1>11, <1>12, <1>13, <1>14, <1>15
     DEF AppNext

\* io_ready works for a connection.
LEMMA CurConn ==
  ASSUME IInv, NEW d \in Dir, At(d)
  PROVE  /\ cur \in Conn /\ Live(cur) /\ pc = d
         /\ status[<<cur, d>>] \in Polling
         /\ Entry(cur).revents = {}
         /\ d = IO_IN /\ IO_OUT \in evs => status[<<cur, IO_OUT>>] \in Polling
  BY DEF IInv, Service, CurOK, At, IO_IN

\* poll only reports what it was asked for, and errors.
LEMMA AnswersWanted ==
  ASSUME NEW i, NEW E \in Answers(i), Polled(i) \in SUBSET Dir
  PROVE  /\ E \cap Dir \subseteq Polled(i)
         /\ E \in SUBSET (Dir \cup {ERR})
<1>1. E \in SUBSET Polled(i) \/ E = {ERR}
  BY DEF Answers
<1>2. ERR \notin Dir
  BY DEF ERR, Dir, IO_IN, IO_OUT
<1>3. CASE E \in SUBSET Polled(i)
  BY <1>3
<1>4. CASE E = {ERR}
  BY <1>2, <1>4
<1> QED
  BY <1>1, <1>3, <1>4

\* Every step of io_loop keeps TypeOK.
LEMMA LoopTypeStep ==
  ASSUME IInv, LoopNext, UNCHANGED app
  PROVE  TypeOK'
<1> USE DEF IInv
<1>0. app \in Apps
  BY DEF TypeOK
<1> USE <1>0
<1>1. /\ TypeOK /\ TypeTable /\ TypeExcl /\ TypePlans /\ TypeMem /\ TypeLoop /\ TypeRest
      /\ stack \in Seq(Frame)
  BY TypeParts
<1> DEFINE Same == UNCHANGED <<table, excl, plans, mem, finish, stack>>
<1>2. ASSUME Same, TypeLoop', TypeRest'
      PROVE  TypeOK'
  BY <1>1, <1>2 DEF TypeOK, TypeLoop, TypeRest, table, excl, plans
<1>3. ASSUME IoLoopCall \/ LoopAsleep \/ LoopPoll \/ PollInterrupted \/ RotationEnd
      PROVE  TypeOK'
  <2>1. TypeLoop'
    BY <1>1, <1>3, LeaveType DEF IoLoopCall, LoopAsleep, LoopPoll, PollInterrupted, RotationEnd
  <2>2. Same /\ TypeRest'
    BY <1>1, <1>3 DEF IoLoopCall, LoopAsleep, LoopPoll, PollInterrupted, RotationEnd, TypeRest
  <2> QED
    BY <1>2, <2>1, <2>2
<1>4. ASSUME LoopReturn
      PROVE  TypeOK'
  <2>1. TypeLoop'
    BY <1>1, <1>4, LeaveType DEF LoopReturn
  <2>2. Same /\ TypeRest'
    BY <1>4 DEF LoopReturn, TypeRest
  <2> QED
    BY <1>2, <2>1, <2>2
<1>5. ASSUME SignalBreak
      PROVE  TypeOK'
  <2>1. TypeLoop' /\ Same
    BY <1>1, <1>5 DEF SignalBreak, TypeLoop, loop
  <2>2. TypeRest'
    BY <1>5 DEF SignalBreak, TypeRest
  <2> QED
    BY <1>2, <2>1, <2>2
<1>6. ASSUME Poll
      PROVE  TypeOK'
  <2>1. Len(pollfds) = num_fds /\ num_fds \in Nat
    BY <1>1 DEF PollTable, TypeTable, num_fds
  <2>2. PICK rev \in [1 .. num_fds -> UNION {Answers(i) : i \in 1 .. num_fds}] :
          /\ \A i \in 1 .. num_fds : rev[i] \in Answers(i)
          /\ r' = Cardinality({i \in 1 .. num_fds : rev[i] # {}})
          /\ pollfds' = [i \in 1 .. num_fds |-> [pollfds[i] EXCEPT !.revents = rev[i]]]
    BY <1>6 DEF Poll, PollReturns
  <2>3. r' \in Int
    <3>1. IsFiniteSet(1 .. num_fds)
      BY <2>1, FS_Interval
    <3>2. Cardinality({i \in 1 .. num_fds : rev[i] # {}}) \in Nat
      BY <3>1, FS_Subset, FS_CardinalityType
    <3> QED
      BY <2>2, <3>2
  <2>4. ASSUME NEW i \in 1 .. num_fds
        PROVE  [pollfds[i] EXCEPT !.revents = rev[i]] \in PollFd
    <3>1. pollfds[i] \in PollFd
      BY <1>1, <2>1 DEF TypeTable
    <3>2. Polled(i) \in SUBSET Dir
      BY <3>1 DEF Polled, PollFd
    <3>3. rev[i] \in SUBSET (Dir \cup {ERR})
      BY <2>2, <3>2, AnswersWanted
    <3> QED
      BY <3>1, <3>3 DEF PollFd
  <2>5. pollfds' \in Seq(PollFd)
    <3> DEFINE e(i) == [pollfds[i] EXCEPT !.revents = rev[i]]
    <3>1. \A i \in 1 .. num_fds : e(i) \in PollFd
      BY <2>4
    <3>2. pollfds' = [i \in 1 .. num_fds |-> e(i)]
      BY <2>2
    <3> HIDE DEF e
    <3> QED
      BY <2>1, <3>1, <3>2
  <2>6. TypeTable'
    BY <1>1, <1>6, <2>5 DEF Poll, TypeTable
  <2>7. TypeLoop'
    <3>1. fairness_counter' \in 0 .. FairMod - 1
      BY <1>1, <1>6, BoundAssumption DEF Poll, NextFairness, TypeLoop
    <3> QED
      BY <1>1, <1>6, <2>3, <3>1 DEF Poll, TypeLoop
  <2>8. TypeExcl' /\ TypePlans' /\ TypeMem' /\ TypeRest' /\ stack' \in Seq(Frame)
    BY <1>1, <1>6 DEF Poll, TypeExcl, TypePlans, TypeMem, TypeRest, excl, plans
  <2> QED
    BY <2>6, <2>7, <2>8, TypePartsPrime
<1>7. ASSUME RunAlways
      PROVE  TypeOK'
  <2>1. PICK k \in Eligible : /\ always' = SwapRemove(always, k)
                              /\ NextPlan(always[k][1], always[k][2])
    BY <1>7 DEF RunAlways
  <2>2. always[k][1] \in Conn /\ always[k][2] \in Dir
    BY <1>1, <2>1 DEF Eligible, TypePlans, Plan, num_always
  <2>3. status' \in [Plan -> Status] /\ stack' \in Seq(Frame)
    BY <1>1, <2>1, <2>2, NextPlanType
  <2>4. TypePlans'
    BY <1>1, <1>7, <2>1, <2>3, SwapRemoveSeq DEF RunAlways, TypePlans
  <2>5. TypeTable'
    BY <1>1, <1>7, ClearedType DEF RunAlways, TypeTable
  <2>6. TypeLoop'
    BY <1>1, <1>7, LeaveType DEF RunAlways
  <2>7. TypeExcl' /\ TypeMem' /\ TypeRest'
    BY <1>1, <1>7 DEF RunAlways, TypeExcl, TypeMem, TypeRest, excl
  <2> QED
    BY <2>3, <2>4, <2>5, <2>6, <2>7, TypePartsPrime
<1>8. ASSUME RotationDone
      PROVE  TypeOK'
  <2>1. TypeTable'
    BY <1>1, <1>8, ClearedType DEF RotationDone, TypeTable
  <2>2. TypeLoop'
    BY <1>1, <1>8, LeaveType DEF RotationDone
  <2>3. TypeExcl' /\ TypePlans' /\ TypeMem' /\ TypeRest' /\ stack' \in Seq(Frame)
    BY <1>1, <1>8 DEF RotationDone, TypeExcl, TypePlans, TypeMem, TypeRest, excl, plans
  <2> QED
    BY <2>1, <2>2, <2>3, TypePartsPrime
<1>9. ASSUME EntryIdle
      PROVE  TypeOK'
  <2>1. TypeLoop'
    BY <1>1, <1>9, NextEntryType DEF EntryIdle
  <2>2. Same /\ TypeRest'
    BY <1>1, <1>9 DEF EntryIdle, TypeRest
  <2> QED
    BY <1>2, <2>1, <2>2
<1>10. ASSUME NEW c \in Conn, AcceptConn(c)
       PROVE  TypeOK'
  <2>1. /\ TypeTable' /\ TypeMem' /\ stack' \in Seq(Frame)
        /\ status' \in [Plan -> Status]
    BY <1>1, <1>10, ClearedType, NewConnType DEF AcceptConn
  <2>2. TypeLoop'
    BY <1>1, <1>10, NextEntryType DEF AcceptConn
  <2>3. TypeExcl' /\ TypePlans' /\ TypeRest'
    BY <1>1, <1>10, <2>1 DEF AcceptConn, TypeExcl, TypePlans, TypeRest, excl
  <2> QED
    BY <2>1, <2>2, <2>3, TypePartsPrime
<1>11. ASSUME AcceptFail
       PROVE  TypeOK'
  <2>1. TypeTable'
    BY <1>1, <1>11, ClearedType DEF AcceptFail, TypeTable
  <2>2. TypeLoop'
    BY <1>1, <1>11, NextEntryType DEF AcceptFail
  <2>3. stack' \in Seq(Frame)
    <3>1. Call("error", NoConn, IO_IN) \in Frame
      BY CallType DEF Dir
    <3> QED
      BY <1>11, <3>1 DEF AcceptFail
  <2>4. TypeExcl' /\ TypePlans' /\ TypeMem' /\ TypeRest'
    BY <1>1, <1>11 DEF AcceptFail, TypeExcl, TypePlans, TypeMem, TypeRest, excl, plans
  <2> QED
    BY <2>1, <2>2, <2>3, <2>4, TypePartsPrime
<1>12. ASSUME ListenerError
       PROVE  TypeOK'
  <2>1. TypeTable' /\ TypeExcl' /\ TypeMem'
    BY <1>1, <1>12, CloseListenerType DEF ListenerError
  <2>2. TypeLoop'
    BY <1>1, <1>12, NextEntryType DEF ListenerError
  <2>3. TypePlans' /\ TypeRest' /\ stack' \in Seq(Frame)
    BY <1>1, <1>12 DEF ListenerError, TypePlans, TypeRest, plans
  <2> QED
    BY <2>1, <2>2, <2>3, TypePartsPrime
<1>13. ASSUME ConnReady
       PROVE  TypeOK'
  <2>1. TypeTable'
    BY <1>1, <1>13, ClearedType DEF ConnReady, TypeTable
  <2>2. Revents \in SUBSET (Dir \cup {ERR})
    <3>1. Slot \in 1 .. Len(pollfds)
      BY <1>1, <1>13, SlotInTable DEF ConnReady, Serving, PollTable
    <3>2. pollfds[Slot] \in PollFd
      BY <1>1, <3>1 DEF TypeTable
    <3> QED
      BY <3>2 DEF Revents, PollFd
  <2>3. TypeLoop'
    BY <1>1, <1>13, <2>2 DEF ConnReady, TypeLoop
  <2>4. TypeExcl' /\ TypePlans' /\ TypeMem' /\ TypeRest' /\ stack' \in Seq(Frame)
    BY <1>1, <1>13 DEF ConnReady, TypeExcl, TypePlans, TypeMem, TypeRest, excl, plans
  <2> QED
    BY <2>1, <2>3, <2>4, TypePartsPrime
<1>14. ASSUME ConnError
       PROVE  TypeOK'
  <2>1. /\ TypeTable' /\ TypeExcl' /\ TypePlans' /\ TypeMem'
        /\ stack' \in Seq(Frame)
    BY <1>1, <1>14, DestroyConnType DEF ConnError
  <2>2. TypeLoop' /\ TypeRest'
    BY <1>1, <1>14, NextEntryType DEF ConnError, TypeRest
  <2> QED
    BY <2>1, <2>2, TypePartsPrime
<1>15. ASSUME NEW d \in Dir, IoAgain(d)
       PROVE  TypeOK'
  <2>1. TypeLoop'
    BY <1>1, <1>15, DirectionType DEF IoAgain
  <2>2. Same /\ TypeRest'
    BY <1>1, <1>15 DEF IoAgain, TypeRest
  <2> QED
    BY <1>2, <2>1, <2>2
<1>16. ASSUME NEW d \in Dir, IoStarted(d)
       PROVE  TypeOK'
  <2>1. TypeLoop'
    BY <1>1, <1>16, DirectionType DEF IoStarted
  <2>2. /\ TypePlans' /\ TypeTable' /\ TypeExcl' /\ TypeMem' /\ TypeRest'
        /\ stack' \in Seq(Frame)
    BY <1>1, <1>16 DEF IoStarted, TypePlans, TypeTable, TypeExcl, TypeMem, TypeRest, Status,
                       table, excl
  <2> QED
    BY <2>1, <2>2, TypePartsPrime
<1>17. ASSUME NEW d \in Dir, IoDone(d)
       PROVE  TypeOK'
  <2>1. status' \in [Plan -> Status] /\ stack' \in Seq(Frame)
    BY <1>1, <1>17, CurConn, NextPlanType DEF IoDone
  <2>2. TypePlans' /\ TypeTable' /\ TypeExcl' /\ TypeMem' /\ TypeLoop' /\ TypeRest'
    BY <1>1, <1>17, <2>1 DEF IoDone, TypePlans, TypeTable, TypeExcl, TypeMem, TypeLoop,
                             TypeRest, table, excl, loop
  <2> QED
    BY <2>1, <2>2, TypePartsPrime
<1>18. ASSUME NEW d \in Dir, IoFail(d)
       PROVE  TypeOK'
  <2>1. /\ TypeTable' /\ TypeExcl' /\ TypePlans' /\ TypeMem'
        /\ stack' \in Seq(Frame)
    BY <1>1, <1>18, CurConn, DestroyConnType DEF IoFail
  <2>2. TypeLoop' /\ TypeRest'
    BY <1>1, <1>18, DirectionType DEF IoFail, TypeRest
  <2> QED
    BY <2>1, <2>2, TypePartsPrime
<1>19. ASSUME IoEpipe
       PROVE  TypeOK'
  <2>1. PICK E \in SUBSET Dir : BackendNewPlan(cur, E)
    BY <1>19 DEF IoEpipe, Interest
  <2>2. TypeTable'
    BY <1>1, <2>1, NewPlanType
  <2>3. TypeLoop'
    BY <1>1, <1>19, DirectionType DEF IoEpipe
  <2>4. TypePlans' /\ TypeExcl' /\ TypeMem' /\ TypeRest' /\ stack' \in Seq(Frame)
    BY <1>1, <1>19 DEF IoEpipe, TypePlans, TypeExcl, TypeMem, TypeRest, Status, excl
  <2> QED
    BY <2>2, <2>3, <2>4, TypePartsPrime
<1> QED
  BY <1>3, <1>4, <1>5, <1>6, <1>7, <1>8, <1>9, <1>10, <1>11, <1>12, <1>13, <1>14, <1>15,
     <1>16, <1>17, <1>18, <1>19
     DEF LoopNext, LoopBroken, LoopEmpty, LoopExpired, PollFailed, Serve, DoPlan

\* Every step keeps TypeOK.
LEMMA TypeStep ==
  ASSUME IInv, [Next]_vars
  PROVE  TypeOK'
<1>1. CASE UNCHANGED vars
  BY <1>1 DEF IInv, TypeOK, vars, table, excl, plans, loop
<1> QED
  BY <1>1, AppTypeStep, LoopTypeStep DEF Next, Aborted
-----------------------------------------------------------------------------
(***************************************************************************)
(* The poll table.                                                         *)
(***************************************************************************)
LEMMA PollTableInit == Init => PollTable
  BY DEF Init, PollTable, num_fds, Live

\* add_fd keeps the table, and every entry.
LEMMA AddFdTable ==
  ASSUME TypeOK, PollTable, NEW o \in Obj, ~Live(o), mem' = [mem EXCEPT ![o] = "live"],
         NEW E \in SUBSET Dir, NEW pfds \in Seq(PollFd), Len(pfds) = Len(pollfds),
         AddFd(o, E, pfds)
  PROVE  /\ PollTable'
         /\ \A x \in Obj : Live(x) => /\ Live(x)'
                                      /\ backend_info'[x] = backend_info[x]
                                      /\ pollfds'[backend_info'[x]] = pfds[backend_info[x]]
         /\ pollfds'[backend_info'[o]] = [events |-> E, revents |-> {}]
<1>1. /\ fds' = Append(fds, o) /\ fds \in Seq(Obj) /\ Len(fds) \in Nat
      /\ pollfds' = Append(pfds, [events |-> E, revents |-> {}])
      /\ backend_info' = [backend_info EXCEPT ![o] = Len(fds) + 1]
      /\ backend_info \in [Obj -> Nat] /\ mem \in [Obj -> {"free", "live", "dying"}]
  BY DEF TypeOK, AddFd, num_fds
<1>2. /\ Len(fds') = Len(fds) + 1 /\ Len(pollfds') = Len(pfds) + 1
      /\ \A i \in 1 .. Len(fds) : fds'[i] = fds[i]
      /\ \A i \in 1 .. Len(pfds) : pollfds'[i] = pfds[i]
      /\ fds'[Len(fds) + 1] = o
      /\ pollfds'[Len(pfds) + 1] = [events |-> E, revents |-> {}]
  BY <1>1
<1>3. /\ Len(pollfds) = Len(fds)
      /\ \A x \in Obj : IF mem[x] = "live" THEN /\ backend_info[x] \in 1 .. Len(fds)
                                                /\ fds[backend_info[x]] = x
                                           ELSE backend_info[x] = 0
      /\ \A i \in 1 .. Len(fds) :
           fds[i] \in Obj /\ mem[fds[i]] = "live" /\ backend_info[fds[i]] = i
  BY <1>1 DEF PollTable, Live, num_fds
<1>4. \A x \in Obj : mem'[x] = (IF x = o THEN "live" ELSE mem[x])
  BY <1>1
<1>5. \A x \in Obj : backend_info'[x] = (IF x = o THEN Len(fds) + 1 ELSE backend_info[x])
  BY <1>1
<1>6. \A x \in Obj : IF mem'[x] = "live" THEN /\ backend_info'[x] \in 1 .. Len(fds')
                                              /\ fds'[backend_info'[x]] = x
                                         ELSE backend_info'[x] = 0
  BY <1>1, <1>2, <1>3, <1>4, <1>5
<1>7. ASSUME NEW i \in 1 .. Len(fds')
      PROVE  mem'[fds'[i]] = "live" /\ backend_info'[fds'[i]] = i
  BY <1>1, <1>2, <1>3, <1>4, <1>5 DEF Live
<1>8. PollTable'
  BY <1>2, <1>3, <1>6, <1>7 DEF PollTable, Live, num_fds
<1> QED
  BY <1>2, <1>3, <1>4, <1>5, <1>8 DEF Live

\* del_fd keeps the table, and every other entry although it may be moved.
LEMMA DelFdTable ==
  ASSUME TypeOK, PollTable, NEW o \in Obj, Live(o), NEW m \in {"free", "dying"},
         mem' = [mem EXCEPT ![o] = m], DelFd(o)
  PROVE  /\ PollTable'
         /\ \A x \in Obj : x # o => /\ Live(x)' <=> Live(x)
                                    /\ Live(x) => /\ backend_info[x] \in 1 .. Len(pollfds)
                                                  /\ pollfds'[backend_info'[x]] = pollfds[backend_info[x]]
<1> DEFINE n == backend_info[o]
           z == Len(fds)
<1>1. /\ fds \in Seq(Obj) /\ z \in Nat /\ pollfds \in Seq(PollFd)
      /\ backend_info \in [Obj -> Nat] /\ mem \in [Obj -> {"free", "live", "dying"}]
      /\ fds' = SwapRemove(fds, n) /\ pollfds' = SwapRemove(pollfds, n)
      /\ backend_info' = [backend_info EXCEPT ![fds[z]] = n, ![o] = 0]
  BY DEF TypeOK, DelFd, Moved, num_fds
<1>2. /\ Len(pollfds) = z
      /\ \A x \in Obj : IF mem[x] = "live" THEN backend_info[x] \in 1 .. z /\ fds[backend_info[x]] = x
                                           ELSE backend_info[x] = 0
      /\ \A i \in 1 .. z :
           fds[i] \in Obj /\ mem[fds[i]] = "live" /\ backend_info[fds[i]] = i
  BY <1>1 DEF PollTable, Live, num_fds
<1>3. n \in 1 .. z /\ fds[n] = o
  BY <1>2 DEF Live
<1> HIDE DEF n, z
<1>4. /\ Len(fds') = z - 1 /\ Len(pollfds') = z - 1
      /\ \A k \in 1 .. z - 1 : /\ fds'[k] = IF k = n THEN fds[z] ELSE fds[k]
                               /\ pollfds'[k] = IF k = n THEN pollfds[z] ELSE pollfds[k]
  <2>1. n \in 1 .. Len(fds) /\ n \in 1 .. Len(pollfds) /\ z = Len(pollfds) /\ z = Len(fds)
    BY <1>2, <1>3 DEF z
  <2>2. /\ Len(fds') = z - 1
        /\ \A k \in 1 .. z - 1 : fds'[k] = IF k = n THEN fds[z] ELSE fds[k]
    <3>1. /\ Len(SwapRemove(fds, n)) = Len(fds) - 1
          /\ \A k \in 1 .. Len(fds) - 1 :
               SwapRemove(fds, n)[k] = IF k = n THEN fds[Len(fds)] ELSE fds[k]
      BY <1>1, <2>1, SwapRemoveType
    <3> QED
      BY <1>1, <2>1, <3>1
  <2>3. /\ Len(pollfds') = z - 1
        /\ \A k \in 1 .. z - 1 : pollfds'[k] = IF k = n THEN pollfds[z] ELSE pollfds[k]
    <3>1. /\ Len(SwapRemove(pollfds, n)) = Len(pollfds) - 1
          /\ \A k \in 1 .. Len(pollfds) - 1 :
               SwapRemove(pollfds, n)[k] = IF k = n THEN pollfds[Len(pollfds)] ELSE pollfds[k]
      BY <1>1, <2>1, SwapRemoveType
    <3> QED
      BY <1>1, <2>1, <3>1
  <2> QED
    BY <2>2, <2>3
<1>5. \A x \in Obj : mem'[x] = (IF x = o THEN m ELSE mem[x])
  BY <1>1
<1>6. fds[z] \in Obj /\ mem[fds[z]] = "live" /\ backend_info[fds[z]] = z
  BY <1>1, <1>2, <1>3
<1>7. \A x \in Obj : backend_info'[x] = (IF x = o THEN 0 ELSE IF x = fds[z] THEN n ELSE backend_info[x])
  BY <1>1, <1>6
<1>8. ASSUME NEW x \in Obj, x # o, mem[x] = "live"
      PROVE  /\ backend_info'[x] \in 1 .. z - 1
             /\ fds'[backend_info'[x]] = x
             /\ pollfds'[backend_info'[x]] = pollfds[backend_info[x]]
  <2>1. backend_info[x] \in 1 .. z /\ fds[backend_info[x]] = x /\ backend_info[x] # n
    BY <1>2, <1>3, <1>8
  <2>2. CASE x = fds[z]
    <3>1. backend_info'[x] = n /\ backend_info[x] = z /\ n # z
      BY <1>3, <1>6, <1>7, <1>8, <2>2
    <3> QED
      BY <1>1, <1>3, <1>4, <2>2, <3>1
  <2>3. CASE x # fds[z]
    <3>1. backend_info'[x] = backend_info[x] /\ backend_info[x] # z
      BY <1>7, <1>8, <2>1, <2>3
    <3> QED
      BY <1>1, <1>4, <2>1, <3>1
  <2> QED
    BY <2>2, <2>3
<1>9. ASSUME NEW i \in 1 .. z - 1
      PROVE  mem'[fds'[i]] = "live" /\ backend_info'[fds'[i]] = i
  <2>1. CASE i = n
    <3>1. fds'[i] = fds[z] /\ n # z /\ fds[z] # o
      BY <1>1, <1>3, <1>4, <1>6, <2>1 DEF n
    <3> QED
      BY <1>5, <1>6, <1>7, <2>1, <3>1
  <2>2. CASE i # n
    <3>1. fds'[i] = fds[i] /\ i \in 1 .. z /\ i # z
      BY <1>1, <1>4, <2>2
    <3>2. fds[i] \in Obj /\ mem[fds[i]] = "live" /\ backend_info[fds[i]] = i
      BY <1>2, <3>1
    <3>3. fds[i] # o /\ fds[i] # fds[z]
      BY <1>6, <2>2, <3>1, <3>2 DEF n
    <3> QED
      BY <1>5, <1>7, <3>1, <3>2, <3>3
  <2> QED
    BY <2>1, <2>2
<1>10. ASSUME NEW x \in Obj
       PROVE  IF mem'[x] = "live" THEN backend_info'[x] \in 1 .. Len(fds') /\ fds'[backend_info'[x]] = x
                                  ELSE backend_info'[x] = 0
  <2>1. CASE x = o
    BY <1>5, <1>7, <2>1
  <2>2. CASE x # o /\ mem[x] = "live"
    BY <1>4, <1>5, <1>8, <2>2
  <2>3. CASE x # o /\ mem[x] # "live"
    BY <1>2, <1>5, <1>6, <1>7, <2>3
  <2> QED
    BY <2>1, <2>2, <2>3
<1>11. PollTable'
  BY <1>4, <1>9, <1>10 DEF PollTable, Live, num_fds
<1> QED
  BY <1>2, <1>5, <1>8, <1>11 DEF Live

\* destroy_conn keeps the table correct and leaves every other object's entry as it is,
\* wherever it was moved.
LEMMA DestroyConnTable ==
  ASSUME TypeOK, PollTable, NEW c \in Conn, DestroyConn(c)
  PROVE  /\ PollTable' /\ ~Live(c)'
         /\ \A x \in Obj : x # c => /\ mem'[x] = mem[x]
                                    /\ Live(x) => Entry(x)' = Entry(x)
<1>1. c \in Obj /\ Live(c) /\ DelFd(c)
  BY DEF DestroyConn, Live, Obj
<1>2. PICK m \in {"free", "dying"} : mem' = [mem EXCEPT ![c] = m]
  BY DEF DestroyConn
<1>3. /\ PollTable'
      /\ \A x \in Obj : x # c => (Live(x) => Entry(x)' = Entry(x))
  BY <1>1, <1>2, DelFdTable DEF Entry
<1> QED
  BY <1>1, <1>2, <1>3 DEF TypeOK, Live

\* The same for destroy_listener.
LEMMA CloseListenerTable ==
  ASSUME TypeOK, PollTable, NEW l \in Listener, CloseListener(l)
  PROVE  /\ PollTable'
         /\ \A x \in Conn : /\ mem'[x] = mem[x]
                            /\ Live(x) => Entry(x)' = Entry(x)
<1>1. l \in Obj /\ Live(l) /\ DelFd(l) /\ mem' = [mem EXCEPT ![l] = "free"]
  BY DEF CloseListener, Live, Obj
<1>2. /\ PollTable'
      /\ \A x \in Obj : x # l => (Live(x) => Entry(x)' = Entry(x))
  BY <1>1, DelFdTable DEF Entry
<1>3. \A x \in Conn : x \in Obj /\ x # l
  BY ConnAssumption DEF Obj
<1> QED
  BY <1>1, <1>2, <1>3 DEF TypeOK

\* io_new_conn keeps the table correct and leaves the other entries alone.
LEMMA NewConnTable ==
  ASSUME TypeOK, PollTable, NEW c \in Conn, NEW pfds \in Seq(PollFd),
         Len(pfds) = Len(pollfds), NewConn(c, pfds)
  PROVE  /\ PollTable' /\ ~Live(c) /\ Live(c)'
         /\ Entry(c)' = [events |-> {}, revents |-> {}]
         /\ \A x \in Obj : x # c => /\ mem'[x] = mem[x]
                                    /\ Live(x) => Entry(x)' = pfds[backend_info[x]]
<1>1. c \in Obj /\ ~Live(c) /\ AddFd(c, {}, pfds) /\ mem' = [mem EXCEPT ![c] = "live"]
  BY DEF NewConn, Live, Obj
<1>2. /\ PollTable'
      /\ \A x \in Obj : Live(x) => Entry(x)' = pfds[backend_info[x]]
      /\ Entry(c)' = [events |-> {}, revents |-> {}]
  BY <1>1, AddFdTable DEF Entry
<1> QED
  BY <1>1, <1>2 DEF TypeOK, Live

\* The table stays as it is when no entry comes or goes.
LEMMA SameTable ==
  ASSUME PollTable, UNCHANGED <<fds, backend_info, mem>>, Len(pollfds') = Len(pollfds)
  PROVE  PollTable'
  BY DEF PollTable, Live, num_fds

\* backend_new_plan does not change the size of the table.
LEMMA NewPlanLen ==
  ASSUME TypeOK, NEW c, NEW E, BackendNewPlan(c, E)
  PROVE  Len(pollfds') = Len(pollfds)
<1>1. pollfds' = [pollfds EXCEPT ![backend_info[c]] = [pollfds[backend_info[c]] EXCEPT !.events = E]]
  BY DEF BackendNewPlan
<1> QED
  BY <1>1 DEF TypeOK

\* Nor does poll.
LEMMA PollLen ==
  ASSUME TypeOK, PollTable, Poll
  PROVE  Len(pollfds') = Len(pollfds)
<1>1. Len(pollfds) = Len(fds) /\ Len(fds) \in Nat
  BY DEF TypeOK, PollTable, num_fds
<1>2. PICK rev : pollfds' = [i \in 1 .. Len(fds) |-> [pollfds[i] EXCEPT !.revents = rev[i]]]
  BY DEF Poll, PollReturns, num_fds
<1> QED
  BY <1>1, <1>2

\* Every step keeps PollTable.
LEMMA PollTableStep ==
  ASSUME IInv, [Next]_vars
  PROVE  PollTable'
<1>1. TypeOK /\ PollTable /\ TypeTable /\ pollfds \in Seq(PollFd)
  BY TypeParts DEF IInv, TypeTable
<1>2. Cleared \in Seq(PollFd) /\ Len(Cleared) = Len(pollfds)
  BY <1>1, ClearedType
<1>3. ASSUME NEW c \in Conn, IoNewConn(c) \/ AcceptConn(c)
      PROVE  PollTable'
  BY <1>1, <1>2, <1>3, NewConnTable DEF IoNewConn, AcceptConn
<1>4. ASSUME NEW c \in Conn, DestroyConn(c)
      PROVE  PollTable'
  BY <1>1, <1>4, DestroyConnTable
<1>5. ASSUME NEW l \in Listener, CloseListener(l)
      PROVE  PollTable'
  BY <1>1, <1>5, CloseListenerTable
<1>6. ASSUME NEW l \in Listener, IoNewListener(l)
      PROVE  PollTable'
  <2>1. l \in Obj /\ ~Live(l) /\ {IO_IN} \in SUBSET Dir
    BY <1>6 DEF IoNewListener, Live, Obj, Dir
  <2> QED
    BY <1>1, <1>6, <2>1, AddFdTable DEF IoNewListener
<1>7. ASSUME Return \/ IoEpipe
      PROVE  PollTable'
  <2>1. PICK c, E : BackendNewPlan(c, E)
    BY <1>7 DEF Return, IoEpipe
  <2> QED
    BY <1>1, <1>7, <2>1, NewPlanLen, SameTable DEF BackendNewPlan, Return, IoEpipe
<1>8. ASSUME FinishReturn
      PROVE  PollTable'
  <2>1. stack[1].conn \in Obj /\ ~Live(stack[1].conn)
    <3>1. 1 \in 1 .. Len(stack)
      BY <1>1, <1>8 DEF FinishReturn, TypeOK
    <3>2. stack[1].conn \in Conn /\ mem[stack[1].conn] = "dying"
      BY <1>8, <3>1 DEF IInv, FramesOK, FramesFor, FinishFrame, FinishReturn
    <3> QED
      BY <3>2 DEF Live, Obj
  <2>2. \A x \in Obj : Live(x)' <=> Live(x)
    BY <1>1, <1>8, <2>1 DEF FinishReturn, TypeOK, Live
  <2>3. UNCHANGED <<fds, pollfds, backend_info>> /\ \A i \in 1 .. Len(fds) : fds[i] \in Obj
    BY <1>1, <1>8 DEF FinishReturn, TypeOK, table
  <2> QED
    BY <1>1, <2>2, <2>3 DEF PollTable, num_fds
<1>9. ASSUME Poll
      PROVE  PollTable'
  BY <1>1, <1>9, PollLen, SameTable DEF Poll
<1>10. ASSUME UNCHANGED <<fds, backend_info, mem>>, pollfds' = Cleared \/ pollfds' = pollfds
       PROVE  PollTable'
  BY <1>1, <1>2, <1>10, SameTable
<1>11. ASSUME AppNext
       PROVE  PollTable'
  BY <1>3, <1>4, <1>5, <1>6, <1>7, <1>8, <1>10, <1>11
     DEF AppNext, IoClose, IoSetFinish, IoCloseListener, IoConnExclusive, IoBreak, IoWake,
         IoPlan, IoAlways, IoWait, ReturnFreed, ErrorReturn, table
<1>12. ASSUME Serve \/ DoPlan
       PROVE  PollTable'
  <2>1. \A d \in Dir : IoFail(d) => cur \in Conn
    BY CurConn DEF IoFail
  <2> QED
    BY <1>3, <1>4, <1>5, <1>7, <1>10, <1>12, <2>1
       DEF Serve, DoPlan, EntryIdle, AcceptFail, ListenerError, ConnReady, ConnError,
           IoAgain, IoStarted, IoDone, IoFail, table
<1>13. ASSUME LoopNext
       PROVE  PollTable'
  BY <1>9, <1>10, <1>12, <1>13
     DEF LoopNext, IoLoopCall, LoopBroken, LoopEmpty, LoopAsleep, LoopExpired, LoopPoll,
         LoopReturn, PollInterrupted, PollFailed, SignalBreak, RotationEnd, RunAlways,
         RotationDone, table
<1> QED
  BY <1>10, <1>11, <1>13 DEF Next, Aborted, vars, table
-----------------------------------------------------------------------------
(***************************************************************************)
(* The callbacks in progress.                                              *)
(***************************************************************************)
LEMMA FramesInit == Init => FramesOK
  BY DEF Init, FramesOK, FramesFor

\* A callback is called: its connection has none in progress yet.
LEMMA FramesPush ==
  ASSUME NEW s \in Seq(Frame), NEW m, FramesFor(s, m), NEW f \in Frame,
         f.fn # "error" => f.conn \in Conn,
         NextFrame(f) => /\ m[f.conn] = "live"
                         /\ \A k \in 1 .. Len(s) : NextFrame(s[k]) => s[k].conn # f.conn,
         FinishFrame(f) => /\ m[f.conn] = "dying"
                           /\ \A k \in 1 .. Len(s) : FinishFrame(s[k]) => s[k].conn # f.conn
  PROVE  FramesFor(<<f>> \o s, m)
<1> DEFINE t == <<f>> \o s
<1>1. /\ Len(s) \in Nat /\ Len(t) = Len(s) + 1 /\ t[1] = f
      /\ \A k \in 1 .. Len(s) : t[k + 1] = s[k]
  BY PushFrame
<1> HIDE DEF t
<1>2. \A k \in 1 .. Len(t) : k = 1 \/ (k - 1 \in 1 .. Len(s) /\ t[k] = s[k - 1])
  BY <1>1
<1>3. \A k \in 1 .. Len(t) :
        /\ t[k].fn # "error" => t[k].conn \in Conn
        /\ NextFrame(t[k]) => m[t[k].conn] = "live"
        /\ FinishFrame(t[k]) => m[t[k].conn] = "dying"
  BY <1>1, <1>2 DEF FramesFor
<1>4. ASSUME NEW j \in 1 .. Len(t), NEW k \in 1 .. Len(t), t[j].conn = t[k].conn,
             \/ NextFrame(t[j]) /\ NextFrame(t[k])
             \/ FinishFrame(t[j]) /\ FinishFrame(t[k])
      PROVE  j = k
  <2>1. CASE j # 1 /\ k # 1
    <3>1. /\ j - 1 \in 1 .. Len(s) /\ t[j] = s[j - 1]
          /\ k - 1 \in 1 .. Len(s) /\ t[k] = s[k - 1]
      BY <1>2, <2>1
    <3>2. j - 1 = k - 1
      BY <1>4, <3>1 DEF FramesFor
    <3> QED
      BY <3>2
  <2>2. CASE j = 1 /\ k # 1
    <3>1. k - 1 \in 1 .. Len(s) /\ t[k] = s[k - 1] /\ t[j] = f
      BY <1>1, <1>2, <2>2
    <3> QED
      BY <1>4, <3>1
  <2>3. CASE j # 1 /\ k = 1
    <3>1. j - 1 \in 1 .. Len(s) /\ t[j] = s[j - 1] /\ t[k] = f
      BY <1>1, <1>2, <2>3
    <3> QED
      BY <1>4, <3>1
  <2> QED
    BY <2>1, <2>2, <2>3
<1> QED
  BY <1>3, <1>4 DEF FramesFor, t

\* A callback returns.
LEMMA FramesPop ==
  ASSUME NEW s \in Seq(Frame), NEW m, FramesFor(s, m), s # <<>>
  PROVE  FramesFor(Tail(s), m)
<1>1. /\ Len(s) \in Nat \ {0} /\ Len(Tail(s)) = Len(s) - 1
      /\ \A k \in 1 .. Len(s) - 1 : Tail(s)[k] = s[k + 1]
  BY PopFrame
<1>2. \A k \in 1 .. Len(Tail(s)) : k + 1 \in 1 .. Len(s) /\ Tail(s)[k] = s[k + 1]
  BY <1>1
<1>3. \A k \in 1 .. Len(Tail(s)) :
        /\ Tail(s)[k].fn # "error" => Tail(s)[k].conn \in Conn
        /\ NextFrame(Tail(s)[k]) => m[Tail(s)[k].conn] = "live"
        /\ FinishFrame(Tail(s)[k]) => m[Tail(s)[k].conn] = "dying"
  BY <1>2 DEF FramesFor
<1>4. ASSUME NEW j \in 1 .. Len(Tail(s)), NEW k \in 1 .. Len(Tail(s)),
             Tail(s)[j].conn = Tail(s)[k].conn,
             \/ NextFrame(Tail(s)[j]) /\ NextFrame(Tail(s)[k])
             \/ FinishFrame(Tail(s)[j]) /\ FinishFrame(Tail(s)[k])
      PROVE  j = k
  <2>1. /\ j + 1 \in 1 .. Len(s) /\ Tail(s)[j] = s[j + 1]
        /\ k + 1 \in 1 .. Len(s) /\ Tail(s)[k] = s[k + 1]
    BY <1>2
  <2>2. j + 1 = k + 1
    BY <1>4, <2>1 DEF FramesFor
  <2> QED
    BY <2>2
<1> QED
  BY <1>3, <1>4 DEF FramesFor

\* Frames only depend on whether their connections are live or dying.
LEMMA FramesMem ==
  ASSUME NEW s, NEW m, NEW n, FramesFor(s, m),
         \A k \in 1 .. Len(s) : /\ NextFrame(s[k]) => n[s[k].conn] = "live"
                                /\ FinishFrame(s[k]) => n[s[k].conn] = "dying"
  PROVE  FramesFor(s, n)
  BY DEF FramesFor

\* Closing c: none of its callbacks counts any more.
LEMMA FramesOrphan ==
  ASSUME NEW s \in Seq(Frame), NEW m \in [Obj -> {"free", "live", "dying"}], FramesFor(s, m),
         NEW c \in Conn, m[c] = "live", NEW x
  PROVE  /\ FramesFor(Orphan(s, c), [m EXCEPT ![c] = x])
         /\ \A k \in 1 .. Len(s) :
              NextFrame(Orphan(s, c)[k]) \/ FinishFrame(Orphan(s, c)[k])
                => s[k].conn # c /\ Orphan(s, c)[k] = s[k]
<1> DEFINE t == Orphan(s, c)
           n == [m EXCEPT ![c] = x]
<1>1. /\ Len(t) = Len(s)
      /\ \A k \in 1 .. Len(s) : /\ t[k].fn = s[k].fn /\ t[k].conn = s[k].conn
                                /\ s[k].conn # c => t[k] = s[k]
                                /\ s[k].conn = c => t[k].freed
  <2>1. \A k \in 1 .. Len(s) :
          /\ Orphan(s, c)[k].fn = s[k].fn
          /\ Orphan(s, c)[k].conn = s[k].conn
          /\ s[k].conn # c => Orphan(s, c)[k] = s[k]
          /\ s[k].conn = c => Orphan(s, c)[k].freed
    BY OrphanFrames
  <2>2. Len(Orphan(s, c)) = Len(s)
    BY OrphanFrames
  <2> QED
    BY <2>1, <2>2
<1>2. \A y \in Conn : y # c => n[y] = m[y]
  BY DEF Obj
<1> HIDE DEF t, n
<1>3. ASSUME NEW k \in 1 .. Len(s), NextFrame(t[k]) \/ FinishFrame(t[k])
      PROVE  s[k].conn # c /\ t[k] = s[k]
  <2>1. CASE NextFrame(t[k])
    BY <1>1, <2>1 DEF NextFrame
  <2>2. CASE FinishFrame(t[k])
    <3>1. FinishFrame(s[k])
      BY <1>1, <2>2 DEF FinishFrame
    <3>2. m[s[k].conn] = "dying"
      BY <3>1 DEF FramesFor
    <3> QED
      BY <1>1, <3>2
  <2> QED
    BY <1>3, <2>1, <2>2
<1>4. \A k \in 1 .. Len(t) :
        /\ t[k].fn # "error" => t[k].conn \in Conn
        /\ NextFrame(t[k]) => n[t[k].conn] = "live"
        /\ FinishFrame(t[k]) => n[t[k].conn] = "dying"
  BY <1>1, <1>2, <1>3 DEF FramesFor, NextFrame, FinishFrame
<1>5. ASSUME NEW j \in 1 .. Len(t), NEW k \in 1 .. Len(t), t[j].conn = t[k].conn,
             \/ NextFrame(t[j]) /\ NextFrame(t[k])
             \/ FinishFrame(t[j]) /\ FinishFrame(t[k])
      PROVE  j = k
  <2>1. j \in 1 .. Len(s) /\ k \in 1 .. Len(s) /\ t[j] = s[j] /\ t[k] = s[k]
    BY <1>1, <1>3, <1>5
  <2> QED
    BY <1>5, <2>1 DEF FramesFor
<1> QED
  BY <1>3, <1>4, <1>5 DEF FramesFor, t, n

\* Calling a new connection's or a finished plan's next callback.
LEMMA FramesCall ==
  ASSUME NEW s \in Seq(Frame), NEW m, FramesFor(s, m), NEW c \in Conn, NEW d \in Dir,
         m[c] = "live", \A k \in 1 .. Len(s) : NextFrame(s[k]) => s[k].conn # c
  PROVE  FramesFor(<<Call("next", c, d)>> \o s, m)
<1> DEFINE f == Call("next", c, d)
<1>1. f \in Frame
  BY CallType
<1>2. f.fn = "next" /\ f.conn = c /\ ~FinishFrame(f)
  BY DEF Call, FinishFrame
<1> HIDE DEF f
<1>3. NextFrame(f) => /\ m[f.conn] = "live"
                      /\ \A k \in 1 .. Len(s) : NextFrame(s[k]) => s[k].conn # f.conn
  BY <1>2
<1>4. FramesFor(<<f>> \o s, m)
  BY <1>1, <1>2, <1>3, FramesPush
<1> QED
  BY <1>4 DEF f

\* io_new_conn calls init for a connection that did not exist.
LEMMA NewConnFrames ==
  ASSUME TypeOK, FramesOK, NEW c \in Conn, NEW pfds, NewConn(c, pfds)
  PROVE  FramesOK'
<1>1. /\ stack \in Seq(Frame) /\ mem \in [Obj -> {"free", "live", "dying"}] /\ c \in Obj
      /\ mem[c] = "free" /\ mem' = [mem EXCEPT ![c] = "live"]
      /\ stack' = <<Call("next", c, IO_IN)>> \o stack
  BY DEF TypeOK, NewConn, Obj
<1>2. \A k \in 1 .. Len(stack) :
        /\ NextFrame(stack[k]) => stack[k].conn # c /\ mem'[stack[k].conn] = "live"
        /\ FinishFrame(stack[k]) => stack[k].conn # c /\ mem'[stack[k].conn] = "dying"
  BY <1>1 DEF FramesOK, FramesFor, NextFrame, FinishFrame, Obj
<1>3. FramesFor(stack, mem')
  BY <1>2, FramesMem DEF FramesOK
<1>4. IO_IN \in Dir /\ mem'[c] = "live"
  BY <1>1 DEF Dir
<1>5. \A k \in 1 .. Len(stack) : NextFrame(stack[k]) => stack[k].conn # c
  BY <1>2
<1> DEFINE m == mem'
<1>6. stack \in Seq(Frame) /\ FramesFor(stack, m) /\ m[c] = "live"
  BY <1>1, <1>3, <1>4
<1> HIDE DEF m
<1>7. FramesFor(<<Call("next", c, IO_IN)>> \o stack, m)
  BY <1>4, <1>5, <1>6, FramesCall
<1> QED
  BY <1>1, <1>7 DEF FramesOK, m

\* destroy_conn orphans the callbacks of the connection and calls finish.
LEMMA DestroyConnFrames ==
  ASSUME TypeOK, FramesOK, NEW c \in Conn, DestroyConn(c)
  PROVE  FramesOK'
<1>1. /\ stack \in Seq(Frame) /\ mem \in [Obj -> {"free", "live", "dying"}] /\ c \in Obj
      /\ mem[c] = "live" /\ FramesFor(stack, mem)
  BY DEF TypeOK, DestroyConn, FramesOK, Obj
<1>2. /\ Orphan(stack, c) \in Seq(Frame)
      /\ Len(Orphan(stack, c)) = Len(stack)
      /\ \A x : FramesFor(Orphan(stack, c), [mem EXCEPT ![c] = x])
      /\ \A k \in 1 .. Len(stack) :
           FinishFrame(Orphan(stack, c)[k]) => Orphan(stack, c)[k].conn # c
  <2> DEFINE t == Orphan(stack, c)
  <2>1. t \in Seq(Frame) /\ Len(t) = Len(stack)
    BY <1>1, OrphanFrames
  <2>2. \A x : FramesFor(t, [mem EXCEPT ![c] = x])
    BY <1>1, FramesOrphan
  <2>3. \A k \in 1 .. Len(stack) : FinishFrame(t[k]) => t[k].conn # c
    <3>1. \A k \in 1 .. Len(stack) :
            NextFrame(t[k]) \/ FinishFrame(t[k]) => stack[k].conn # c /\ t[k] = stack[k]
      BY <1>1, FramesOrphan
    <3> HIDE DEF t
    <3> QED
      BY <3>1
  <2> QED
    BY <2>1, <2>2, <2>3
<1>3. CASE c \notin finish
  BY <1>2, <1>3 DEF DestroyConn, FramesOK
<1>4. CASE c \in finish
  <2> DEFINE f == Call("finish", c, IO_IN)
             n == [mem EXCEPT ![c] = "dying"]
             t == Orphan(stack, c)
  <2>1. f \in Frame
    BY CallType DEF Dir
  <2>2. f.fn = "finish" /\ f.conn = c /\ ~NextFrame(f)
    BY DEF Call, NextFrame
  <2>3. stack' = <<f>> \o t /\ mem' = n /\ n[c] = "dying"
    BY <1>1, <1>4 DEF DestroyConn
  <2>4. /\ t \in Seq(Frame) /\ Len(t) = Len(stack) /\ FramesFor(t, n)
        /\ \A k \in 1 .. Len(stack) : FinishFrame(t[k]) => t[k].conn # c
    BY <1>2
  <2> HIDE DEF f, n, t
  <2>5. /\ FinishFrame(f) => /\ n[f.conn] = "dying"
                             /\ \A k \in 1 .. Len(t) : FinishFrame(t[k]) => t[k].conn # f.conn
        /\ f.fn # "error" => f.conn \in Conn
    BY <2>2, <2>3, <2>4
  <2>6. FramesFor(<<f>> \o t, n)
    BY <2>1, <2>2, <2>4, <2>5, FramesPush
  <2> QED
    BY <2>3, <2>6 DEF FramesOK
<1> QED
  BY <1>3, <1>4

\* Every step keeps FramesOK.
LEMMA FramesStep ==
  ASSUME IInv, [Next]_vars
  PROVE  FramesOK'
<1>1. /\ TypeOK /\ FramesOK /\ stack \in Seq(Frame)
      /\ mem \in [Obj -> {"free", "live", "dying"}]
  BY DEF IInv, TypeOK
<1>2. ASSUME NEW c \in Conn, IoNewConn(c) \/ AcceptConn(c)
      PROVE  FramesOK'
  BY <1>1, <1>2, NewConnFrames DEF IoNewConn, AcceptConn
<1>3. ASSUME NEW c \in Conn, DestroyConn(c)
      PROVE  FramesOK'
  BY <1>1, <1>3, DestroyConnFrames
<1>4. ASSUME NEW l \in Listener, IoNewListener(l) \/ IoCloseListener(l)
      PROVE  FramesOK'
  <2>1. stack' = stack /\ \A c \in Conn : mem'[c] = mem[c]
    BY <1>1, <1>4, ConnAssumption DEF IoNewListener, IoCloseListener, CloseListener, Obj
  <2> QED
    BY <1>1, <2>1 DEF FramesOK, FramesFor, NextFrame, FinishFrame
<1>5. ASSUME ListenerError
      PROVE  FramesOK'
  <2>1. stack' = stack /\ \A c \in Conn : mem'[c] = mem[c]
    BY <1>1, <1>5, ConnAssumption DEF ListenerError, CloseListener, Obj
  <2> QED
    BY <1>1, <2>1 DEF FramesOK, FramesFor, NextFrame, FinishFrame
<1>6. ASSUME stack # <<>>, stack' = Tail(stack), mem' = mem
      PROVE  FramesOK'
  BY <1>1, <1>6, FramesPop DEF FramesOK
<1>7. ASSUME FinishReturn
      PROVE  FramesOK'
  <2>1. /\ stack # <<>> /\ FinishFrame(stack[1]) /\ stack' = Tail(stack)
        /\ mem' = [mem EXCEPT ![stack[1].conn] = "free"]
    BY <1>7 DEF FinishReturn, FinishFrame
  <2>2. /\ Len(stack) \in Nat \ {0} /\ Len(Tail(stack)) = Len(stack) - 1
        /\ \A k \in 1 .. Len(stack) - 1 : Tail(stack)[k] = stack[k + 1]
    BY <1>1, <2>1, PopFrame
  <2>3. mem[stack[1].conn] = "dying" /\ stack[1].conn \in Conn
    BY <1>1, <2>1, <2>2 DEF FramesOK, FramesFor, FinishFrame
  <2>4. ASSUME NEW k \in 1 .. Len(Tail(stack)),
               NextFrame(Tail(stack)[k]) \/ FinishFrame(Tail(stack)[k])
        PROVE  mem'[Tail(stack)[k].conn] = mem[Tail(stack)[k].conn]
    <3>1. k + 1 \in 1 .. Len(stack) /\ Tail(stack)[k] = stack[k + 1] /\ k + 1 # 1
      BY <2>2
    <3>2. stack[k + 1].conn # stack[1].conn
      <4>1. CASE NextFrame(stack[k + 1])
        BY <1>1, <2>3, <3>1, <4>1 DEF FramesOK, FramesFor
      <4>2. CASE FinishFrame(stack[k + 1])
        <5>1. 1 \in 1 .. Len(stack)
          BY <2>2
        <5> QED
          BY <1>1, <2>1, <3>1, <4>2, <5>1 DEF FramesOK, FramesFor
      <4> QED
        BY <2>4, <3>1, <4>1, <4>2
    <3>3. stack[k + 1].conn \in Conn
      BY <1>1, <2>4, <3>1 DEF FramesOK, FramesFor, NextFrame, FinishFrame
    <3> QED
      BY <1>1, <2>1, <3>1, <3>2, <3>3 DEF Obj
  <2>5. FramesFor(Tail(stack), mem)
    BY <1>1, <2>1, FramesPop DEF FramesOK
  <2>6. FramesFor(Tail(stack), mem')
    BY <2>4, <2>5, FramesMem DEF FramesFor
  <2> QED
    BY <2>1, <2>6 DEF FramesOK
<1>8. ASSUME stack = <<>>, NEW c \in Conn, NEW d \in Dir, Live(c), NextPlan(c, d), mem' = mem
      PROVE  FramesOK'
  <2>1. /\ FramesFor(stack, mem) /\ mem[c] = "live"
        /\ \A k \in 1 .. Len(stack) : NextFrame(stack[k]) => stack[k].conn # c
    BY <1>1, <1>8 DEF FramesOK, Live
  <2>2. FramesFor(<<Call("next", c, d)>> \o stack, mem)
    BY <1>1, <2>1, FramesCall
  <2> QED
    BY <1>8, <2>2 DEF FramesOK, NextPlan
<1>9. ASSUME RunAlways
      PROVE  FramesOK'
  <2>1. PICK k \in 1 .. Len(always) : NextPlan(always[k][1], always[k][2])
    BY <1>9 DEF RunAlways, Eligible, num_always
  <2>2. always[k] \in Plan /\ status[always[k]] = "always"
    BY DEF IInv, TypeOK, AlwaysList, Range
  <2>3. always[k][1] \in Conn /\ always[k][2] \in Dir /\ Live(always[k][1])
    BY <2>2 DEF IInv, PlansLive, Plan
  <2> QED
    BY <1>8, <1>9, <2>1, <2>3 DEF RunAlways, Rotating, At
<1>10. ASSUME NEW d \in Dir, IoDone(d)
       PROVE  FramesOK'
  BY <1>8, <1>10, CurConn DEF IoDone, At
<1>11. ASSUME AcceptFail
       PROVE  FramesOK'
  <2>1. /\ mem' = mem
        /\ stack' = <<Call("error", NoConn, IO_IN)>> \/ stack' = <<>>
    BY <1>11 DEF AcceptFail
  <2>2. /\ Call("error", NoConn, IO_IN).fn = "error"
        /\ ~NextFrame(Call("error", NoConn, IO_IN))
        /\ ~FinishFrame(Call("error", NoConn, IO_IN))
    BY DEF Call, NextFrame, FinishFrame
  <2>3. \A k \in 1 .. Len(stack') : stack'[k] = Call("error", NoConn, IO_IN)
    BY <2>1
  <2> QED
    BY <2>1, <2>2, <2>3 DEF FramesOK, FramesFor
<1>12. ASSUME UNCHANGED <<stack, mem>>
       PROVE  FramesOK'
  BY <1>1, <1>12 DEF FramesOK
<1>13. ASSUME AppNext
       PROVE  FramesOK'
  BY <1>2, <1>3, <1>4, <1>6, <1>7, <1>12, <1>13
     DEF AppNext, IoClose, IoSetFinish, IoConnExclusive, IoBreak, IoWake, IoPlan, IoAlways,
         IoWait, Return, ReturnFreed, ErrorReturn
<1>14. ASSUME Serve \/ DoPlan
       PROVE  FramesOK'
  <2>1. \A d \in Dir : IoFail(d) => cur \in Conn
    BY CurConn DEF IoFail
  <2> QED
    BY <1>2, <1>3, <1>5, <1>10, <1>11, <1>12, <1>14, <2>1
       DEF Serve, DoPlan, EntryIdle, ConnReady, ConnError, IoAgain, IoStarted, IoFail, IoEpipe
<1>15. ASSUME LoopNext
       PROVE  FramesOK'
  BY <1>9, <1>12, <1>14, <1>15
     DEF LoopNext, IoLoopCall, LoopBroken, LoopEmpty, LoopAsleep, LoopExpired, LoopPoll,
         LoopReturn, Poll, PollInterrupted, PollFailed, SignalBreak, RotationEnd, RotationDone
<1> QED
  BY <1>12, <1>13, <1>15 DEF Next, Aborted, vars
-----------------------------------------------------------------------------
(***************************************************************************)
(* Plans.                                                                  *)
(***************************************************************************)
\* No connection has a plan at the start.
LEMMA PlansInit == Init => PlansLive /\ AlwaysList
<1>1. ASSUME Init
      PROVE  /\ always = <<>>
             /\ \A p \in Plan : status[p] = "unset"
  BY <1>1 DEF Init
<1> QED
  BY <1>1 DEF PlansLive, AlwaysList, IsInjective, Range

\* The connection of a callback that was not orphaned is live.
LEMMA TopLive ==
  ASSUME TypeOK, FramesOK, stack # <<>>, NextFrame(stack[1])
  PROVE  stack[1].conn \in Conn /\ Live(stack[1].conn) /\ InCallback(stack[1].conn)
<1>1. 1 \in 1 .. Len(stack)
  BY DEF TypeOK
<1> QED
  BY <1>1 DEF FramesOK, FramesFor, NextFrame, Live, InCallback

\* A callback that may give c a plan is one of c's.
LEMMA MayPlanLive ==
  ASSUME TypeOK, FramesOK, NEW c \in Conn, NEW d \in Dir, MayPlan(c, d)
  PROVE  Live(c) /\ InCallback(c) /\ status[<<c, d>>] = "unset" /\ <<c, d>> \in Plan
<1>1. stack # <<>> /\ NextFrame(stack[1]) /\ stack[1].conn = c /\ status[<<c, d>>] = "unset"
  BY DEF MayPlan, NextFrame
<1> QED
  BY <1>1, TopLive DEF Plan

\* While io_ready is at work, its connection is live and the plan it tries
\* polls.
LEMMA CurPolls ==
  ASSUME IInv, NEW d \in Dir, At(d)
  PROVE  CurOK /\ status[<<cur, d>>] \in Polling /\ <<cur, d>> \in Plan /\ pc = d
  BY DEF IInv, Service, At, CurOK, Plan

\* Taking a request off the always array.
LEMMA TakenAlways ==
  ASSUME IInv, RunAlways
  PROVE  \E k \in 1 .. Len(always) :
           /\ always[k] \in Plan /\ status[always[k]] = "always"
           /\ always[k][1] \in Conn /\ always[k][2] \in Dir
           /\ always[k] = <<always[k][1], always[k][2]>>
           /\ Live(always[k][1])
           /\ always' = SwapRemove(always, k)
           /\ NextPlan(always[k][1], always[k][2])
<1>1. PICK k \in 1 .. Len(always) : /\ NextPlan(always[k][1], always[k][2])
                                    /\ always' = SwapRemove(always, k)
  BY DEF RunAlways, Eligible, num_always
<1>2. always[k] \in Plan /\ status[always[k]] = "always"
  BY DEF IInv, TypeOK, AlwaysList, Range
<1>3. always[k][1] \in Conn /\ always[k][2] \in Dir /\ Live(always[k][1])
      /\ always[k] = <<always[k][1], always[k][2]>>
  BY <1>2 DEF IInv, PlansLive, Plan
<1> QED
  BY <1>1, <1>2, <1>3

\* A plan's connection after a step that frees nothing.
LEMMA PlansKept ==
  ASSUME PlansLive, \A p \in Plan : Live(p[1]) => Live(p[1])',
         \A p \in Plan : status'[p] # "unset" => status[p] # "unset" \/ Live(p[1])
  PROVE  PlansLive'
  BY DEF PlansLive

\* Steps that leave every connection as live as it was.
LEMMA ListenerMem ==
  ASSUME TypeOK, NEW l \in Listener, NEW x, mem' = [mem EXCEPT ![l] = x]
  PROVE  \A c \in Conn : mem'[c] = mem[c]
  BY ConnAssumption DEF TypeOK, Obj

\* Every step keeps PlansLive.
LEMMA PlansStep ==
  ASSUME IInv, [Next]_vars
  PROVE  PlansLive'
<1>1. /\ TypeOK /\ FramesOK /\ PlansLive
      /\ mem \in [Obj -> {"free", "live", "dying"}] /\ status \in [Plan -> Status]
      /\ Conn \subseteq Obj
  BY DEF IInv, TypeOK, Obj
<1>2. \A p \in Plan : p[1] \in Conn /\ p[2] \in Dir /\ p = <<p[1], p[2]>>
  BY DEF Plan
<1>3. ASSUME NEW c \in Conn, NEW pfds, NewConn(c, pfds)
      PROVE  PlansLive'
  <2>1. /\ \A p \in Plan : Live(p[1]) => Live(p[1])'
        /\ \A p \in Plan : status'[p] # "unset" => status[p] # "unset"
    BY <1>1, <1>2, <1>3 DEF NewConn, Live, Status
  <2> QED
    BY <1>1, <2>1, PlansKept
<1>4. ASSUME NEW c \in Conn, DestroyConn(c)
      PROVE  PlansLive'
  <2>1. \A p \in Plan : p[1] = c => status'[p] = "unset"
    BY <1>1, <1>2, <1>4 DEF DestroyConn, Dir, IO_IN, IO_OUT
  <2>2. \A p \in Plan : p[1] # c => status'[p] = status[p]
    BY <1>1, <1>2, <1>4 DEF DestroyConn
  <2>3. \A x \in Conn : x # c => mem'[x] = mem[x]
    BY <1>1, <1>4 DEF DestroyConn
  <2> QED
    BY <1>1, <1>2, <2>1, <2>2, <2>3 DEF PlansLive, Live
<1>5. ASSUME NEW l \in Listener, NEW x, mem' = [mem EXCEPT ![l] = x], status' = status
      PROVE  PlansLive'
  BY <1>1, <1>2, <1>5, ListenerMem DEF PlansLive, Live
<1>6. ASSUME NEW c \in Conn, NEW d \in Dir, NEW x, Live(c), mem' = mem,
             status' = [status EXCEPT ![<<c, d>>] = x]
      PROVE  PlansLive'
  <2>1. \A p \in Plan : status'[p] # "unset" => status[p] # "unset" \/ Live(p[1])
    BY <1>1, <1>2, <1>6
  <2> QED
    BY <1>1, <1>6, <2>1, PlansKept DEF Live
<1>7. ASSUME NEW c \in Conn, NEW d \in Dir,
             IoPlan(c, d) \/ IoAlways(c, d) \/ \E w : IoWait(c, d, w)
      PROVE  PlansLive'
  <2>1. Live(c)
    BY <1>1, <1>7, MayPlanLive DEF IoPlan, IoAlways, IoWait
  <2> QED
    BY <1>6, <1>7, <2>1 DEF IoPlan, IoAlways, IoWait
<1>8. ASSUME NEW w, IoWake(w)
      PROVE  PlansLive'
  <2>1. \A p \in Plan : status'[p] # "unset" => status[p] # "unset"
    BY <1>1, <1>8 DEF IoWake, Waiters
  <2> QED
    BY <1>1, <1>8, <2>1, PlansKept DEF IoWake, Live
<1>9. ASSUME FinishReturn
      PROVE  PlansLive'
  <2>1. 1 \in 1 .. Len(stack)
    BY <1>1, <1>9 DEF FinishReturn, TypeOK
  <2>2. stack[1].conn \in Conn /\ mem[stack[1].conn] = "dying"
    BY <1>1, <1>9, <2>1 DEF FramesOK, FramesFor, FinishFrame, FinishReturn
  <2>3. \A p \in Plan : Live(p[1]) => Live(p[1])'
    BY <1>1, <1>2, <1>9, <2>2 DEF FinishReturn, Live
  <2> QED
    BY <1>1, <1>9, <2>3, PlansKept DEF FinishReturn, plans
<1>10. ASSUME RunAlways
       PROVE  PlansLive'
  BY <1>6, <1>10, TakenAlways DEF RunAlways, NextPlan
<1>11. ASSUME NEW d \in Dir, IoStarted(d) \/ IoDone(d)
       PROVE  PlansLive'
  BY <1>6, <1>11, CurPolls DEF IoStarted, IoDone, NextPlan, CurOK
<1>12. ASSUME IoEpipe
       PROVE  PlansLive'
  BY <1>6, <1>12, CurPolls DEF IoEpipe, CurOK, Dir
<1>13. ASSUME UNCHANGED <<mem, status>>
       PROVE  PlansLive'
  BY <1>1, <1>13 DEF PlansLive, Live
<1>14. ASSUME AppNext
       PROVE  PlansLive'
  BY <1>3, <1>4, <1>5, <1>7, <1>8, <1>9, <1>13, <1>14
     DEF AppNext, IoNewConn, IoClose, IoSetFinish, IoNewListener, IoCloseListener,
         CloseListener, IoConnExclusive, IoBreak, Return, ReturnFreed, ErrorReturn, plans
<1>15. ASSUME Serve \/ DoPlan
       PROVE  PlansLive'
  <2>1. \A d \in Dir : IoFail(d) => cur \in Conn
    BY CurConn DEF IoFail
  <2> QED
    BY <1>3, <1>4, <1>5, <1>11, <1>12, <1>13, <1>15, <2>1
       DEF Serve, DoPlan, EntryIdle, AcceptConn, AcceptFail, ListenerError, CloseListener,
           ConnReady, ConnError, IoAgain, IoFail, plans
<1>16. ASSUME LoopNext
       PROVE  PlansLive'
  BY <1>10, <1>13, <1>15, <1>16
     DEF LoopNext, IoLoopCall, LoopBroken, LoopEmpty, LoopAsleep, LoopExpired, LoopPoll,
         LoopReturn, Poll, PollInterrupted, PollFailed, SignalBreak, RotationEnd, RotationDone,
         plans
<1> QED
  BY <1>13, <1>14, <1>16 DEF Next, Aborted, vars, plans
-----------------------------------------------------------------------------
(***************************************************************************)
(* The always array.                                                       *)
(***************************************************************************)
\* A holds exactly the plans of P, each once.
Holds(a, P) == a \in Seq(Plan) /\ IsInjective(a) /\ Range(a) = P

\* The plans whose status is IO_ALWAYS.
AlwaysPlans == {p \in Plan : status[p] = "always"}

\* AlwaysList says that always holds exactly the plans with status IO_ALWAYS.
LEMMA AlwaysHolds ==
  ASSUME always \in Seq(Plan)
  PROVE  AlwaysList <=> Holds(always, AlwaysPlans)
  BY DEF AlwaysList, Holds, AlwaysPlans

\* backend_new_always.
LEMMA HoldsAppend ==
  ASSUME NEW a, NEW P, Holds(a, P), NEW p \in Plan, p \notin P
  PROVE  Holds(Append(a, p), P \cup {p})
<1> DEFINE b == Append(a, p)
<1>1. /\ a \in Seq(Plan) /\ Len(a) \in Nat /\ b \in Seq(Plan) /\ Len(b) = Len(a) + 1
      /\ DOMAIN a = 1 .. Len(a) /\ DOMAIN b = 1 .. Len(a) + 1
      /\ \A k \in 1 .. Len(a) : b[k] = a[k]
      /\ b[Len(a) + 1] = p
  BY DEF Holds
<1> HIDE DEF b
<1>2. \A k \in 1 .. Len(a) : a[k] # p
  BY <1>1 DEF Holds, Range
<1>3. IsInjective(b)
  BY <1>1, <1>2 DEF Holds, IsInjective
<1>4. Range(b) \subseteq P \cup {p}
  BY <1>1 DEF Holds, Range
<1>5. P \cup {p} \subseteq Range(b)
  <2>1. \A q \in P : \E k \in 1 .. Len(a) : a[k] = q
    BY <1>1 DEF Holds, Range
  <2>2. \A q \in P : \E k \in DOMAIN b : b[k] = q
    BY <1>1, <2>1
  <2>3. \E k \in DOMAIN b : b[k] = p
    BY <1>1
  <2> QED
    BY <2>2, <2>3 DEF Range
<1> QED
  BY <1>1, <1>3, <1>4, <1>5 DEF Holds, b

\* remove_from_always, and handle_always.
LEMMA HoldsRemove ==
  ASSUME NEW a, NEW P, Holds(a, P), NEW k \in 1 .. Len(a)
  PROVE  Holds(SwapRemove(a, k), P \ {a[k]})
<1>1. a \in Seq(Plan) /\ IsInjective(a) /\ Range(a) = P
  BY DEF Holds
<1>2. SwapRemove(a, k) \in Seq(Plan)
  BY <1>1, SwapRemoveSeq
<1>3. IsInjective(SwapRemove(a, k)) /\ Range(SwapRemove(a, k)) = P \ {a[k]}
  BY <1>1, SwapRemoveElems
<1> QED
  BY <1>2, <1>3 DEF Holds

\* remove_from_always takes out one plan, if it is there.
LEMMA HoldsRemovePlan ==
  ASSUME NEW a, NEW P, Holds(a, P), NEW p, status[p] = "always" <=> p \in P
  PROVE  Holds(RemoveFromAlways(a, p), P \ {p})
<1>1. CASE status[p] # "always"
  BY <1>1 DEF RemoveFromAlways
<1>2. CASE status[p] = "always"
  <2>1. a \in Seq(Plan) /\ p \in Range(a)
    BY <1>2 DEF Holds
  <2>2. IndexOf(a, p) \in 1 .. Len(a) /\ a[IndexOf(a, p)] = p
    BY <2>1, IndexOfFound
  <2>3. Holds(SwapRemove(a, IndexOf(a, p)), P \ {p})
    BY <2>2, HoldsRemove
  <2> QED
    BY <1>2, <2>3 DEF RemoveFromAlways
<1> QED
  BY <1>1, <1>2

\* backend_wake.
LEMMA HoldsConcat ==
  ASSUME NEW a, NEW P, Holds(a, P), NEW W \in SUBSET Plan, P \cap W = {}, NEW n \in Nat,
         NEW f \in Bijection(1 .. n, W)
  PROVE  Holds(a \o f, P \cup W)
<1> DEFINE b == a \o f
<1>1. /\ f \in [1 .. n -> W] /\ \A j, k \in 1 .. n : f[j] = f[k] => j = k
      /\ \A w \in W : \E k \in 1 .. n : f[k] = w
  BY DEF Bijection, Injection, Surjection, IsInjective
<1>2. f \in Seq(Plan) /\ Len(f) = n
  BY <1>1
<1>3. /\ a \in Seq(Plan) /\ Len(a) \in Nat
      /\ DOMAIN a = 1 .. Len(a)
  BY DEF Holds
<1>4. /\ b \in Seq(Plan) /\ Len(b) = Len(a) + n
      /\ \A k \in 1 .. Len(a) : b[k] = a[k]
      /\ \A k \in 1 .. n : b[Len(a) + k] = f[k]
  BY <1>2, <1>3
<1> HIDE DEF b
<1>5. DOMAIN b = 1 .. Len(a) + n
  BY <1>3, <1>4
<1>6. \A k \in 1 .. Len(a) + n :
        \/ k \in 1 .. Len(a) /\ b[k] = a[k] /\ b[k] \in P
        \/ k - Len(a) \in 1 .. n /\ b[k] = f[k - Len(a)] /\ b[k] \in W
  <2> SUFFICES ASSUME NEW k \in 1 .. Len(a) + n
               PROVE  \/ k \in 1 .. Len(a) /\ b[k] = a[k] /\ b[k] \in P
                      \/ k - Len(a) \in 1 .. n /\ b[k] = f[k - Len(a)] /\ b[k] \in W
    OBVIOUS
  <2>1. CASE k <= Len(a)
    BY <1>3, <1>4, <2>1 DEF Holds, Range
  <2>2. CASE k > Len(a)
    <3> DEFINE j == k - Len(a)
    <3>1. j \in 1 .. n /\ k = Len(a) + j
      BY <1>3, <2>2
    <3>2. b[k] = f[j]
      BY <1>4, <3>1
    <3> QED
      BY <1>1, <3>1, <3>2
  <2> QED
    BY <1>3, <2>1, <2>2
<1>7. ASSUME NEW j \in DOMAIN b, NEW k \in DOMAIN b, b[j] = b[k]
      PROVE  j = k
  <2>1. CASE j \in 1 .. Len(a) /\ b[j] = a[j] /\ b[j] \in P
    <3>1. k \in 1 .. Len(a) /\ b[k] = a[k]
      BY <1>5, <1>6, <1>7, <2>1
    <3> QED
      BY <1>3, <1>7, <2>1, <3>1 DEF Holds, IsInjective
  <2>2. CASE j - Len(a) \in 1 .. n /\ b[j] = f[j - Len(a)] /\ b[j] \in W
    <3>1. k - Len(a) \in 1 .. n /\ b[k] = f[k - Len(a)]
      BY <1>5, <1>6, <1>7, <2>2
    <3>2. j - Len(a) = k - Len(a)
      BY <1>1, <1>7, <2>2, <3>1
    <3> QED
      BY <1>3, <1>5, <3>2
  <2> QED
    BY <1>5, <1>6, <2>1, <2>2
<1>8. IsInjective(b)
  BY <1>7 DEF IsInjective
<1>9. Range(b) \subseteq P \cup W
  BY <1>5, <1>6 DEF Range
<1>10. \A q \in P \cup W : \E k \in DOMAIN b : b[k] = q
  <2>1. ASSUME NEW q \in P
        PROVE  \E k \in DOMAIN b : b[k] = q
    <3>1. PICK k \in 1 .. Len(a) : a[k] = q
      BY <1>3 DEF Holds, Range
    <3> QED
      BY <1>3, <1>4, <1>5, <3>1
  <2>2. ASSUME NEW q \in W
        PROVE  \E k \in DOMAIN b : b[k] = q
    <3>1. PICK k \in 1 .. n : f[k] = q
      BY <1>1
    <3>2. Len(a) + k \in DOMAIN b /\ b[Len(a) + k] = q
      BY <1>3, <1>4, <1>5, <3>1
    <3> QED
      BY <3>2
  <2> QED
    BY <2>1, <2>2
<1>11. P \cup W \subseteq Range(b)
  BY <1>10 DEF Range
<1> QED
  BY <1>4, <1>8, <1>9, <1>11 DEF Holds, b

\* Closing a connection takes its requests off the array.
LEMMA DestroyConnAlways ==
  ASSUME TypeOK, AlwaysList, NEW c \in Conn, DestroyConn(c)
  PROVE  AlwaysList'
<1> DEFINE p == <<c, IO_IN>>
           q == <<c, IO_OUT>>
           a == RemoveFromAlways(always, p)
<1>1. /\ p \in Plan /\ q \in Plan /\ p # q
      /\ always \in Seq(Plan) /\ status \in [Plan -> Status]
  BY DEF TypeOK, Plan, Dir, IO_IN, IO_OUT
<1>2. Holds(always, AlwaysPlans)
  BY <1>1, AlwaysHolds
<1>3. /\ always' = RemoveFromAlways(a, q)
      /\ status' = [status EXCEPT ![p] = "unset", ![q] = "unset"]
  BY DEF DestroyConn
<1>4. /\ status[p] = "always" <=> p \in AlwaysPlans
      /\ status[q] = "always" <=> q \in AlwaysPlans \ {p}
  BY <1>1 DEF AlwaysPlans
<1>5. AlwaysPlans' = (AlwaysPlans \ {p}) \ {q}
  BY <1>1, <1>3 DEF AlwaysPlans
<1> HIDE DEF p, q
<1>6. Holds(a, AlwaysPlans \ {p})
  BY <1>2, <1>4, HoldsRemovePlan
<1> HIDE DEF a
<1>7. Holds(always', AlwaysPlans')
  BY <1>3, <1>4, <1>5, <1>6, HoldsRemovePlan
<1> QED
  BY <1>7 DEF Holds, AlwaysPlans, AlwaysList

\* The array stays as it is when no plan becomes or stops being IO_ALWAYS.
LEMMA SameAlways ==
  ASSUME AlwaysList, always' = always,
         \A p \in Plan : status'[p] = "always" <=> status[p] = "always"
  PROVE  AlwaysList'
  BY DEF AlwaysList

\* Every step keeps AlwaysList.
LEMMA AlwaysStep ==
  ASSUME IInv, [Next]_vars
  PROVE  AlwaysList'
<1>1. /\ TypeOK /\ FramesOK /\ PlansLive /\ AlwaysList
      /\ always \in Seq(Plan) /\ status \in [Plan -> Status] /\ Conn \subseteq Obj
  BY DEF IInv, TypeOK, Obj
<1>2. \A p \in Plan : p[1] \in Conn /\ p[2] \in Dir /\ p = <<p[1], p[2]>>
  BY DEF Plan
<1>3. ASSUME NEW c \in Conn, IoNewConn(c) \/ AcceptConn(c)
      PROVE  AlwaysList'
  <2>1. mem[c] = "free" /\ always' = always
        /\ status' = [status EXCEPT ![<<c, IO_IN>>] = "unset", ![<<c, IO_OUT>>] = "unset"]
    BY <1>3 DEF IoNewConn, AcceptConn, NewConn
  <2>2. \A p \in Plan : p[1] = c => status[p] = "unset" /\ status'[p] = "unset"
    BY <1>1, <1>2, <2>1 DEF PlansLive, Live
  <2>3. \A p \in Plan : p[1] # c => status'[p] = status[p]
    BY <1>1, <1>2, <2>1
  <2> QED
    BY <1>1, <2>1, <2>2, <2>3, SameAlways
<1>4. ASSUME NEW c \in Conn, DestroyConn(c)
      PROVE  AlwaysList'
  BY <1>1, <1>4, DestroyConnAlways
<1>5. ASSUME NEW p \in Plan, NEW x, status[p] # "always", x # "always", always' = always,
             status' = [status EXCEPT ![p] = x]
      PROVE  AlwaysList'
  <2>1. \A q \in Plan : status'[q] = "always" <=> status[q] = "always"
    BY <1>1, <1>5
  <2> QED
    BY <1>1, <1>5, <2>1, SameAlways
<1>6. ASSUME NEW c \in Conn, NEW d \in Dir, IoPlan(c, d) \/ \E w : IoWait(c, d, w)
      PROVE  AlwaysList'
  <2>1. <<c, d>> \in Plan /\ status[<<c, d>>] = "unset"
    BY <1>1, <1>6, MayPlanLive DEF IoPlan, IoWait
  <2> QED
    BY <1>5, <1>6, <2>1 DEF IoPlan, IoWait
<1>7. ASSUME NEW c \in Conn, NEW d \in Dir, IoAlways(c, d)
      PROVE  AlwaysList'
  <2> DEFINE p == <<c, d>>
  <2>1. p \in Plan /\ status[p] = "unset"
    BY <1>1, <1>7, MayPlanLive DEF IoAlways
  <2>2. always' = Append(always, p) /\ status' = [status EXCEPT ![p] = "always"]
    BY <1>7 DEF IoAlways
  <2> HIDE DEF p
  <2>3. AlwaysPlans' = AlwaysPlans \cup {p} /\ p \notin AlwaysPlans
    BY <1>1, <2>1, <2>2 DEF AlwaysPlans
  <2>4. Holds(always', AlwaysPlans')
    BY <1>1, <2>1, <2>2, <2>3, AlwaysHolds, HoldsAppend
  <2> QED
    BY <2>4 DEF Holds, AlwaysPlans, AlwaysList
<1>8. ASSUME NEW w, IoWake(w)
      PROVE  AlwaysList'
  <2> DEFINE n == Cardinality(Waiters(w))
             W == Waiters(w)
  <2>1. n \in Nat /\ W \in SUBSET Plan /\ \A p \in W : status[p] = "waiting"
    BY WaitersFinite, FS_CardinalityType DEF Waiters
  <2>2. /\ status' = [p \in Plan |-> IF p \in W THEN "always" ELSE status[p]]
        /\ \E f \in Bijection(1 .. n, W) : always' = always \o f
    BY <1>8 DEF IoWake
  <2> HIDE DEF n, W
  <2>3. PICK f \in Bijection(1 .. n, W) : always' = always \o f
    BY <2>2
  <2>4. AlwaysPlans' = AlwaysPlans \cup W /\ AlwaysPlans \cap W = {}
    BY <1>1, <2>1, <2>2 DEF AlwaysPlans
  <2>5. Holds(always, AlwaysPlans)
    BY <1>1, AlwaysHolds
  <2>6. Holds(always \o f, AlwaysPlans \cup W)
    BY <2>1, <2>4, <2>5, HoldsConcat
  <2> QED
    BY <2>3, <2>4, <2>6 DEF Holds, AlwaysPlans, AlwaysList
<1>9. ASSUME RunAlways
      PROVE  AlwaysList'
  <2>1. PICK k \in 1 .. Len(always) :
           /\ always[k] \in Plan /\ always[k] = <<always[k][1], always[k][2]>>
           /\ always' = SwapRemove(always, k)
           /\ NextPlan(always[k][1], always[k][2])
    BY <1>9, TakenAlways
  <2>2. status' = [status EXCEPT ![always[k]] = "unset"]
    BY <2>1 DEF NextPlan
  <2>3. AlwaysPlans' = AlwaysPlans \ {always[k]}
    BY <1>1, <2>1, <2>2 DEF AlwaysPlans
  <2>4. Holds(always, AlwaysPlans)
    BY <1>1, AlwaysHolds
  <2>5. Holds(SwapRemove(always, k), AlwaysPlans \ {always[k]})
    BY <2>4, HoldsRemove
  <2> QED
    BY <2>1, <2>3, <2>5 DEF Holds, AlwaysPlans, AlwaysList
<1>10. ASSUME NEW d \in Dir, IoStarted(d) \/ IoDone(d)
       PROVE  AlwaysList'
  <2>1. <<cur, d>> \in Plan /\ status[<<cur, d>>] # "always"
    BY <1>10, CurPolls DEF IoStarted, IoDone, Polling
  <2> QED
    BY <1>5, <1>10, <2>1 DEF IoStarted, IoDone, NextPlan
<1>11. ASSUME IoEpipe
       PROVE  AlwaysList'
  <2>1. <<cur, IO_OUT>> \in Plan /\ status[<<cur, IO_OUT>>] # "always"
    BY <1>11, CurPolls DEF IoEpipe, Polling, Dir
  <2> QED
    BY <1>5, <1>11, <2>1 DEF IoEpipe
<1>12. ASSUME UNCHANGED <<always, status>>
       PROVE  AlwaysList'
  BY <1>1, <1>12 DEF AlwaysList
<1>13. ASSUME AppNext
       PROVE  AlwaysList'
  BY <1>3, <1>4, <1>6, <1>7, <1>8, <1>12, <1>13
     DEF AppNext, IoClose, IoSetFinish, IoNewListener, IoCloseListener, IoConnExclusive,
         IoBreak, Return, ReturnFreed, FinishReturn, ErrorReturn, plans
<1>14. ASSUME Serve \/ DoPlan
       PROVE  AlwaysList'
  <2>1. \A d \in Dir : IoFail(d) => cur \in Conn
    BY CurConn DEF IoFail
  <2> QED
    BY <1>3, <1>4, <1>10, <1>11, <1>12, <1>14, <2>1
       DEF Serve, DoPlan, EntryIdle, AcceptFail, ListenerError, ConnReady, ConnError,
           IoAgain, IoFail, plans
<1>15. ASSUME LoopNext
       PROVE  AlwaysList'
  BY <1>9, <1>12, <1>14, <1>15
     DEF LoopNext, IoLoopCall, LoopBroken, LoopEmpty, LoopAsleep, LoopExpired, LoopPoll,
         LoopReturn, Poll, PollInterrupted, PollFailed, SignalBreak, RotationEnd, RotationDone,
         plans
<1> QED
  BY <1>12, <1>13, <1>15 DEF Next, Aborted, vars, plans
-----------------------------------------------------------------------------
(***************************************************************************)
(* What a step leaves as it was, as one connection sees it.                *)
(***************************************************************************)
\* x is as live as before and keeps its callback, the events it polls for and
\* those it wants; no event is reported to it that was not before.
Kept(x) ==
  /\ Live(x)' <=> Live(x)
  /\ InCallback(x) => InCallback(x)'
  /\ Interest(x)' = Interest(x)
  /\ Live(x) => /\ Entry(x)'.events = Entry(x).events
                /\ Entry(x)'.revents \subseteq Entry(x).revents

\* s holds a callback of x.
Calls(s, x) == \E k \in 1 .. Len(s) : NextFrame(s[k]) /\ s[k].conn = x

\* InCallback by the stack.
LEMMA CallsIn == \A x : InCallback(x) <=> Calls(stack, x)
  BY DEF InCallback, Calls, NextFrame

\* The same for the next state.
LEMMA CallsInPrime == \A x : InCallback(x)' <=> Calls(stack', x)
  BY DEF InCallback, Calls, NextFrame

\* What is in progress stays in progress when a callback is called.
LEMMA CallsPush ==
  ASSUME NEW s \in Seq(Frame), NEW f \in Frame
  PROVE  /\ \A x : Calls(s, x) => Calls(<<f>> \o s, x)
         /\ NextFrame(f) => Calls(<<f>> \o s, f.conn)
<1> DEFINE t == <<f>> \o s
<1>1. /\ Len(s) \in Nat /\ Len(t) = Len(s) + 1 /\ t[1] = f
      /\ \A k \in 1 .. Len(s) : t[k + 1] = s[k]
  BY PushFrame
<1> HIDE DEF t
<1>2. ASSUME NEW x, Calls(s, x)
      PROVE  Calls(t, x)
  <2>1. PICK k \in 1 .. Len(s) : NextFrame(s[k]) /\ s[k].conn = x
    BY <1>2 DEF Calls
  <2>2. k + 1 \in 1 .. Len(t) /\ NextFrame(t[k + 1]) /\ t[k + 1].conn = x
    BY <1>1, <2>1
  <2> QED
    BY <2>2 DEF Calls
<1>3. NextFrame(f) => Calls(t, f.conn)
  BY <1>1 DEF Calls
<1> QED
  BY <1>2, <1>3 DEF t

\* A callback that returns ends only its own connection's.
LEMMA CallsPop ==
  ASSUME NEW s \in Seq(Frame), s # <<>>, NEW x, Calls(s, x), ~(NextFrame(s[1]) /\ s[1].conn = x)
  PROVE  Calls(Tail(s), x)
<1>1. /\ Len(s) \in Nat \ {0} /\ Len(Tail(s)) = Len(s) - 1
      /\ \A k \in 1 .. Len(s) - 1 : Tail(s)[k] = s[k + 1]
  BY PopFrame
<1>2. PICK k \in 1 .. Len(s) : NextFrame(s[k]) /\ s[k].conn = x
  BY DEF Calls
<1>3. k - 1 \in 1 .. Len(Tail(s)) /\ Tail(s)[k - 1] = s[k]
  BY <1>1, <1>2
<1> QED
  BY <1>2, <1>3 DEF Calls

\* Orphaning one connection's callbacks leaves the others' in progress.
LEMMA CallsOrphan ==
  ASSUME NEW s \in Seq(Frame), NEW c, NEW x, x # c, Calls(s, x)
  PROVE  Calls(Orphan(s, c), x)
<1>1. PICK k \in 1 .. Len(s) : NextFrame(s[k]) /\ s[k].conn = x
  BY DEF Calls
<1>2. Len(Orphan(s, c)) = Len(s)
  BY OrphanFrames
<1>3. Orphan(s, c)[k] = s[k]
  BY <1>1, OrphanFrames
<1> QED
  BY <1>1, <1>2, <1>3 DEF Calls

\* A live object's entry.
LEMMA EntryType ==
  ASSUME TypeOK, PollTable, NEW o \in Obj, Live(o)
  PROVE  /\ backend_info[o] \in 1 .. Len(fds) /\ backend_info[o] \in 1 .. Len(pollfds)
         /\ fds[backend_info[o]] = o
         /\ Entry(o) \in PollFd
<1>1. /\ backend_info[o] \in 1 .. Len(fds) /\ backend_info[o] \in 1 .. Len(pollfds)
      /\ fds[backend_info[o]] = o
  BY DEF PollTable, num_fds
<1> QED
  BY <1>1 DEF TypeOK, Entry

\* backend_new_plan changes one connection's events.
LEMMA NewPlanEntry ==
  ASSUME TypeOK, PollTable, NEW c \in Conn, Live(c), NEW E, BackendNewPlan(c, E)
  PROVE  /\ Entry(c)'.events = E /\ Entry(c)'.revents = Entry(c).revents
         /\ \A x \in Conn : x # c /\ Live(x) => Entry(x)' = Entry(x)
<1> DEFINE n == backend_info[c]
<1>1. /\ n \in 1 .. Len(pollfds) /\ fds[n] = c /\ pollfds[n] \in PollFd
      /\ pollfds \in Seq(PollFd)
  BY EntryType DEF Obj, Entry, TypeOK
<1>2. /\ pollfds' = [pollfds EXCEPT ![n] = [pollfds[n] EXCEPT !.events = E]]
      /\ backend_info' = backend_info
  BY DEF BackendNewPlan
<1>3. ASSUME NEW x \in Conn, x # c, Live(x)
      PROVE  Entry(x)' = Entry(x)
  <2>1. backend_info[x] \in 1 .. Len(pollfds) /\ fds[backend_info[x]] = x
    BY <1>3, EntryType DEF Obj
  <2>2. backend_info[x] # n
    BY <1>1, <1>3, <2>1
  <2> HIDE DEF n
  <2> QED
    BY <1>1, <1>2, <2>1, <2>2 DEF Entry
<1>4. pollfds'[n] = [pollfds[n] EXCEPT !.events = E]
  BY <1>1, <1>2
<1>5. Entry(c)' = [Entry(c) EXCEPT !.events = E]
  BY <1>2, <1>4 DEF Entry
<1>6. Entry(c) \in PollFd
  BY <1>1 DEF Entry
<1> QED
  BY <1>3, <1>5, <1>6 DEF PollFd

\* Clearing the revents of the entry whose turn it is.
LEMMA ClearedEntry ==
  ASSUME TypeOK, PollTable, Rotating, NEW x \in Obj, Live(x)
  PROVE  /\ Cleared[backend_info[x]].events = Entry(x).events
         /\ Cleared[backend_info[x]].revents \subseteq Entry(x).revents
         /\ x = fds[Slot] => Cleared[backend_info[x]].revents = {}
<1> DEFINE n == backend_info[x]
<1>1. n \in 1 .. Len(pollfds) /\ fds[n] = x /\ pollfds[n] \in PollFd /\ pollfds \in Seq(PollFd)
  BY EntryType DEF Entry, TypeOK
<1>2. Cleared = [pollfds EXCEPT ![Slot] = [pollfds[Slot] EXCEPT !.revents = {}]]
  BY DEF Cleared
<1>3. x = fds[Slot] => n = Slot
  BY SlotInTable DEF PollTable
<1>4. CASE n = Slot
  <2>1. Cleared[n] = [pollfds[n] EXCEPT !.revents = {}]
    <3> DEFINE i == Slot
    <3>1. /\ i \in 1 .. Len(pollfds) /\ n = i /\ pollfds \in Seq(PollFd)
          /\ Cleared = [pollfds EXCEPT ![i] = [pollfds[i] EXCEPT !.revents = {}]]
      BY <1>1, <1>2, <1>4
    <3> HIDE DEF i, n
    <3> DEFINE e == [pollfds[i] EXCEPT !.revents = {}]
    <3>2. Cleared = [pollfds EXCEPT ![i] = e] /\ i \in DOMAIN pollfds
      BY <3>1
    <3> HIDE DEF e
    <3>3. Cleared[i] = e
      BY <3>2
    <3> QED
      BY <3>1, <3>3 DEF e
  <2> QED
    BY <1>1, <2>1 DEF Entry, PollFd
<1>5. CASE n # Slot
  <2>1. Cleared[n] = pollfds[n]
    BY <1>1, <1>2, <1>5
  <2> QED
    BY <1>3, <1>5, <2>1 DEF Entry
<1> QED
  BY <1>4, <1>5

\* poll reports to a connection events that its entry asks for.
LEMMA PollEntry ==
  ASSUME TypeOK, PollTable, Poll, NEW c \in Conn, Live(c)
  PROVE  /\ Entry(c)'.events = Entry(c).events
         /\ Entry(c)'.revents \cap Dir \subseteq Entry(c).events
<1> DEFINE n == backend_info[c]
<1>1. n \in 1 .. Len(fds) /\ fds[n] = c /\ pollfds[n] \in PollFd
  BY EntryType DEF Obj, Entry
<1>2. PICK rev : /\ \A i \in 1 .. Len(fds) : rev[i] \in Answers(i)
                 /\ pollfds' = [i \in 1 .. Len(fds) |-> [pollfds[i] EXCEPT !.revents = rev[i]]]
  BY DEF Poll, PollReturns, num_fds
<1>3. rev[n] \in Answers(n) /\ pollfds'[n] = [pollfds[n] EXCEPT !.revents = rev[n]]
  BY <1>1, <1>2
<1>4. Polled(n) \subseteq pollfds[n].events /\ pollfds[n].events \in SUBSET Dir
  BY <1>1 DEF Polled, PollFd
<1>5. rev[n] \cap Dir \subseteq pollfds[n].events
  BY <1>3, <1>4, AnswersWanted
<1>6. backend_info' = backend_info
  BY DEF Poll
<1> QED
  BY <1>1, <1>3, <1>5, <1>6 DEF Entry, PollFd
-----------------------------------------------------------------------------
(***************************************************************************)
(* Which connections each step leaves alone.                               *)
(***************************************************************************)
\* A new connection starts in its init callback; no other is affected.
LEMMA NewConnKept ==
  ASSUME IInv, NEW c \in Conn, IoNewConn(c) \/ AcceptConn(c)
  PROVE  /\ \A x \in Conn : x # c => Kept(x)
         /\ ~Live(c) /\ Live(c)' /\ InCallback(c)' /\ Entry(c)'.revents = {}
<1>1. TypeOK /\ PollTable /\ stack \in Seq(Frame) /\ status \in [Plan -> Status]
      /\ pollfds \in Seq(PollFd)
  BY DEF IInv, TypeOK
<1>2. PICK pfds \in Seq(PollFd) :
        /\ NewConn(c, pfds) /\ Len(pfds) = Len(pollfds)
        /\ pfds = pollfds \/ (pfds = Cleared /\ Rotating)
  <2>1. Cleared \in Seq(PollFd) /\ Len(Cleared) = Len(pollfds)
    BY <1>1, TypeParts, ClearedType
  <2>2. CASE IoNewConn(c)
    <3>1. NewConn(c, pollfds)
      BY <2>2 DEF IoNewConn
    <3> QED
      BY <1>1, <3>1
  <2>3. CASE AcceptConn(c)
    <3>1. Rotating /\ NewConn(c, Cleared)
      BY <2>3 DEF AcceptConn, Serving
    <3> QED
      BY <2>1, <3>1
  <2> QED
    BY <2>2, <2>3
<1>3. /\ ~Live(c) /\ Live(c)' /\ Entry(c)' = [events |-> {}, revents |-> {}]
      /\ \A x \in Obj : x # c => /\ mem'[x] = mem[x]
                                 /\ Live(x) => Entry(x)' = pfds[backend_info[x]]
  BY <1>1, <1>2, NewConnTable
<1>4. \A x \in Obj : Live(x) => /\ pfds[backend_info[x]].events = Entry(x).events
                                /\ pfds[backend_info[x]].revents \subseteq Entry(x).revents
  BY <1>1, <1>2, ClearedEntry DEF Entry
<1>5. /\ stack' = <<Call("next", c, IO_IN)>> \o stack
      /\ status' = [status EXCEPT ![<<c, IO_IN>>] = "unset", ![<<c, IO_OUT>>] = "unset"]
  BY <1>2 DEF NewConn
<1>6. InCallback(c)' /\ \A x : InCallback(x) => InCallback(x)'
  <2> DEFINE f == Call("next", c, IO_IN)
  <2>1. f \in Frame
    BY CallType DEF Dir
  <2>2. NextFrame(f) /\ f.conn = c
    BY DEF Call, NextFrame
  <2> HIDE DEF f
  <2>3. Calls(<<f>> \o stack, c) /\ \A x : Calls(stack, x) => Calls(<<f>> \o stack, x)
    BY <1>1, <2>1, <2>2, CallsPush
  <2> QED
    BY <1>5, <2>3, CallsIn, CallsInPrime DEF f
<1>7. \A x \in Conn : x # c => Interest(x)' = Interest(x)
  <2>1. \A x \in Conn, d \in Dir : x # c => status'[<<x, d>>] = status[<<x, d>>]
    BY <1>1, <1>5 DEF Plan
  <2> QED
    BY <2>1 DEF Interest
<1>8. ASSUME NEW x \in Conn, x # c
      PROVE  Kept(x)
  <2>1. x \in Obj
    BY DEF Obj
  <2> QED
    BY <1>3, <1>4, <1>6, <1>7, <1>8, <2>1 DEF Kept, Live
<1> QED
  BY <1>3, <1>6, <1>8

\* Closing a connection affects no other one.
LEMMA DestroyConnKept ==
  ASSUME IInv, NEW c \in Conn, DestroyConn(c)
  PROVE  ~Live(c)' /\ \A x \in Conn : x # c => Kept(x)
<1>1. /\ TypeOK /\ PollTable /\ stack \in Seq(Frame) /\ status \in [Plan -> Status]
      /\ mem \in [Obj -> {"free", "live", "dying"}] /\ c \in Obj
  BY DEF IInv, TypeOK, Obj
<1>2. PICK m \in {"free", "dying"} : mem' = [mem EXCEPT ![c] = m]
  BY DEF DestroyConn
<1>3. \A x \in Obj : x # c => /\ Live(x)' <=> Live(x)
                              /\ Live(x) => Entry(x)' = Entry(x)
  BY <1>1, <1>2, DelFdTable DEF DestroyConn, Live, Entry
<1>4. ASSUME NEW x \in Conn, x # c, InCallback(x)
      PROVE  InCallback(x)'
  <2> DEFINE t == Orphan(stack, c)
             f == Call("finish", c, IO_IN)
  <2>1. Calls(t, x) /\ t \in Seq(Frame) /\ f \in Frame
    BY <1>1, <1>4, CallsIn, CallsOrphan, OrphanFrames, CallType DEF Dir
  <2>2. stack' = t \/ stack' = <<f>> \o t
    BY DEF DestroyConn
  <2> HIDE DEF t, f
  <2>3. Calls(<<f>> \o t, x)
    BY <2>1, CallsPush
  <2> QED
    BY <2>1, <2>2, <2>3, CallsInPrime
<1>5. \A x \in Conn : x # c => Interest(x)' = Interest(x)
  <2>1. \A x \in Conn, d \in Dir : x # c => status'[<<x, d>>] = status[<<x, d>>]
    BY <1>1 DEF Plan, DestroyConn
  <2> QED
    BY <2>1 DEF Interest
<1>6. ASSUME NEW x \in Conn, x # c
      PROVE  Kept(x)
  <2>1. x \in Obj
    BY DEF Obj
  <2> QED
    BY <1>3, <1>4, <1>5, <1>6, <2>1 DEF Kept
<1>7. ~Live(c)'
  BY <1>1, <1>2 DEF Live
<1> QED
  BY <1>6, <1>7

\* Neither does opening or closing a listener.
LEMMA ListenerKept ==
  ASSUME IInv, UNCHANGED <<status, stack>>, NEW l \in Listener,
         IoNewListener(l) \/ CloseListener(l), NEW x \in Conn
  PROVE  Kept(x)
<1>1. /\ TypeOK /\ PollTable /\ pollfds \in Seq(PollFd)
      /\ mem \in [Obj -> {"free", "live", "dying"}] /\ l \in Obj /\ x \in Obj /\ x # l
  BY ConnAssumption DEF IInv, TypeOK, Obj
<1>2. InCallback(x)' = InCallback(x) /\ Interest(x)' = Interest(x)
  BY DEF InCallback, Interest
<1>3. CASE IoNewListener(l)
  <2>1. ~Live(l) /\ mem' = [mem EXCEPT ![l] = "live"] /\ AddFd(l, {IO_IN}, pollfds)
    BY <1>3 DEF IoNewListener, Live
  <2>2. {IO_IN} \in SUBSET Dir
    BY DEF Dir
  <2>3. Live(x) => Entry(x)' = Entry(x)
    BY <1>1, <2>1, <2>2, AddFdTable DEF Entry
  <2> QED
    BY <1>1, <1>2, <2>1, <2>3 DEF Kept, Live
<1>4. CASE CloseListener(l)
  <2>1. Live(l) /\ mem' = [mem EXCEPT ![l] = "free"] /\ DelFd(l)
    BY <1>4 DEF CloseListener, Live
  <2>2. (Live(x)' <=> Live(x)) /\ (Live(x) => Entry(x)' = Entry(x))
    BY <1>1, <2>1, DelFdTable DEF Entry
  <2> QED
    BY <1>2, <2>2 DEF Kept
<1> QED
  BY <1>3, <1>4

\* Giving c a plan from its own callback affects no other connection, and c
\* only wants more.
LEMMA PlanKept ==
  ASSUME IInv, NEW c \in Conn, NEW d \in Dir,
         IoPlan(c, d) \/ IoAlways(c, d) \/ \E w : IoWait(c, d, w)
  PROVE  /\ \A x \in Conn : x # c => Kept(x)
         /\ Live(c) /\ Live(c)' /\ InCallback(c)' /\ Entry(c)' = Entry(c)
         /\ Interest(c) \subseteq Interest(c)'
         /\ stack # <<>> /\ UNCHANGED <<pc, cur, evs, stack>>
<1>1. TypeOK /\ FramesOK /\ status \in [Plan -> Status]
  BY DEF IInv, TypeOK
<1>2. /\ MayPlan(c, d) /\ UNCHANGED <<stack, mem, pollfds, backend_info, pc, cur, evs>>
      /\ \E s : status' = [status EXCEPT ![<<c, d>>] = s]
  BY DEF IoPlan, IoAlways, IoWait, table, loop
<1>3. Live(c) /\ InCallback(c) /\ status[<<c, d>>] = "unset" /\ <<c, d>> \in Plan
  BY <1>1, <1>2, MayPlanLive
<1>4. \A x \in Conn, e \in Dir : <<x, e>> # <<c, d>> => status'[<<x, e>>] = status[<<x, e>>]
  BY <1>1, <1>2 DEF Plan
<1>5. \A x \in Conn : x # c => Interest(x)' = Interest(x)
  BY <1>4 DEF Interest
<1>6. Interest(c) \subseteq Interest(c)'
  BY <1>3, <1>4 DEF Interest, Polling
<1>7. \A x : /\ Live(x)' <=> Live(x)
             /\ InCallback(x)' <=> InCallback(x)
             /\ Entry(x)' = Entry(x)
  BY <1>2 DEF Live, InCallback, Entry
<1> QED
  BY <1>2, <1>3, <1>5, <1>6, <1>7 DEF Kept, MayPlan

\* A callback returns and its connection's events are set up; no other
\* connection is affected.
LEMMA ReturnKept ==
  ASSUME IInv, Return, NEW c, c = stack[1].conn
  PROVE  /\ \A x \in Conn : x # c => Kept(x)
         /\ c \in Conn /\ Live(c) /\ UNCHANGED <<mem, status>>
         /\ Entry(c)'.events = Interest(c)
         /\ Entry(c)'.revents = Entry(c).revents
<1>1. TypeOK /\ PollTable /\ FramesOK /\ stack \in Seq(Frame)
  BY DEF IInv, TypeOK
<1>2. /\ stack # <<>> /\ NextFrame(stack[1]) /\ BackendNewPlan(c, Interest(c))
      /\ stack' = Tail(stack) /\ UNCHANGED <<mem, status>>
  BY DEF Return, NextFrame, plans
<1>3. c \in Conn /\ Live(c)
  BY <1>1, <1>2, TopLive
<1>4. /\ Entry(c)'.events = Interest(c) /\ Entry(c)'.revents = Entry(c).revents
      /\ \A x \in Conn : x # c /\ Live(x) => Entry(x)' = Entry(x)
  BY <1>1, <1>2, <1>3, NewPlanEntry
<1>5. \A x : x # c /\ Calls(stack, x) => Calls(stack', x)
  BY <1>1, <1>2, CallsPop
<1>6. \A x : (Live(x)' <=> Live(x)) /\ Interest(x)' = Interest(x)
  BY <1>2 DEF Live, Interest
<1>7. \A x \in Conn : x # c => Kept(x)
  BY <1>4, <1>5, <1>6, CallsIn, CallsInPrime DEF Kept
<1> QED
  BY <1>2, <1>3, <1>4, <1>7

\* The other callbacks return without changing a connection.
LEMMA PopKept ==
  ASSUME IInv, ReturnFreed \/ FinishReturn \/ ErrorReturn, NEW x \in Conn
  PROVE  Kept(x)
<1>1. /\ TypeOK /\ FramesOK /\ stack \in Seq(Frame)
      /\ mem \in [Obj -> {"free", "live", "dying"}] /\ x \in Obj
  BY DEF IInv, TypeOK, Obj
<1>2. /\ stack # <<>> /\ ~NextFrame(stack[1]) /\ stack' = Tail(stack)
      /\ UNCHANGED <<status, pollfds, backend_info>>
  BY DEF ReturnFreed, FinishReturn, ErrorReturn, NextFrame, plans, table
<1>3. Live(x)' <=> Live(x)
  <2>1. CASE FinishReturn
    <3>1. 1 \in 1 .. Len(stack)
      BY <1>1, <1>2
    <3>2. stack[1].conn \in Conn /\ mem[stack[1].conn] = "dying"
      BY <1>1, <2>1, <3>1 DEF FramesOK, FramesFor, FinishFrame, FinishReturn
    <3> QED
      BY <1>1, <2>1, <3>2 DEF FinishReturn, Live
  <2>2. CASE ReturnFreed \/ ErrorReturn
    BY <2>2 DEF ReturnFreed, ErrorReturn, Live
  <2> QED
    BY <2>1, <2>2
<1>4. InCallback(x) => InCallback(x)'
  BY <1>1, <1>2, CallsPop, CallsIn, CallsInPrime
<1>5. Interest(x)' = Interest(x) /\ Entry(x)' = Entry(x)
  BY <1>2 DEF Interest, Entry
<1> QED
  BY <1>3, <1>4, <1>5 DEF Kept

\* Waking changes what no connection polls for.
LEMMA WakeKept ==
  ASSUME IInv, NEW w, IoWake(w), NEW x \in Conn
  PROVE  Kept(x)
<1>1. UNCHANGED <<mem, stack, pollfds, backend_info>> /\ status \in [Plan -> Status]
  BY DEF IoWake, IInv, TypeOK, table
<1>2. \A d \in Dir : status'[<<x, d>>] \in Polling <=> status[<<x, d>>] \in Polling
  BY <1>1 DEF IoWake, Waiters, Polling, Plan
<1>3. Interest(x)' = Interest(x)
  BY <1>2 DEF Interest
<1> QED
  BY <1>1, <1>3 DEF Kept, Live, InCallback, Entry

\* Calling a plan's next changes no connection but its own.
LEMMA NextPlanKept ==
  ASSUME IInv, NEW c \in Conn, NEW d \in Dir, Live(c), NextPlan(c, d),
         UNCHANGED <<mem, backend_info>>,
         pollfds' = pollfds \/ (pollfds' = Cleared /\ Rotating)
  PROVE  InCallback(c)' /\ Live(c)' /\ \A x \in Conn : x # c => Kept(x)
<1>1. TypeOK /\ PollTable /\ stack \in Seq(Frame) /\ status \in [Plan -> Status]
  BY DEF IInv, TypeOK
<1> DEFINE f == Call("next", c, d)
<1>2. f \in Frame /\ NextFrame(f) /\ f.conn = c
  BY CallType DEF Call, NextFrame
<1>3. stack' = <<f>> \o stack /\ status' = [status EXCEPT ![<<c, d>>] = "unset"]
  BY DEF NextPlan
<1> HIDE DEF f
<1>4. InCallback(c)' /\ \A x : InCallback(x) => InCallback(x)'
  BY <1>1, <1>2, <1>3, CallsPush, CallsIn, CallsInPrime
<1>5. ASSUME NEW x \in Conn, x # c
      PROVE  Interest(x)' = Interest(x)
  <2>1. \A e \in Dir : status'[<<x, e>>] = status[<<x, e>>]
    BY <1>1, <1>3, <1>5 DEF Plan
  <2> QED
    BY <2>1 DEF Interest
<1>6. \A x \in Conn : Live(x) => /\ Entry(x)'.events = Entry(x).events
                                 /\ Entry(x)'.revents \subseteq Entry(x).revents
  <2>1. CASE pollfds' = pollfds
    BY <2>1 DEF Entry
  <2>2. CASE pollfds' = Cleared /\ Rotating
    BY <1>1, <2>2, ClearedEntry DEF Entry, Obj
  <2> QED
    BY <2>1, <2>2
<1>7. \A x : Live(x)' <=> Live(x)
  BY DEF Live
<1> QED
  BY <1>4, <1>5, <1>6, <1>7 DEF Kept

\* A plan of io_ready's connection that starts without finishing still polls.
LEMMA StartedKept ==
  ASSUME IInv, NEW d \in Dir, IoStarted(d), NEW x \in Conn
  PROVE  Kept(x)
<1>1. UNCHANGED <<mem, stack, pollfds, backend_info>> /\ status \in [Plan -> Status]
  BY DEF IoStarted, IInv, TypeOK, table
<1>2. status[<<cur, d>>] \in Polling /\ <<cur, d>> \in Plan
  BY CurPolls DEF IoStarted
<1>3. \A e \in Dir : status'[<<x, e>>] \in Polling <=> status[<<x, e>>] \in Polling
  BY <1>1, <1>2 DEF IoStarted, Polling, Plan
<1>4. Interest(x)' = Interest(x)
  BY <1>3 DEF Interest
<1> QED
  BY <1>1, <1>4 DEF Kept, Live, InCallback, Entry

\* Giving up writing: the entry polls for what is left.
LEMMA EpipeKept ==
  ASSUME IInv, IoEpipe, NEW c, c = cur
  PROVE  /\ \A x \in Conn : x # c => Kept(x)
         /\ c \in Conn /\ Live(c) /\ mem' = mem
         /\ Entry(c)'.events = Interest(c)'
         /\ Entry(c)'.revents = {}
<1>1. TypeOK /\ PollTable /\ status \in [Plan -> Status]
  BY DEF IInv, TypeOK
<1>2. /\ At(IO_OUT) /\ IO_OUT \in Dir /\ UNCHANGED <<mem, stack>>
      /\ status' = [status EXCEPT ![<<c, IO_OUT>>] = "unset"]
      /\ BackendNewPlan(c, Interest(c) \ {IO_OUT})
  BY DEF IoEpipe, Dir
<1>3. c \in Conn /\ Live(c) /\ <<c, IO_OUT>> \in Plan /\ Entry(c).revents = {}
  BY <1>2, CurPolls DEF CurOK
<1>4. \A x \in Conn, e \in Dir : <<x, e>> # <<c, IO_OUT>> => status'[<<x, e>>] = status[<<x, e>>]
  BY <1>1, <1>2 DEF Plan
<1>5. \A x \in Conn : x # c => Interest(x)' = Interest(x)
  BY <1>4 DEF Interest
<1>6. Interest(c)' = Interest(c) \ {IO_OUT}
  <2>1. status'[<<c, IO_OUT>>] = "unset"
    BY <1>1, <1>2, <1>3
  <2> QED
    BY <1>3, <1>4, <2>1 DEF Interest, Polling
<1>7. /\ Entry(c)'.events = Interest(c) \ {IO_OUT} /\ Entry(c)'.revents = {}
      /\ \A x \in Conn : x # c /\ Live(x) => Entry(x)' = Entry(x)
  BY <1>1, <1>2, <1>3, NewPlanEntry
<1>8. \A x : /\ Live(x)' <=> Live(x)
             /\ InCallback(x)' <=> InCallback(x)
  BY <1>2 DEF Live, InCallback
<1> QED
  BY <1>2, <1>3, <1>5, <1>6, <1>7, <1>8 DEF Kept

\* Steps that change no connection at all, but for clearing an entry.
LEMMA SameKept ==
  ASSUME IInv, UNCHANGED <<mem, status, stack, backend_info>>,
         pollfds' = pollfds \/ (pollfds' = Cleared /\ Rotating), NEW x \in Conn
  PROVE  Kept(x)
<1>1. TypeOK /\ PollTable /\ x \in Obj
  BY DEF IInv, Obj
<1>2. Live(x) => Entry(x)'.events = Entry(x).events /\ Entry(x)'.revents \subseteq Entry(x).revents
  <2>1. CASE pollfds' = pollfds
    BY <2>1 DEF Entry
  <2>2. CASE pollfds' = Cleared /\ Rotating
    BY <1>1, <2>2, ClearedEntry DEF Entry
  <2> QED
    BY <2>1, <2>2
<1> QED
  BY <1>2 DEF Kept, Live, InCallback, Interest

\* What a step other than poll does to a connection: nothing, or it closes
\* it, or it leaves it with the events it wants and with reported events that
\* it still wants.
Touched(x) ==
  \/ Kept(x)
  \/ ~Live(x)'
  \/ /\ InCallback(x)' \/ Entry(x)'.events = Interest(x)'
     /\ \/ pc' = "top"
        \/ Entry(x)'.revents = {}
        \/ /\ Live(x) /\ Interest(x) \subseteq Interest(x)'
           /\ Entry(x)'.revents \subseteq Entry(x).revents

\* No step but poll changes an entry without one of the listed causes.
LEMMA TouchedStep ==
  ASSUME IInv, [Next]_vars, ~Poll, NEW x \in Conn
  PROVE  Touched(x)
<1>1. ASSUME NEW c \in Conn, IoNewConn(c) \/ AcceptConn(c)
      PROVE  Touched(x)
  BY <1>1, NewConnKept DEF Touched
<1>2. ASSUME NEW c \in Conn, DestroyConn(c)
      PROVE  Touched(x)
  BY <1>2, DestroyConnKept DEF Touched
<1>3. ASSUME NEW l \in Listener, UNCHANGED <<status, stack>>, IoNewListener(l) \/ CloseListener(l)
      PROVE  Touched(x)
  BY <1>3, ListenerKept DEF Touched
<1>4. ASSUME NEW c \in Conn, NEW d \in Dir,
             IoPlan(c, d) \/ IoAlways(c, d) \/ \E w : IoWait(c, d, w)
      PROVE  Touched(x)
  BY <1>4, PlanKept DEF Touched
<1>5. ASSUME Return
      PROVE  Touched(x)
  <2>1. CASE x = stack[1].conn
    <3>1. /\ Live(x) /\ UNCHANGED <<mem, status>>
          /\ Entry(x)'.events = Interest(x) /\ Entry(x)'.revents = Entry(x).revents
      BY <1>5, <2>1, ReturnKept
    <3>2. Interest(x)' = Interest(x)
      BY <3>1 DEF Interest
    <3> QED
      BY <3>1, <3>2 DEF Touched
  <2>2. CASE x # stack[1].conn
    BY <1>5, <2>2, ReturnKept DEF Touched
  <2> QED
    BY <2>1, <2>2
<1>6. ASSUME ReturnFreed \/ FinishReturn \/ ErrorReturn
      PROVE  Touched(x)
  BY <1>6, PopKept DEF Touched
<1>7. ASSUME NEW w, IoWake(w)
      PROVE  Touched(x)
  BY <1>7, WakeKept DEF Touched
<1>8. ASSUME RunAlways
      PROVE  Touched(x)
  <2>1. PICK k \in 1 .. Len(always) :
           /\ always[k][1] \in Conn /\ always[k][2] \in Dir /\ Live(always[k][1])
           /\ NextPlan(always[k][1], always[k][2])
    BY <1>8, TakenAlways
  <2> DEFINE c == always[k][1]
             d == always[k][2]
  <2>2. UNCHANGED <<mem, backend_info>> /\ pollfds' = Cleared /\ Rotating /\ pc' = "top"
    BY <1>8 DEF RunAlways, Leave
  <2>3. \A b \in Conn : b = c => InCallback(b)' /\ \A y \in Conn : y # b => Kept(y)
    BY <2>1, <2>2, NextPlanKept
  <2> HIDE DEF c
  <2> QED
    BY <2>1, <2>2, <2>3 DEF Touched, c
<1>9. ASSUME NEW d \in Dir, IoDone(d)
      PROVE  Touched(x)
  <2>1. cur \in Conn /\ Live(cur) /\ Entry(cur).revents = {}
    BY <1>9, CurConn DEF IoDone
  <2>2. NextPlan(cur, d) /\ UNCHANGED <<mem, backend_info, pollfds>>
    BY <1>9 DEF IoDone, table
  <2>3. \A b \in Conn : b = cur => InCallback(b)' /\ \A y \in Conn : y # b => Kept(y)
    BY <2>1, <2>2, NextPlanKept
  <2>4. x = cur => Entry(x)'.revents = {}
    BY <2>1, <2>2 DEF Entry
  <2> QED
    BY <2>1, <2>3, <2>4 DEF Touched
<1>10. ASSUME NEW d \in Dir, IoStarted(d)
       PROVE  Touched(x)
  BY <1>10, StartedKept DEF Touched
<1>11. ASSUME IoEpipe
       PROVE  Touched(x)
  <2>1. CASE x = cur
    BY <1>11, <2>1, EpipeKept DEF Touched
  <2>2. CASE x # cur
    BY <1>11, <2>2, EpipeKept DEF Touched
  <2> QED
    BY <2>1, <2>2
<1>12. ASSUME UNCHANGED <<mem, status, stack, backend_info>>,
              pollfds' = pollfds \/ (pollfds' = Cleared /\ Rotating)
       PROVE  Touched(x)
  BY <1>12, SameKept DEF Touched
<1>13. ASSUME AcceptFail
       PROVE  Touched(x)
  <2>1. /\ UNCHANGED <<mem, status, backend_info>> /\ pollfds' = Cleared /\ Rotating
        /\ stack = <<>>
    BY <1>13 DEF AcceptFail, Serving, Rotating, At, plans
  <2>2. ~InCallback(x)
    BY <2>1 DEF InCallback
  <2>3. Live(x) => Entry(x)'.events = Entry(x).events /\ Entry(x)'.revents \subseteq Entry(x).revents
    BY <2>1, ClearedEntry DEF Entry, IInv, Obj
  <2>4. (Live(x)' <=> Live(x)) /\ Interest(x)' = Interest(x)
    BY <2>1 DEF Live, Interest
  <2> QED
    BY <2>2, <2>3, <2>4 DEF Touched, Kept
<1>14. ASSUME AppNext
       PROVE  Touched(x)
  BY <1>1, <1>2, <1>3, <1>4, <1>5, <1>6, <1>7, <1>12, <1>14
     DEF AppNext, IoClose, IoSetFinish, IoNewListener, IoCloseListener, IoConnExclusive,
         IoBreak, plans, table
<1>15. ASSUME Serve \/ DoPlan
       PROVE  Touched(x)
  <2>1. \A d \in Dir : IoFail(d) => cur \in Conn
    BY CurConn DEF IoFail
  <2>2. CASE Serve
    BY <1>1, <1>2, <1>3, <1>12, <1>13, <2>2
       DEF Serve, EntryIdle, ListenerError, ConnReady, ConnError, Serving, plans, table
  <2>3. CASE DoPlan
    BY <1>2, <1>9, <1>10, <1>11, <1>12, <2>1, <2>3 DEF DoPlan, IoAgain, IoFail, plans, table
  <2> QED
    BY <1>15, <2>2, <2>3
<1>16. ASSUME LoopNext
       PROVE  Touched(x)
  BY <1>8, <1>12, <1>15, <1>16
     DEF LoopNext, IoLoopCall, LoopBroken, LoopEmpty, LoopAsleep, LoopExpired, LoopPoll,
         LoopReturn, PollInterrupted, PollFailed, SignalBreak, RotationEnd, RotationDone,
         plans, table
<1> QED
  BY <1>12, <1>14, <1>16 DEF Next, Aborted, vars, plans, table
-----------------------------------------------------------------------------
(***************************************************************************)
(* The events a connection polls for and those reported to it.             *)
(***************************************************************************)
LEMMA EventsInit == Init => EventsMatch /\ ReventsWanted /\ Service
<1>1. ASSUME Init
      PROVE  pc = "main" /\ \A c \in Conn : ~Live(c)
  BY <1>1 DEF Init, Live, Obj
<1> QED
  BY <1>1 DEF EventsMatch, ReventsWanted, Service, Dir, IO_IN, IO_OUT

\* Every step keeps EventsMatch.
LEMMA EventsStep ==
  ASSUME IInv, [Next]_vars
  PROVE  EventsMatch'
<1> SUFFICES ASSUME NEW x \in Conn, Live(x)', ~InCallback(x)'
             PROVE  Entry(x)'.events = Interest(x)'
  BY DEF EventsMatch, Entry
<1>1. Live(x) /\ ~InCallback(x) => Entry(x).events = Interest(x)
  BY DEF IInv, EventsMatch, Entry
<1>2. CASE ~Poll
  <2>1. Touched(x)
    BY <1>2, TouchedStep
  <2> QED
    BY <1>1, <2>1 DEF Touched, Kept
<1>3. CASE Poll
  <2>1. UNCHANGED <<mem, stack, status>> /\ TypeOK /\ PollTable
    BY <1>3 DEF Poll, IInv, plans
  <2>2. Live(x) /\ ~InCallback(x) /\ Interest(x)' = Interest(x)
    BY <2>1 DEF Live, InCallback, Interest
  <2>3. Entry(x)'.events = Entry(x).events
    BY <1>3, <2>1, <2>2, PollEntry
  <2> QED
    BY <1>1, <2>2, <2>3
<1> QED
  BY <1>2, <1>3

\* The rotation is only entered through poll.
LEMMA RotationEntered ==
  ASSUME [Next]_vars, ~Poll, pc' \in {"dispatch", "in", "out"}
  PROVE  pc \in {"dispatch", "in", "out"}
<1>1. CASE AppNext
  BY <1>1 DEF AppNext, IoNewConn, IoClose, IoSetFinish, IoNewListener, IoCloseListener,
              IoConnExclusive, IoBreak, IoWake, IoPlan, IoAlways, IoWait, Return, ReturnFreed,
              FinishReturn, ErrorReturn, ByDoPlan, loop
<1>2. CASE Serve
  BY <1>2 DEF Serve, EntryIdle, AcceptConn, AcceptFail, ListenerError, ConnReady, ConnError,
              Serving, Rotating, At
<1>3. CASE DoPlan
  BY <1>3 DEF DoPlan, IoAgain, IoStarted, IoDone, IoFail, IoEpipe, At, Dir, IO_IN, IO_OUT
<1>4. CASE LoopNext /\ ~Serve /\ ~DoPlan
  BY <1>4 DEF LoopNext, IoLoopCall, LoopBroken, LoopEmpty, LoopAsleep, LoopExpired, LoopPoll,
              LoopReturn, PollInterrupted, PollFailed, SignalBreak, RotationEnd, RunAlways,
              RotationDone, Leave, loop
<1> QED
  BY <1>1, <1>2, <1>3, <1>4 DEF Next, Aborted, LoopNext, vars, loop

\* Every step keeps ReventsWanted.
LEMMA WantedStep ==
  ASSUME IInv, [Next]_vars
  PROVE  ReventsWanted'
<1> SUFFICES ASSUME pc' \in {"dispatch", "in", "out"}, NEW x \in Conn, Live(x)'
             PROVE  Entry(x)'.revents \cap Dir \subseteq Interest(x)'
  BY DEF ReventsWanted
<1>1. CASE ~Poll
  <2>1. Live(x) => Entry(x).revents \cap Dir \subseteq Interest(x)
    BY <1>1, RotationEntered DEF IInv, ReventsWanted
  <2>2. Touched(x)
    BY <1>1, TouchedStep
  <2> QED
    BY <2>1, <2>2 DEF Touched, Kept
<1>2. CASE Poll
  <2>1. UNCHANGED <<mem, status>> /\ stack = <<>> /\ TypeOK /\ PollTable
    BY <1>2 DEF Poll, At, IInv, plans
  <2>2. Live(x) /\ ~InCallback(x) /\ Interest(x)' = Interest(x)
    BY <2>1 DEF Live, InCallback, Interest
  <2>3. Entry(x).events = Interest(x)
    BY <2>2 DEF IInv, EventsMatch, Entry
  <2> QED
    BY <1>2, <2>1, <2>2, <2>3, PollEntry
<1> QED
  BY <1>1, <1>2
-----------------------------------------------------------------------------
(***************************************************************************)
(* The connection io_ready works for.                                      *)
(***************************************************************************)
\* The outermost callback.
Bottom(s) == s[Len(s)]

\* c, whose plan's callback is in progress, is still there with no event left
\* in the table, and polls at least for what it polled for.
StillCur(c) ==
  /\ Live(c)' /\ Interest(c) \subseteq Interest(c)' /\ Entry(c)'.revents = {}

\* A connection that keeps its entry and its plans can still be served.
LEMMA KeptCur ==
  ASSUME NEW c \in Conn, Live(c), Entry(c).revents = {}, Kept(c)
  PROVE  StillCur(c)
  BY DEF Kept, StillCur

\* A step of a callback that leaves the outermost one in progress.
LEMMA ServiceNested ==
  ASSUME IInv, pc \in Dir, stack # <<>>, stack' # <<>>, UNCHANGED <<pc, cur, evs>>,
         Bottom(stack').fn = Bottom(stack).fn, Bottom(stack').conn = Bottom(stack).conn,
         Bottom(stack').dir = Bottom(stack).dir,
         ~Bottom(stack').freed => ~Bottom(stack).freed,
         \A c \in Conn : /\ c = cur /\ ~Bottom(stack').freed
                         /\ Live(c) /\ Entry(c).revents = {}
                         => StillCur(c)
  PROVE  Service'
<1>1. /\ Bottom(stack).fn = "next" /\ Bottom(stack).conn = cur /\ Bottom(stack).dir = pc
      /\ ~Bottom(stack).freed => CurOK
  BY DEF IInv, Service, Bottom
<1>2. ASSUME ~Bottom(stack').freed
      PROVE  CurOK'
  <2>1. CurOK
    BY <1>1, <1>2
  <2>3. PICK c \in Conn : c = cur
    BY <2>1 DEF CurOK
  <2>4. StillCur(c)
    BY <1>2, <2>1, <2>3 DEF CurOK
  <2>5. cur' = c /\ Live(c)' /\ Entry(c)'.revents = {}
    BY <2>3, <2>4 DEF StillCur
  <2>6. pc' = "in" /\ IO_OUT \in evs' => status'[<<c, IO_OUT>>] \in Polling
    BY <2>1, <2>3, <2>4 DEF CurOK, StillCur, Interest, Dir
  <2> QED
    BY <2>5, <2>6 DEF CurOK, Live, Entry
<1> QED
  BY <1>1, <1>2 DEF Service, Bottom

\* The outermost callback stays the same when another one is called.
LEMMA BottomPush ==
  ASSUME NEW s \in Seq(Frame), s # <<>>, NEW f \in Frame
  PROVE  Bottom(<<f>> \o s) = Bottom(s) /\ <<f>> \o s # <<>>
<1> DEFINE t == <<f>> \o s
<1>1. /\ Len(s) \in Nat \ {0} /\ Len(t) = Len(s) + 1
      /\ \A k \in 1 .. Len(s) : t[k + 1] = s[k]
  BY PushFrame
<1> HIDE DEF t
<1>2. Len(s) \in 1 .. Len(s)
  BY <1>1
<1>3. t[Len(t)] = s[Len(s)] /\ t # <<>>
  BY <1>1, <1>2
<1> QED
  BY <1>3 DEF Bottom, t

\* It stays the same when an inner one returns.
LEMMA BottomPop ==
  ASSUME NEW s \in Seq(Frame), Len(s) > 1
  PROVE  Bottom(Tail(s)) = Bottom(s) /\ Tail(s) # <<>>
<1>1. /\ Len(s) \in Nat \ {0} /\ Len(Tail(s)) = Len(s) - 1
      /\ \A k \in 1 .. Len(s) - 1 : Tail(s)[k] = s[k + 1]
  BY PopFrame
<1>2. Len(s) - 1 \in 1 .. Len(s) - 1
  BY <1>1
<1> DEFINE t == Tail(s)
           n == Len(s)
<1>3. n \in Nat /\ Len(t) = n - 1 /\ t[n - 1] = s[(n - 1) + 1] /\ n > 1
  BY <1>1, <1>2
<1> HIDE DEF t, n
<1>4. t[Len(t)] = s[n] /\ t # <<>>
  BY <1>3
<1> QED
  BY <1>4 DEF Bottom, t, n

\* Closing a connection can only orphan it.
LEMMA BottomOrphan ==
  ASSUME NEW s \in Seq(Frame), s # <<>>, NEW c
  PROVE  /\ Bottom(Orphan(s, c)).fn = Bottom(s).fn
         /\ Bottom(Orphan(s, c)).conn = Bottom(s).conn
         /\ Bottom(Orphan(s, c)).dir = Bottom(s).dir
         /\ ~Bottom(Orphan(s, c)).freed => ~Bottom(s).freed /\ Bottom(s).conn # c
         /\ Orphan(s, c) # <<>>
<1> DEFINE t == Orphan(s, c)
<1>1. /\ Len(t) = Len(s)
      /\ \A k \in 1 .. Len(s) : /\ t[k].fn = s[k].fn /\ t[k].conn = s[k].conn
                                /\ t[k].dir = s[k].dir
                                /\ s[k].conn # c => t[k] = s[k]
                                /\ s[k].conn = c => t[k].freed
  BY OrphanFrames
<1>2. Len(s) \in 1 .. Len(s)
  OBVIOUS
<1> HIDE DEF t
<1>3. t # <<>>
  BY <1>1, <1>2
<1> QED
  BY <1>1, <1>2, <1>3 DEF Bottom, t

\* Steps of nested callbacks, and of the outermost one until it returns.
LEMMA CallbackService ==
  ASSUME IInv, AppNext, stack # <<>>, pc \in Dir, pc' \in Dir
  PROVE  Service'
<1>1. /\ stack \in Seq(Frame) /\ Len(stack) \in Nat \ {0} /\ TypeOK /\ FramesOK
      /\ stack[1] \in Frame
  BY DEF IInv, TypeOK
<1>2. /\ Bottom(stack).fn = "next" /\ Bottom(stack).conn = cur /\ Bottom(stack).dir = pc
      /\ ~Bottom(stack).freed => CurOK
  BY DEF IInv, Service, Bottom
<1>3. ASSUME NEW c \in Conn, IoNewConn(c)
      PROVE  Service'
  <2>1. ~Live(c) /\ \A x \in Conn : x # c => Kept(x)
    BY <1>3, NewConnKept
  <2>2. Bottom(stack') = Bottom(stack) /\ stack' # <<>>
    BY <1>1, <1>3, BottomPush, CallType DEF IoNewConn, NewConn, Dir
  <2>3. UNCHANGED <<pc, cur, evs>>
    BY <1>3 DEF IoNewConn, loop
  <2>4. \A x \in Conn : Live(x) /\ Entry(x).revents = {} => StillCur(x)
    BY <2>1, KeptCur
  <2> QED
    BY <2>2, <2>3, <2>4, ServiceNested
<1>4. ASSUME NEW c \in Conn, IoClose(c)
      PROVE  Service'
  <2>1. \A x \in Conn : x # c => Kept(x)
    BY <1>4, DestroyConnKept DEF IoClose
  <2> DEFINE t == Orphan(stack, c)
             f == Call("finish", c, IO_IN)
  <2>2. f \in Frame /\ t \in Seq(Frame)
    BY <1>1, CallType, OrphanFrames DEF Dir
  <2>3. stack' = t \/ stack' = <<f>> \o t
    BY <1>4 DEF IoClose, DestroyConn
  <2>4. /\ Bottom(t).fn = Bottom(stack).fn /\ Bottom(t).conn = Bottom(stack).conn
        /\ Bottom(t).dir = Bottom(stack).dir
        /\ ~Bottom(t).freed => ~Bottom(stack).freed /\ Bottom(stack).conn # c
        /\ t # <<>>
    BY <1>1, BottomOrphan
  <2> HIDE DEF t, f
  <2>5. Bottom(stack') = Bottom(t) /\ stack' # <<>>
    BY <2>2, <2>3, <2>4, BottomPush
  <2>6. UNCHANGED <<pc, cur, evs>>
    BY <1>4 DEF IoClose, loop
  <2>7. \A x \in Conn : /\ x = cur /\ ~Bottom(stack').freed
                        /\ Live(x) /\ Entry(x).revents = {}
                        => StillCur(x)
    BY <1>2, <2>1, <2>4, <2>5, KeptCur
  <2> QED
    BY <2>4, <2>5, <2>6, <2>7, ServiceNested
<1>5. ASSUME UNCHANGED <<stack, pc, cur, evs>>, \A x \in Conn : Kept(x)
      PROVE  Service'
  <2>1. \A x \in Conn : Live(x) /\ Entry(x).revents = {} => StillCur(x)
    BY <1>5, KeptCur
  <2> QED
    BY <1>5, <2>1, ServiceNested
<1>6. ASSUME NEW l \in Listener, IoNewListener(l) \/ IoCloseListener(l)
      PROVE  Service'
  <2>1. /\ UNCHANGED <<status, stack, pc, cur, evs>>
        /\ IoNewListener(l) \/ CloseListener(l)
    BY <1>6 DEF IoNewListener, IoCloseListener, plans, loop
  <2> QED
    BY <1>5, <2>1, ListenerKept
<1>7. ASSUME NEW w, IoWake(w)
      PROVE  Service'
  BY <1>5, <1>7, WakeKept DEF IoWake, loop
<1>8. ASSUME UNCHANGED <<table, plans, mem, loop, stack>>
      PROVE  Service'
  <2>1. UNCHANGED <<mem, status, stack, backend_info, pollfds, pc, cur, evs>>
    BY <1>8 DEF table, plans, loop
  <2> QED
    BY <1>5, <2>1, SameKept
<1>9. ASSUME NEW c \in Conn, NEW d \in Dir,
             IoPlan(c, d) \/ IoAlways(c, d) \/ \E w : IoWait(c, d, w)
      PROVE  Service'
  <2>1. /\ \A x \in Conn : x # c => Kept(x)
        /\ Live(c)' /\ Entry(c)' = Entry(c) /\ Interest(c) \subseteq Interest(c)'
        /\ UNCHANGED <<pc, cur, evs, stack>>
    BY <1>9, PlanKept
  <2>2. \A x \in Conn : Live(x) /\ Entry(x).revents = {} => StillCur(x)
    BY <2>1, KeptCur DEF StillCur
  <2> QED
    BY <2>1, <2>2, ServiceNested
<1>10. ASSUME ReturnFreed \/ FinishReturn \/ ErrorReturn
       PROVE  Service'
  <2>1. Len(stack) > 1 /\ UNCHANGED <<pc, cur, evs>> /\ stack' = Tail(stack)
    <3>1. CASE ReturnFreed
      <4>1. ~ByDoPlan
        BY <3>1 DEF ReturnFreed, ReadyReturn, Dir, IO_IN, IO_OUT
      <4>2. Len(stack) # 1
        BY <4>1 DEF ByDoPlan, Dir, IO_IN, IO_OUT
      <4>3. \A n \in Nat \ {0} : n # 1 => n > 1
        OBVIOUS
      <4>4. Len(stack) > 1
        BY <1>1, <4>2, <4>3
      <4> QED
        BY <3>1, <4>1, <4>4 DEF ReturnFreed
    <3>2. CASE FinishReturn \/ ErrorReturn
      BY <1>1, <1>2, <3>2 DEF FinishReturn, ErrorReturn, Bottom, loop
    <3> QED
      BY <1>10, <3>1, <3>2
  <2>2. Bottom(stack') = Bottom(stack) /\ stack' # <<>>
    BY <1>1, <2>1, BottomPop
  <2>3. \A x \in Conn : Live(x) /\ Entry(x).revents = {} => StillCur(x)
    BY <1>10, PopKept, KeptCur
  <2> QED
    BY <2>1, <2>2, <2>3, ServiceNested
<1>11. ASSUME Return, Len(stack) > 1
       PROVE  Service'
  <2>1. UNCHANGED <<pc, cur, evs>> /\ stack' = Tail(stack)
    BY <1>1, <1>11 DEF Return, ByDoPlan
  <2>2. Bottom(stack') = Bottom(stack) /\ stack' # <<>>
    BY <1>1, <1>11, <2>1, BottomPop
  <2>3. ASSUME NEW x \in Conn, Live(x), Entry(x).revents = {}
        PROVE  StillCur(x)
    <3>1. CASE x # stack[1].conn
      BY <1>11, <2>3, <3>1, ReturnKept, KeptCur
    <3>2. CASE x = stack[1].conn
      <4>1. UNCHANGED <<mem, status>> /\ Entry(x)'.revents = Entry(x).revents
        BY <1>11, <3>2, ReturnKept
      <4> QED
        BY <2>3, <4>1 DEF StillCur, Live, Interest
    <3> QED
      BY <3>1, <3>2
  <2> QED
    BY <2>1, <2>2, <2>3, ServiceNested
<1>12. ASSUME Return, Len(stack) = 1
       PROVE  Service'
  <2>1. /\ stack[1].conn = cur /\ stack[1].dir = pc /\ CurOK /\ stack' = <<>>
        /\ UNCHANGED <<mem, status>>
    <3>1. stack[1] = Bottom(stack) /\ ~stack[1].freed /\ stack' = Tail(stack)
      BY <1>12 DEF Return, Bottom
    <3> QED
      BY <1>1, <1>2, <1>12, <3>1 DEF Return, plans
  <2>2. PICK c : c = stack[1].conn
    OBVIOUS
  <2>3. c = cur /\ c \in Conn /\ Live(c)' /\ Entry(c)'.revents = {}
    <3>1. Entry(c)'.revents = Entry(c).revents
      BY <1>12, <2>2, ReturnKept
    <3> QED
      BY <2>1, <2>2, <3>1 DEF CurOK, Live
  <2>4. cur' = cur /\ status'[<<cur, pc'>>] \in Polling /\ (pc' = "in" => UNCHANGED <<pc, evs>>)
    <3>1. CASE status[<<c, pc>>] # "notstarted"
      <4>1. NextDirection
        BY <1>12, <2>1, <2>2, <3>1 DEF Return, ByDoPlan, Dir, IO_IN, IO_OUT
      <4>2. pc = "in" /\ IO_OUT \in evs /\ pc' = "out" /\ cur' = cur
        BY <4>1 DEF NextDirection, Dir, IO_IN, IO_OUT
      <4> QED
        BY <2>1, <4>2 DEF CurOK, IO_OUT
    <3>2. CASE status[<<c, pc>>] = "notstarted"
      <4>1. UNCHANGED <<pc, cur, evs>>
        BY <1>12, <2>1, <2>2, <3>2 DEF Return
      <4> QED
        BY <2>1, <2>3, <3>2, <4>1 DEF Polling
    <3> QED
      BY <3>1, <3>2
  <2>5. CurOK'
    BY <2>1, <2>3, <2>4 DEF CurOK, Live, Entry
  <2> QED
    BY <2>1, <2>4, <2>5 DEF Service
<1>13. Len(stack) > 1 \/ Len(stack) = 1
  <2>1. \A n \in Nat \ {0} : n > 1 \/ n = 1
    OBVIOUS
  <2> QED
    BY <1>1, <2>1
<1> QED
  BY <1>3, <1>4, <1>6, <1>7, <1>8, <1>9, <1>10, <1>11, <1>12, <1>13
     DEF AppNext, IoSetFinish, IoConnExclusive, IoBreak

\* Steps of the loop.
LEMMA LoopService ==
  ASSUME IInv, LoopNext, pc' \in Dir
  PROVE  Service'
<1>1. TypeOK /\ PollTable /\ ReventsWanted /\ IO_IN \in Dir /\ IO_OUT \in Dir
  BY DEF IInv, Dir
<1>2. ASSUME NEW d \in Dir, At(d), NextDirection, UNCHANGED <<table, mem, stack>>,
             status'[<<cur, IO_OUT>>] \in Polling <=> status[<<cur, IO_OUT>>] \in Polling
      PROVE  Service'
  <2>1. CurOK /\ pc = d
    BY <1>2, CurPolls
  <2>2. pc = "in" /\ IO_OUT \in evs /\ pc' = "out" /\ cur' = cur
    BY <1>2 DEF NextDirection, Dir, IO_IN, IO_OUT
  <2>3. status'[<<cur, "out">>] \in Polling
    BY <1>2, <2>1, <2>2 DEF CurOK, IO_OUT
  <2>4. CurOK'
    BY <1>2, <2>1, <2>2 DEF CurOK, Live, Entry, table
  <2>5. stack' = <<>>
    BY <1>2 DEF At
  <2> QED
    BY <2>2, <2>3, <2>4, <2>5 DEF Service
<1>3. ASSUME NEW d \in Dir, IoAgain(d)
      PROVE  Service'
  BY <1>2, <1>3 DEF IoAgain, plans
<1>4. ASSUME NEW d \in Dir, IoStarted(d)
      PROVE  Service'
  <2>1. status[<<cur, d>>] \in Polling /\ <<cur, d>> \in Plan /\ status \in [Plan -> Status]
        /\ cur \in Conn
    BY <1>1, <1>4, CurPolls DEF IoStarted, TypeOK, CurOK
  <2>2. status'[<<cur, IO_OUT>>] \in Polling <=> status[<<cur, IO_OUT>>] \in Polling
    BY <1>1, <1>4, <2>1 DEF IoStarted, Polling, Plan
  <2> QED
    BY <1>2, <1>4, <2>2 DEF IoStarted
<1>5. ASSUME NEW d \in Dir, IoDone(d)
      PROVE  Service'
  <2> DEFINE f == Call("next", cur, d)
  <2>1. /\ CurOK /\ pc = d /\ stack = <<>> /\ <<cur, d>> \in Plan
        /\ status \in [Plan -> Status]
    BY <1>1, <1>5, CurPolls DEF IoDone, At, TypeOK
  <2>2. /\ UNCHANGED <<pc, cur, evs, mem, pollfds, backend_info>>
        /\ status' = [status EXCEPT ![<<cur, d>>] = "unset"]
        /\ stack' = <<f>>
    BY <1>5, <2>1 DEF IoDone, NextPlan, table, loop
  <2>3. f.fn = "next" /\ f.conn = cur /\ f.dir = d
    BY DEF Call
  <2> HIDE DEF f
  <2>4. stack'[Len(stack')] = f /\ stack' # <<>>
    BY <2>2
  <2>5. pc = "in" => status'[<<cur, IO_OUT>>] = status[<<cur, IO_OUT>>]
    BY <2>1, <2>2 DEF CurOK, Plan, Dir, IO_IN, IO_OUT
  <2>6. CurOK'
    BY <2>1, <2>2, <2>5 DEF CurOK, Live, Entry
  <2> QED
    BY <2>1, <2>2, <2>3, <2>4, <2>6 DEF Service
<1>6. ASSUME ConnReady
      PROVE  Service'
  <2>1. /\ Rotating /\ stack = <<>> /\ pc = "dispatch" /\ fds[Slot] \in Conn
        /\ pollfds' = Cleared /\ UNCHANGED <<mem, status, stack, backend_info>>
        /\ cur' = fds[Slot] /\ evs' = Revents /\ Revents \cap Dir # {}
        /\ pc' = IF IO_IN \in Revents THEN "in" ELSE "out"
    BY <1>6 DEF ConnReady, Serving, Rotating, At, plans
  <2>2. PICK c \in Conn : c = fds[Slot]
    BY <2>1
  <2>3. Live(c) /\ Entry(c).revents = Revents /\ c \in Obj
    BY <1>1, <2>1, <2>2, SlotInTable DEF PollTable, Entry, Revents, Obj
  <2>4. Entry(c)'.revents = {}
    BY <1>1, <2>1, <2>2, <2>3, ClearedEntry DEF Entry
  <2>5. Revents \cap Dir \subseteq Interest(c)
    BY <1>1, <2>1, <2>3 DEF ReventsWanted
  <2>6. \A d \in Dir : d \in Revents => status'[<<c, d>>] \in Polling
    BY <2>1, <2>5 DEF Interest
  <2>7. pc' \in Revents
    BY <2>1 DEF Dir, IO_IN, IO_OUT
  <2>8. CurOK'
    BY <1>1, <2>1, <2>2, <2>3, <2>4, <2>6 DEF CurOK, Live, Entry
  <2> QED
    BY <2>1, <2>2, <2>6, <2>7, <2>8 DEF Service
<1>7. ASSUME SignalBreak
      PROVE  Service'
  BY <1>7 DEF SignalBreak, IInv, Service, CurOK, Live, Entry, table, plans, loop
<1>8. pc' = "dispatch" => FALSE
  BY DEF Dir, IO_IN, IO_OUT
<1>9. CASE Serve
  <2>1. EntryIdle \/ AcceptFail \/ ListenerError \/ ConnError \/ (\E c \in Conn : AcceptConn(c))
          => pc' = "dispatch"
    BY DEF EntryIdle, AcceptFail, ListenerError, ConnError, AcceptConn, NextEntry, Serving,
           Rotating, At
  <2> QED
    BY <1>6, <1>8, <1>9, <2>1 DEF Serve
<1>10. CASE DoPlan
  <2>1. (\E d \in Dir : IoFail(d)) \/ IoEpipe => pc' = "dispatch"
    BY DEF IoFail, IoEpipe, ReadyReturn
  <2> QED
    BY <1>3, <1>4, <1>5, <1>8, <1>10, <2>1 DEF DoPlan
<1>11. CASE LoopNext /\ ~Serve /\ ~DoPlan /\ ~SignalBreak
  <2>1. pc' \in {"top", "main", "aborted", "poll", "dispatch"}
    BY <1>11
       DEF LoopNext, IoLoopCall, LoopBroken, LoopEmpty, LoopAsleep, LoopExpired, LoopPoll, Poll,
           LoopReturn, PollInterrupted, PollFailed, RotationEnd, RunAlways, RotationDone, Leave
  <2> QED
    BY <2>1 DEF Dir, IO_IN, IO_OUT
<1> QED
  BY <1>7, <1>9, <1>10, <1>11

\* Every step keeps Service.
LEMMA ServiceStep ==
  ASSUME IInv, [Next]_vars
  PROVE  Service'
<1> SUFFICES ASSUME pc' \in Dir
             PROVE  Service'
  BY DEF Service
<1>1. CASE AppNext
  <2>1. stack # <<>> /\ pc \in Dir
    BY <1>1
       DEF AppNext, IoNewConn, IoClose, IoSetFinish, IoNewListener, IoCloseListener,
           IoConnExclusive, IoBreak, IoWake, IoPlan, IoAlways, IoWait, MayPlan, Return,
           ReturnFreed, FinishReturn, ErrorReturn, ByDoPlan, NextDirection, ReadyReturn,
           Running, loop, Dir, IO_IN, IO_OUT
  <2> QED
    BY <1>1, <2>1, CallbackService
<1>2. CASE LoopNext
  BY <1>2, LoopService
<1>3. CASE UNCHANGED vars
  BY <1>3 DEF IInv, Service, CurOK, Live, Entry, vars, table, plans, loop
<1> QED
  BY <1>1, <1>2, <1>3 DEF Next, Aborted
-----------------------------------------------------------------------------
(***************************************************************************)
(* The theorems.                                                           *)
(***************************************************************************)
\* The invariant is inductive: it holds when the program starts, and no step
\* of io_loop, of the poll table or of a callback of the application breaks
\* it.
THEOREM Inductive == Spec => []IInv
<1>1. Init => IInv
  BY TypeInit, PollTableInit, FramesInit, PlansInit, EventsInit DEF IInv
<1>2. IInv /\ [Next]_vars => IInv'
  BY TypeStep, PollTableStep, FramesStep, PlansStep, AlwaysStep, EventsStep, WantedStep,
     ServiceStep DEF IInv
<1> QED
  BY <1>1, <1>2, PTL DEF Spec

\* Every variable keeps its type: the loop never indexes a table entry that
\* does not exist and fairness_counter stays below its bound.
THEOREM TypeCorrect == Spec => []TypeOK
<1>1. IInv => TypeOK
  BY DEF IInv
<1> QED
  BY <1>1, Inductive, PTL

\* add_fd and del_fd keep the table and the objects in step: an object that
\* was moved by a deletion in the middle of a rotation knows its new index,
\* and no freed object is left in the table (poll.c: the assertions of del_fd
\* and setup_pfd never fail).
THEOREM PollTableCorrect == Spec => []PollTable
<1>1. IInv => PollTable
  BY DEF IInv
<1> QED
  BY <1>1, Inductive, PTL

\* The always array and the IO_ALWAYS plans agree, whatever is closed while
\* requests are pending: find_always always finds (poll.c: remove_from_always
\* and backend_new_always, io.c: the assertion of io_do_always).
THEOREM AlwaysCorrect == Spec => []AlwaysList
<1>1. IInv => AlwaysList
  BY DEF IInv
<1> QED
  BY <1>1, Inductive, PTL

\* While none of its callbacks runs, a connection polls for exactly what its
\* plans wait for (io.c: next_plan and do_plan, poll.c: setup_pfd).
THEOREM EventsCorrect == Spec => []EventsMatch
<1>1. IInv => EventsMatch
  BY DEF IInv
<1> QED
  BY <1>1, Inductive, PTL

\* do_plan's assertion never fails (io.c: "We shouldn't have polled for this
\* event if this wasn't true!"), without io_flush_sync.
THEOREM DoPlanCorrect == Spec => []DoPlanAssert
<1>1. ASSUME IInv
      PROVE  DoPlanAssert
  BY <1>1, CurConn DEF DoPlanAssert
<1> QED
  BY <1>1, Inductive, PTL

\* No event is served to a plan that it was not reported for (io_loop: the
\* revents that callbacks leave behind in the table).
THEOREM ReventsCorrect == Spec => []ReventsFresh
<1>1. ASSUME IInv
      PROVE  ReventsFresh
  <2>1. \A i \in 1 .. num_fds : Live(fds[i]) /\ backend_info[fds[i]] = i
    BY <1>1 DEF IInv, PollTable
  <2> QED
    BY <1>1, <2>1 DEF IInv, ReventsWanted, ReventsFresh, Entry
<1> QED
  BY <1>1, Inductive, PTL

-----------------------------------------------------------------------------
(***************************************************************************)
(* Counting the elements of an array.                                      *)
(***************************************************************************)
\* The indices whose elements are in T.
Hits(s, T) == {i \in 1 .. Len(s) : s[i] \in T}

\* An array has finitely many of them.
LEMMA HitsFinite ==
  ASSUME NEW S, NEW s \in Seq(S), NEW T
  PROVE  IsFiniteSet(Hits(s, T)) /\ Cardinality(Hits(s, T)) \in Nat
<1>1. IsFiniteSet(1 .. Len(s))
  BY FS_Interval
<1>2. Hits(s, T) \in SUBSET (1 .. Len(s))
  BY DEF Hits
<1>3. IsFiniteSet(Hits(s, T))
  BY <1>1, <1>2, FS_Subset
<1> QED
  BY <1>3, FS_CardinalityType

\* One element of a finite set, counted apart.
LEMMA CountApart ==
  ASSUME NEW A, IsFiniteSet(A), NEW x
  PROVE  /\ IsFiniteSet(A \ {x})
         /\ Cardinality(A) \in Nat /\ Cardinality(A \ {x}) \in Nat
         /\ Cardinality(A) = Cardinality(A \ {x}) + One(x \in A)
<1>1. /\ IsFiniteSet(A \ {x})
      /\ Cardinality(A \ {x}) = IF x \in A THEN Cardinality(A) - 1 ELSE Cardinality(A)
  BY FS_RemoveElement
<1>2. Cardinality(A) \in Nat /\ Cardinality(A \ {x}) \in Nat
  BY <1>1, FS_CardinalityType
<1> QED
  BY <1>1, <1>2 DEF One

\* The count depends on which indices hit, and on nothing else.
LEMMA HitsSame ==
  ASSUME NEW s, NEW t, NEW T, Len(s) = Len(t),
         \A i \in 1 .. Len(s) : s[i] \in T <=> t[i] \in T
  PROVE  Hits(t, T) = Hits(s, T)
  BY DEF Hits

\* One more element at the end.
LEMMA HitsLast ==
  ASSUME NEW S, NEW s \in Seq(S), NEW t \in Seq(S), Len(t) = Len(s) + 1,
         \A i \in 1 .. Len(s) : t[i] = s[i], NEW T
  PROVE  Cardinality(Hits(t, T)) = Cardinality(Hits(s, T)) + One(t[Len(t)] \in T)
<1>1. Len(s) \in Nat /\ Len(t) \in Nat
  OBVIOUS
<1>2. Hits(t, T) \ {Len(t)} = Hits(s, T)
  BY <1>1 DEF Hits
<1>3. Len(t) \in Hits(t, T) <=> t[Len(t)] \in T
  BY <1>1 DEF Hits
<1>4. One(Len(t) \in Hits(t, T)) = One(t[Len(t)] \in T)
  BY <1>3 DEF One
<1> QED
  BY <1>2, <1>4, HitsFinite, CountApart

\* One element changes.
LEMMA HitsUpdate ==
  ASSUME NEW S, NEW s \in Seq(S), NEW t \in Seq(S), Len(t) = Len(s),
         NEW n \in 1 .. Len(s), NEW T,
         \A i \in 1 .. Len(s) : i # n => (t[i] \in T <=> s[i] \in T)
  PROVE  Cardinality(Hits(t, T)) = Cardinality(Hits(s, T)) - One(s[n] \in T) + One(t[n] \in T)
<1>1. Hits(t, T) \ {n} = Hits(s, T) \ {n}
  BY DEF Hits
<1>2. (n \in Hits(s, T) <=> s[n] \in T) /\ (n \in Hits(t, T) <=> t[n] \in T)
  BY DEF Hits
<1>3. /\ One(n \in Hits(s, T)) = One(s[n] \in T)
      /\ One(n \in Hits(t, T)) = One(t[n] \in T)
  BY <1>2 DEF One
<1>4. /\ IsFiniteSet(Hits(s, T)) /\ IsFiniteSet(Hits(t, T))
  BY HitsFinite
<1>5. /\ Cardinality(Hits(s, T)) = Cardinality(Hits(s, T) \ {n}) + One(s[n] \in T)
      /\ Cardinality(Hits(t, T)) = Cardinality(Hits(t, T) \ {n}) + One(t[n] \in T)
      /\ Cardinality(Hits(s, T) \ {n}) \in Nat
  BY <1>3, <1>4, CountApart
<1>6. One(s[n] \in T) \in Int /\ One(t[n] \in T) \in Int
  BY DEF One
<1>7. Cardinality(Hits(t, T) \ {n}) = Cardinality(Hits(s, T) \ {n})
  BY ONLY <1>1
<1> QED
  BY ONLY <1>5, <1>6, <1>7

\* del_fd's way of deleting takes one element out of the count.
LEMMA HitsSwapRemove ==
  ASSUME NEW S, NEW s \in Seq(S), NEW n \in 1 .. Len(s), NEW T
  PROVE  Cardinality(Hits(SwapRemove(s, n), T)) = Cardinality(Hits(s, T)) - One(s[n] \in T)
<1> DEFINE z == Len(s)
           t == [s EXCEPT ![n] = s[z]]
           u == SwapRemove(s, n)
<1>1. z \in Nat /\ z \in 1 .. z /\ s[z] \in S
  OBVIOUS
<1>2. /\ t \in Seq(S) /\ Len(t) = z
      /\ \A i \in 1 .. z : t[i] = IF i = n THEN s[z] ELSE s[i]
  BY <1>1
<1>3. /\ u \in Seq(S) /\ Len(u) = z - 1
      /\ \A i \in 1 .. z - 1 : u[i] = IF i = n THEN s[z] ELSE s[i]
  BY SwapRemoveType
<1> HIDE DEF t, u
<1>4. t[n] = s[z] /\ t[z] = s[z] /\ \A i \in 1 .. z : i # n => t[i] = s[i]
  BY <1>1, <1>2
<1>5. Cardinality(Hits(t, T)) = Cardinality(Hits(s, T)) - One(s[n] \in T) + One(s[z] \in T)
  BY <1>2, <1>4, HitsUpdate
<1>6. Cardinality(Hits(t, T)) = Cardinality(Hits(u, T)) + One(s[z] \in T)
  <2>1. Len(t) = Len(u) + 1 /\ \A i \in 1 .. Len(u) : t[i] = u[i]
    BY <1>1, <1>2, <1>3
  <2>2. t[Len(t)] = s[z]
    BY <1>2, <1>4
  <2> QED
    BY <1>2, <1>3, <2>1, <2>2, HitsLast
<1>7. Cardinality(Hits(s, T)) \in Nat /\ Cardinality(Hits(u, T)) \in Nat
  BY <1>3, HitsFinite
<1>8. One(s[n] \in T) \in Int /\ One(s[z] \in T) \in Int
  BY DEF One
<1> QED
  BY <1>5, <1>6, <1>7, <1>8 DEF u
-----------------------------------------------------------------------------
(***************************************************************************)
(* What each operation on the poll table does to the entries that poll     *)
(* for something, and to those with something to serve.                    *)
(***************************************************************************)
Waits == {e \in PollFd : e.events # {}}
Reports == {e \in PollFd : e.revents # {}}

\* The sets that WaitingCount and PendingCount speak of.
LEMMA CountsAsHits ==
  ASSUME TypeOK, PollTable
  PROVE  /\ {i \in 1 .. num_fds : pollfds[i].events # {}} = Hits(pollfds, Waits)
         /\ {i \in 1 .. num_fds : pollfds[i].revents # {}} = Hits(pollfds, Reports)
<1>1. Len(pollfds) = num_fds /\ \A i \in 1 .. num_fds : pollfds[i] \in PollFd
  BY DEF TypeOK, PollTable
<1> QED
  BY <1>1 DEF Hits, Waits, Reports

\* The same in the next state.
LEMMA CountsAsHitsPrime ==
  ASSUME TypeOK', PollTable'
  PROVE  /\ {i \in 1 .. num_fds : pollfds[i].events # {}}' = Hits(pollfds', Waits)
         /\ {i \in 1 .. num_fds : pollfds[i].revents # {}}' = Hits(pollfds', Reports)
<1>1. Len(pollfds') = num_fds' /\ \A i \in 1 .. num_fds' : pollfds'[i] \in PollFd
  BY DEF TypeOK, PollTable
<1> QED
  BY <1>1 DEF Hits, Waits, Reports

\* add_fd.
LEMMA AddFdHits ==
  ASSUME NEW o, NEW E \in SUBSET Dir, NEW pfds \in Seq(PollFd), AddFd(o, E, pfds)
  PROVE  /\ Cardinality(Hits(pollfds', Waits)) = Cardinality(Hits(pfds, Waits)) + One(E # {})
         /\ Cardinality(Hits(pollfds', Reports)) = Cardinality(Hits(pfds, Reports))
<1> DEFINE e == [events |-> E, revents |-> {}]
<1>1. e \in PollFd /\ (e \in Waits <=> E # {}) /\ e \notin Reports
  BY DEF PollFd, Waits, Reports
<1>2. pollfds' = Append(pfds, e)
  BY DEF AddFd
<1> HIDE DEF e
<1>3. /\ pollfds' \in Seq(PollFd) /\ Len(pollfds') = Len(pfds) + 1
      /\ \A i \in 1 .. Len(pfds) : pollfds'[i] = pfds[i]
      /\ pollfds'[Len(pollfds')] = e
  BY <1>1, <1>2
<1>4. /\ Cardinality(Hits(pollfds', Waits)) = Cardinality(Hits(pfds, Waits)) + One(e \in Waits)
      /\ Cardinality(Hits(pollfds', Reports))
           = Cardinality(Hits(pfds, Reports)) + One(e \in Reports)
  BY <1>3, HitsLast
<1>5. One(e \in Waits) = One(E # {}) /\ One(e \in Reports) = 0
  BY <1>1 DEF One
<1>6. Cardinality(Hits(pfds, Reports)) \in Nat
  BY HitsFinite
<1> QED
  BY <1>4, <1>5, <1>6

\* del_fd.
LEMMA DelFdHits ==
  ASSUME TypeOK, PollTable, NEW o \in Obj, Live(o), DelFd(o)
  PROVE  /\ Cardinality(Hits(pollfds', Waits))
              = Cardinality(Hits(pollfds, Waits)) - One(Entry(o).events # {})
         /\ Cardinality(Hits(pollfds', Reports))
              = Cardinality(Hits(pollfds, Reports)) - One(Entry(o).revents # {})
<1> DEFINE n == backend_info[o]
<1>1. pollfds \in Seq(PollFd) /\ n \in 1 .. Len(pollfds) /\ pollfds[n] \in PollFd
  BY DEF TypeOK, PollTable
<1>2. pollfds' = SwapRemove(pollfds, n)
  BY DEF DelFd
<1>3. /\ pollfds[n] \in Waits <=> Entry(o).events # {}
      /\ pollfds[n] \in Reports <=> Entry(o).revents # {}
  BY <1>1 DEF Waits, Reports, Entry
<1> HIDE DEF n
<1>4. /\ One(pollfds[n] \in Waits) = One(Entry(o).events # {})
      /\ One(pollfds[n] \in Reports) = One(Entry(o).revents # {})
  BY <1>3 DEF One
<1> QED
  BY <1>1, <1>2, <1>4, HitsSwapRemove

\* backend_new_plan.
LEMMA NewPlanHits ==
  ASSUME TypeOK, PollTable, NEW c \in Obj, Live(c), NEW E \in SUBSET Dir, BackendNewPlan(c, E)
  PROVE  /\ Cardinality(Hits(pollfds', Waits))
              = Cardinality(Hits(pollfds, Waits)) - One(Entry(c).events # {}) + One(E # {})
         /\ Hits(pollfds', Reports) = Hits(pollfds, Reports)
<1> DEFINE n == backend_info[c]
           e == [pollfds[n] EXCEPT !.events = E]
<1>1. pollfds \in Seq(PollFd) /\ n \in 1 .. Len(pollfds) /\ pollfds[n] \in PollFd
  BY DEF TypeOK, PollTable
<1>2. pollfds' = [pollfds EXCEPT ![n] = e]
  BY DEF BackendNewPlan
<1>3. /\ e \in PollFd /\ (e \in Waits <=> E # {})
      /\ (e \in Reports <=> pollfds[n] \in Reports)
      /\ (pollfds[n] \in Waits <=> Entry(c).events # {})
  BY <1>1 DEF PollFd, Waits, Reports, Entry
<1> HIDE DEF n, e
<1>4. /\ pollfds' \in Seq(PollFd) /\ Len(pollfds') = Len(pollfds) /\ pollfds'[n] = e
      /\ \A i \in 1 .. Len(pollfds) : i # n => pollfds'[i] = pollfds[i]
  BY <1>1, <1>2, <1>3
<1>5. Cardinality(Hits(pollfds', Waits))
        = Cardinality(Hits(pollfds, Waits)) - One(pollfds[n] \in Waits) + One(pollfds'[n] \in Waits)
  BY <1>1, <1>4, HitsUpdate
<1>6. /\ One(pollfds[n] \in Waits) = One(Entry(c).events # {})
      /\ One(pollfds'[n] \in Waits) = One(E # {})
  BY <1>3, <1>4 DEF One
<1>7. \A i \in 1 .. Len(pollfds) : pollfds'[i] \in Reports <=> pollfds[i] \in Reports
  BY <1>3, <1>4
<1> QED
  BY <1>4, <1>5, <1>6, <1>7, HitsSame

\* io_loop takes the events out of the entry whose turn it is.
LEMMA ClearedHits ==
  ASSUME TypeOK, PollTable, Rotating
  PROVE  /\ Hits(Cleared, Waits) = Hits(pollfds, Waits)
         /\ Cardinality(Hits(Cleared, Reports))
              = Cardinality(Hits(pollfds, Reports)) - One(Revents # {})
<1> DEFINE n == Slot
           e == [pollfds[n] EXCEPT !.revents = {}]
<1>1. pollfds \in Seq(PollFd) /\ n \in 1 .. Len(pollfds) /\ pollfds[n] \in PollFd
  BY SlotInTable DEF TypeOK, PollTable
<1>2. Cleared = [pollfds EXCEPT ![n] = e]
  BY DEF Cleared
<1>3. /\ e \in PollFd /\ (e \in Waits <=> pollfds[n] \in Waits) /\ e \notin Reports
      /\ (pollfds[n] \in Reports <=> Revents # {})
  BY <1>1 DEF PollFd, Waits, Reports, Revents
<1> HIDE DEF n, e
<1>4. /\ Cleared \in Seq(PollFd) /\ Len(Cleared) = Len(pollfds) /\ Cleared[n] = e
      /\ \A i \in 1 .. Len(pollfds) : i # n => Cleared[i] = pollfds[i]
  BY <1>1, <1>2, <1>3
<1>5. Cardinality(Hits(Cleared, Reports))
        = Cardinality(Hits(pollfds, Reports)) - One(pollfds[n] \in Reports)
          + One(Cleared[n] \in Reports)
  BY <1>1, <1>4, HitsUpdate
<1>6. One(pollfds[n] \in Reports) = One(Revents # {}) /\ One(Cleared[n] \in Reports) = 0
  BY <1>3, <1>4 DEF One
<1>7. \A i \in 1 .. Len(pollfds) : Cleared[i] \in Waits <=> pollfds[i] \in Waits
  BY <1>3, <1>4
<1>8. Hits(Cleared, Waits) = Hits(pollfds, Waits)
  BY <1>4, <1>7, HitsSame
<1>9. Cardinality(Hits(pollfds, Reports)) \in Nat /\ One(Revents # {}) \in Int
  BY <1>1, HitsFinite DEF One
<1> QED
  BY <1>5, <1>6, <1>8, <1>9

\* poll reports how many entries have something to serve.
LEMMA PollHits ==
  ASSUME TypeOK, PollTable, Poll
  PROVE  /\ Hits(pollfds', Waits) = Hits(pollfds, Waits)
         /\ Len(pollfds') = num_fds
         /\ r' = Cardinality({i \in 1 .. num_fds : pollfds'[i].revents # {}})
<1>1. pollfds \in Seq(PollFd) /\ Len(pollfds) = num_fds /\ num_fds \in Nat
  BY DEF TypeOK, PollTable, num_fds
<1>2. PICK rev \in [1 .. num_fds -> UNION {Answers(i) : i \in 1 .. num_fds}] :
        /\ r' = Cardinality({i \in 1 .. num_fds : rev[i] # {}})
        /\ \A i \in 1 .. num_fds : rev[i] \in Answers(i)
        /\ pollfds' = [i \in 1 .. num_fds |-> [pollfds[i] EXCEPT !.revents = rev[i]]]
  BY DEF Poll, PollReturns
<1>3. ASSUME NEW i \in 1 .. num_fds
      PROVE  /\ pollfds'[i].revents = rev[i]
             /\ pollfds'[i] \in Waits <=> pollfds[i] \in Waits
  <2>1. pollfds[i] \in PollFd /\ pollfds'[i] = [pollfds[i] EXCEPT !.revents = rev[i]]
    BY <1>1, <1>2
  <2>2. rev[i] \in SUBSET (Dir \cup {ERR})
    <3>1. Polled(i) \in SUBSET Dir
      BY <2>1 DEF Polled, PollFd
    <3> QED
      BY <1>2, <3>1, AnswersWanted
  <2> QED
    BY <2>1, <2>2 DEF PollFd, Waits
<1>4. Len(pollfds') = num_fds
  BY <1>1, <1>2
<1>5. {i \in 1 .. num_fds : pollfds'[i].revents # {}} = {i \in 1 .. num_fds : rev[i] # {}}
  BY <1>3
<1> QED
  BY <1>1, <1>2, <1>3, <1>4, <1>5, HitsSame
-----------------------------------------------------------------------------
(***************************************************************************)
(* Every step is one of these, as far as the table and its counters go.    *)
(***************************************************************************)
Busy == {"dispatch", "in", "out"}

\* A rotation that goes on keeps r.
SameRotation == pc' \in Busy => pc \in Busy /\ r' = r

Untouched == UNCHANGED <<pollfds, num_waiting>> /\ SameRotation
Added == \E o \in Obj, E \in SUBSET Dir : AddFd(o, E, pollfds) /\ SameRotation
Replanned ==
  \E c \in Obj, E \in SUBSET Dir : Live(c) /\ BackendNewPlan(c, E) /\ SameRotation
Deleted == \E o \in Obj : Live(o) /\ DelFd(o) /\ SameRotation
Served == Rotating /\ Revents # {} /\ r' = r - 1
Taken == /\ Rotating /\ pollfds' = Cleared /\ UNCHANGED num_waiting
         /\ pc' \in Busy => Served
Accepted == Served /\ \E c \in Conn : AddFd(c, {}, Cleared)
Failed == Served /\ Live(fds[Slot]) /\ DelFd(fds[Slot])

Kinds == \/ Untouched \/ Added \/ Replanned \/ Deleted
         \/ Taken \/ Accepted \/ Failed \/ Poll

\* The API calls and the callbacks that return.
LEMMA AppKinds ==
  ASSUME IInv, AppNext
  PROVE  Kinds
<1>1. ASSUME NEW c \in Conn, IoNewConn(c)
      PROVE  Added
  BY <1>1 DEF IoNewConn, NewConn, Added, SameRotation, Obj, loop
<1>2. ASSUME NEW c \in Conn, IoClose(c)
      PROVE  Deleted
  BY <1>2 DEF IoClose, DestroyConn, Deleted, SameRotation, Obj, Live, loop
<1>3. ASSUME NEW l \in Listener, IoNewListener(l)
      PROVE  Added
  BY <1>3 DEF IoNewListener, Added, SameRotation, Obj, Dir, loop
<1>4. ASSUME NEW l \in Listener, IoCloseListener(l)
      PROVE  Deleted
  BY <1>4 DEF IoCloseListener, CloseListener, Deleted, SameRotation, Obj, Live, loop
<1>5. ASSUME Return
      PROVE  Replanned
  <2> DEFINE c == stack[1].conn
  <2>1. c \in Obj /\ Live(c)
    BY <1>5, TopLive DEF Return, NextFrame, Obj, IInv
  <2>2. Interest(c) \in SUBSET Dir /\ BackendNewPlan(c, Interest(c))
    BY <1>5 DEF Return, Interest
  <2>3. SameRotation
    BY <1>5 DEF Return, SameRotation, ByDoPlan, NextDirection, Busy
  <2> QED
    BY <2>1, <2>2, <2>3 DEF Replanned
<1>6. ASSUME ReturnFreed
      PROVE  Untouched
  BY <1>6 DEF ReturnFreed, Untouched, SameRotation, ByDoPlan, ReadyReturn, Busy, table
<1>7. ASSUME UNCHANGED <<table, loop>>
      PROVE  Untouched
  BY <1>7 DEF Untouched, SameRotation, table, loop
<1> QED
  BY <1>1, <1>2, <1>3, <1>4, <1>5, <1>6, <1>7
     DEF Kinds, AppNext, IoSetFinish, IoConnExclusive, IoBreak, IoWake, IoPlan,
         IoAlways, IoWait,
         FinishReturn, ErrorReturn

\* The steps of io_loop.
LEMMA LoopKinds ==
  ASSUME IInv, LoopNext
  PROVE  Kinds
<1>0. TypeOK /\ PollTable
  BY DEF IInv
<1>1. ASSUME UNCHANGED table, pc' \notin Busy
      PROVE  Untouched
  BY <1>1 DEF Untouched, SameRotation, table
<1>2. \A l \in {"main", "top", "poll", "aborted"} : l \notin Busy
  BY DEF Busy
<1>3. ASSUME \/ IoLoopCall \/ LoopAsleep \/ LoopPoll \/ PollInterrupted \/ RotationEnd
             \/ LoopReturn
      PROVE  Untouched
  BY <1>1, <1>2, <1>3 DEF IoLoopCall, LoopAsleep, LoopPoll, PollInterrupted,
     RotationEnd,
                          LoopReturn, Leave
<1>4. ASSUME SignalBreak
      PROVE  Untouched
  BY <1>4 DEF SignalBreak, Untouched, SameRotation, table, loop
<1>5. ASSUME RunAlways \/ RotationDone
      PROVE  Taken
  BY <1>2, <1>5 DEF RunAlways, RotationDone, Taken, Leave
<1>6. ASSUME EntryIdle
      PROVE  Untouched
  BY <1>6 DEF EntryIdle, NextEntry, Untouched, SameRotation, table
<1>7. ASSUME NEW c \in Conn, AcceptConn(c)
      PROVE  Accepted
  BY <1>7 DEF AcceptConn, NewConn, Serving, Accepted, Served
<1>8. ASSUME AcceptFail \/ ConnReady
      PROVE  Taken
  BY <1>8 DEF AcceptFail, ConnReady, Serving, Taken, Served
<1>9. ASSUME ListenerError \/ ConnError
      PROVE  Failed
  BY <1>9 DEF ListenerError, CloseListener, ConnError, DestroyConn, Serving, Failed,
     Served, Live
<1>10. ASSUME NEW d \in Dir, IoAgain(d) \/ IoStarted(d) \/ IoDone(d)
       PROVE  Untouched
  BY <1>10 DEF IoAgain, IoStarted, IoDone, At, NextDirection, Untouched, SameRotation,
     Busy,
               Dir, IO_IN, IO_OUT, table, loop
<1>11. ASSUME NEW d \in Dir, IoFail(d)
       PROVE  Deleted
  <2>1. cur \in Obj /\ Live(cur) /\ pc = d
    BY <1>11, CurConn DEF IoFail, Obj
  <2>2. SameRotation
    BY <1>11, <2>1 DEF IoFail, SameRotation, Busy, Dir, IO_IN, IO_OUT
  <2> QED
    BY <1>11, <2>1, <2>2 DEF IoFail, DestroyConn, Deleted
<1>12. ASSUME IoEpipe
       PROVE  Replanned
  <2>1. cur \in Obj /\ Live(cur) /\ pc = IO_OUT
    BY <1>12, CurConn DEF IoEpipe, Obj, Dir
  <2>2. SameRotation
    BY <1>12, <2>1 DEF IoEpipe, SameRotation, Busy, IO_OUT
  <2> QED
    BY <1>12, <2>1, <2>2 DEF IoEpipe, Interest, Replanned
<1> QED
  BY <1>3, <1>4, <1>5, <1>6, <1>7, <1>8, <1>9, <1>10, <1>11, <1>12
     DEF Kinds, LoopNext, LoopBroken, LoopEmpty, LoopExpired, PollFailed, Serve, DoPlan

\* Every step.
LEMMA StepKinds ==
  ASSUME IInv, [Next]_vars
  PROVE  Kinds
<1>1. CASE UNCHANGED vars
  BY <1>1 DEF Kinds, Untouched, SameRotation, vars, table, loop
<1> QED
  BY <1>1, AppKinds, LoopKinds DEF Next, Aborted
-----------------------------------------------------------------------------
(***************************************************************************)
(* num_waiting and r.                                                      *)
(***************************************************************************)
\* What a step does to the two counts.
LEMMA CountSteps ==
  ASSUME IInv, [Next]_vars, num_waiting = Cardinality(Hits(pollfds, Waits)),
         pc \in Busy => r >= Cardinality(Hits(pollfds, Reports)), ~Poll
  PROVE  /\ num_waiting' = Cardinality(Hits(pollfds', Waits))
         /\ pc' \in Busy => r' >= Cardinality(Hits(pollfds', Reports))
<1> DEFINE w == Cardinality(Hits(pollfds, Waits))
           k == Cardinality(Hits(pollfds, Reports))
<1>1. TypeOK /\ PollTable /\ pollfds \in Seq(PollFd) /\ r \in Int
  BY DEF IInv, TypeOK
<1>2. w \in Nat /\ k \in Nat
  BY <1>1, HitsFinite
<1>3. One(TRUE) = 1 /\ \A b : One(b) \in {0, 1}
  BY DEF One
<1>4. ASSUME Untouched
      PROVE  /\ num_waiting' = Cardinality(Hits(pollfds', Waits))
             /\ pc' \in Busy => r' >= Cardinality(Hits(pollfds', Reports))
  BY <1>4 DEF Untouched, SameRotation
<1>5. ASSUME Added
      PROVE  /\ num_waiting' = Cardinality(Hits(pollfds', Waits))
             /\ pc' \in Busy => r' >= Cardinality(Hits(pollfds', Reports))
  <2>1. PICK o \in Obj, E \in SUBSET Dir : AddFd(o, E, pollfds) /\ SameRotation
    BY <1>5 DEF Added
  <2>2. /\ Cardinality(Hits(pollfds', Waits)) = w + One(E # {})
        /\ Cardinality(Hits(pollfds', Reports)) = k
    BY <1>1, <2>1, AddFdHits
  <2> QED
    BY <2>1, <2>2 DEF AddFd, SameRotation
<1>6. ASSUME Replanned
      PROVE  /\ num_waiting' = Cardinality(Hits(pollfds', Waits))
             /\ pc' \in Busy => r' >= Cardinality(Hits(pollfds', Reports))
  <2>1. PICK c \in Obj, E \in SUBSET Dir : Live(c) /\ BackendNewPlan(c, E) /\ SameRotation
    BY <1>6 DEF Replanned
  <2>2. /\ Cardinality(Hits(pollfds', Waits)) = w - One(Entry(c).events # {}) + One(E # {})
        /\ Hits(pollfds', Reports) = Hits(pollfds, Reports)
    BY <1>1, <2>1, NewPlanHits
  <2>3. num_waiting' = num_waiting - One(Entry(c).events # {}) + One(E # {})
    BY <2>1 DEF BackendNewPlan, Uncount, Entry
  <2> QED
    BY <2>1, <2>2, <2>3 DEF SameRotation
<1>7. ASSUME NEW o \in Obj, Live(o), DelFd(o)
      PROVE  /\ num_waiting' = Cardinality(Hits(pollfds', Waits))
             /\ Cardinality(Hits(pollfds', Reports)) = k - One(Entry(o).revents # {})
  <2>1. /\ Cardinality(Hits(pollfds', Waits)) = w - One(Entry(o).events # {})
        /\ Cardinality(Hits(pollfds', Reports)) = k - One(Entry(o).revents # {})
    BY <1>1, <1>7, DelFdHits
  <2>2. num_waiting' = num_waiting - One(Entry(o).events # {})
    BY <1>7 DEF DelFd, Uncount, Entry
  <2> QED
    BY <2>1, <2>2
<1>8. ASSUME Deleted
      PROVE  /\ num_waiting' = Cardinality(Hits(pollfds', Waits))
             /\ pc' \in Busy => r' >= Cardinality(Hits(pollfds', Reports))
  <2>1. PICK o \in Obj : Live(o) /\ DelFd(o) /\ SameRotation
    BY <1>8 DEF Deleted
  <2>2. /\ num_waiting' = Cardinality(Hits(pollfds', Waits))
        /\ Cardinality(Hits(pollfds', Reports)) = k - One(Entry(o).revents # {})
    BY <1>7, <2>1
  <2>3. One(Entry(o).revents # {}) \in {0, 1}
    BY <1>3
  <2> QED
    BY <1>1, <1>2, <2>1, <2>2, <2>3 DEF SameRotation
<1>9. ASSUME Rotating
      PROVE  /\ Hits(Cleared, Waits) = Hits(pollfds, Waits)
             /\ Cardinality(Hits(Cleared, Reports)) = k - One(Revents # {})
             /\ pc \in Busy
  BY <1>1, <1>9, ClearedHits DEF Rotating, At, Busy
<1>10. ASSUME Served
       PROVE  /\ Hits(Cleared, Waits) = Hits(pollfds, Waits)
              /\ Cardinality(Hits(Cleared, Reports)) = k - 1
              /\ r' >= k - 1
  <2>1. One(Revents # {}) = 1
    BY <1>10 DEF Served, One
  <2> QED
    BY <1>1, <1>2, <1>9, <1>10, <2>1 DEF Served
<1>11. ASSUME Taken
       PROVE  /\ num_waiting' = Cardinality(Hits(pollfds', Waits))
              /\ pc' \in Busy => r' >= Cardinality(Hits(pollfds', Reports))
  BY <1>9, <1>10, <1>11 DEF Taken
<1>12. ASSUME Accepted
       PROVE  /\ num_waiting' = Cardinality(Hits(pollfds', Waits))
              /\ pc' \in Busy => r' >= Cardinality(Hits(pollfds', Reports))
  <2>1. PICK c \in Conn : AddFd(c, {}, Cleared) /\ Served
    BY <1>12 DEF Accepted
  <2>2. Cleared \in Seq(PollFd)
    BY <1>1, ClearedType, TypeParts
  <2>3. /\ Cardinality(Hits(pollfds', Waits)) = Cardinality(Hits(Cleared, Waits)) + One({} # {})
        /\ Cardinality(Hits(pollfds', Reports)) = Cardinality(Hits(Cleared, Reports))
    BY <2>1, <2>2, AddFdHits
  <2>4. One({} # {}) = 0
    BY DEF One
  <2>5. num_waiting' = num_waiting + One({} # {})
    BY <2>1 DEF AddFd
  <2> QED
    BY <1>10, <2>1, <2>3, <2>4, <2>5
<1>13. ASSUME Failed
       PROVE  /\ num_waiting' = Cardinality(Hits(pollfds', Waits))
              /\ pc' \in Busy => r' >= Cardinality(Hits(pollfds', Reports))
  <2> DEFINE o == fds[Slot]
  <2>1. Served /\ Rotating /\ Live(o) /\ DelFd(o)
    BY <1>13 DEF Failed, Served
  <2>2. o \in Obj /\ backend_info[o] = Slot
    BY <1>1, <2>1, SlotInTable DEF TypeOK, PollTable, num_fds
  <2>3. One(Entry(o).revents # {}) = 1
    BY <2>1, <2>2 DEF Entry, Served, Revents, One
  <2> QED
    BY <1>7, <1>10, <2>1, <2>2, <2>3
<1> QED
  BY <1>4, <1>5, <1>6, <1>8, <1>11, <1>12, <1>13, StepKinds DEF Kinds

\* Every step keeps what num_waiting and r count.
LEMMA CountStep ==
  ASSUME IInv, IInv', [Next]_vars, WaitingCount, PendingCount
  PROVE  WaitingCount' /\ PendingCount'
<1>1. TypeOK /\ PollTable /\ TypeOK' /\ PollTable'
  BY DEF IInv
<1>2. /\ num_waiting = Cardinality(Hits(pollfds, Waits))
      /\ pc \in Busy => r >= Cardinality(Hits(pollfds, Reports))
  BY <1>1, CountsAsHits DEF WaitingCount, PendingCount, Busy
<1>3. /\ num_waiting' = Cardinality(Hits(pollfds', Waits))
      /\ pc' \in Busy => r' >= Cardinality(Hits(pollfds', Reports))
  <2>1. CASE Poll
    <3>1. /\ Hits(pollfds', Waits) = Hits(pollfds, Waits) /\ num_fds' = num_fds
          /\ r' = Cardinality({i \in 1 .. num_fds : pollfds'[i].revents # {}})
          /\ num_waiting' = num_waiting
      BY <1>1, <2>1, PollHits DEF Poll, num_fds
    <3>2. {i \in 1 .. num_fds : pollfds'[i].revents # {}} = Hits(pollfds', Reports)
      BY <1>1, <3>1, CountsAsHitsPrime
    <3>3. r' = Cardinality(Hits(pollfds', Reports)) /\ r' \in Int
      BY <1>1, <3>1, <3>2 DEF TypeOK
    <3> QED
      BY <1>2, <3>1, <3>3
  <2>2. CASE ~Poll
    BY <1>2, <2>2, CountSteps
  <2> QED
    BY <2>1, <2>2
<1> QED
  BY <1>1, <1>3, CountsAsHitsPrime DEF WaitingCount, PendingCount, Busy
-----------------------------------------------------------------------------
(***************************************************************************)
(* num_exclusive.                                                          *)
(***************************************************************************)
\* There are finitely many plans, so finitely many exclusive ones.
LEMMA ExclusiveFinite ==
  ASSUME NEW X \in SUBSET Plan
  PROVE  IsFiniteSet(X)
<1>1. IsFiniteSet(Dir)
  <2>1. Dir = ({} \cup {IO_IN}) \cup {IO_OUT}
    BY DEF Dir
  <2> QED
    BY <2>1, FS_EmptySet, FS_AddElement
<1>2. IsFiniteSet(Plan)
  BY <1>1, ConnAssumption, FS_Product DEF Plan
<1> QED
  BY <1>2, FS_Subset

\* del_fd takes the object's flags out of the count, both of them.
LEMMA DelFdExclusive ==
  ASSUME TypeOK, ExclusiveCount, NEW o \in Obj, DelFd(o),
         \A x \in Conn : x # o /\ Live(x) => Live(x)'
  PROVE  ExclusiveCount'
<1> DEFINE a == <<o, IO_IN>>
           b == <<o, IO_OUT>>
           X == exclusive
           Y == exclusive \ {a}
           Z == exclusive \ {a, b}
<1>1. /\ X \in SUBSET Plan /\ num_exclusive = Cardinality(X)
      /\ exclusive' = Z /\ num_exclusive' = num_exclusive - (One(a \in X) + One(b \in X))
  BY DEF TypeOK, ExclusiveCount, DelFd, Released
<1>2. a # b
  BY DEF IO_IN, IO_OUT
<1>3. Z = Y \ {b} /\ (b \in Y <=> b \in X)
  BY <1>2
<1>4. \A p \in Z : p \in Plan /\ p[1] \in Conn /\ p[1] # o /\ Live(p[1])
  <2>1. ASSUME NEW p \in Z
        PROVE  p \in Plan /\ p[1] \in Conn /\ p[1] # o /\ Live(p[1])
    <3>1. p \in Plan /\ Live(p[1])
      BY <1>1 DEF ExclusiveCount
    <3>2. p = <<p[1], p[2]>> /\ p[1] \in Conn /\ p[2] \in {IO_IN, IO_OUT}
      BY <3>1 DEF Plan, Dir
    <3> QED
      BY <3>1, <3>2
  <2> QED
    BY <2>1
<1> HIDE DEF a, b, X, Y, Z
<1>5. /\ Cardinality(X) = Cardinality(Y) + One(a \in X)
      /\ IsFiniteSet(Y)
      /\ Cardinality(X) \in Nat /\ Cardinality(Y) \in Nat
  BY <1>1, ExclusiveFinite, CountApart DEF X, Y
<1>6. Cardinality(Y) = Cardinality(Z) + One(b \in Y) /\ Cardinality(Z) \in Nat
  BY <1>3, <1>5, CountApart
<1>7. One(b \in Y) = One(b \in X)
  BY <1>3 DEF One
<1>8. One(a \in X) \in Int /\ One(b \in X) \in Int
  BY DEF One
<1>9. num_exclusive' = Cardinality(Z)
  BY <1>1, <1>5, <1>6, <1>7, <1>8
<1>10. \A p \in Z : Live(p[1])'
  BY <1>4
<1> QED
  BY <1>1, <1>9, <1>10 DEF ExclusiveCount

\* backend_set_exclusive counts a change of one flag.
LEMMA SetExclusive ==
  ASSUME TypeOK, ExclusiveCount, NEW p \in Plan, NEW b \in BOOLEAN, IoConnExclusive(p, b)
  PROVE  ExclusiveCount'
<1>1. /\ exclusive \in SUBSET Plan /\ num_exclusive = Cardinality(exclusive)
      /\ mem[p[1]] = "live" /\ mem' = mem
      /\ \A q \in exclusive : mem[q[1]] = "live"
  BY DEF TypeOK, ExclusiveCount, IoConnExclusive, Live
<1>2. IsFiniteSet(exclusive)
  BY <1>1, ExclusiveFinite
<1>3. CASE b
  <2>1. /\ p \notin exclusive /\ exclusive' = exclusive \cup {p}
        /\ num_exclusive' = num_exclusive + 1
    BY <1>3 DEF IoConnExclusive
  <2>2. Cardinality(exclusive \cup {p}) = Cardinality(exclusive) + 1
    BY <1>2, <2>1, FS_AddElement
  <2> QED
    BY <1>1, <2>1, <2>2 DEF ExclusiveCount, Live
<1>4. CASE ~b
  <2>1. /\ p \in exclusive /\ exclusive' = exclusive \ {p}
        /\ num_exclusive' = num_exclusive - 1
    BY <1>4 DEF IoConnExclusive
  <2>2. Cardinality(exclusive \ {p}) = Cardinality(exclusive) - 1
    BY <1>2, <2>1, FS_RemoveElement
  <2> QED
    BY <1>1, <2>1, <2>2 DEF ExclusiveCount, Live
<1> QED
  BY <1>3, <1>4

\* Every step keeps ExclusiveCount.
LEMMA ExclusiveStep ==
  ASSUME IInv, [Next]_vars, ExclusiveCount
  PROVE  ExclusiveCount'
<1>1. TypeOK /\ exclusive \in SUBSET Plan /\ mem \in [Obj -> {"free", "live", "dying"}]
  BY DEF IInv, TypeOK
<1>2. ASSUME UNCHANGED excl, \A x \in Conn : Live(x) => Live(x)'
      PROVE  ExclusiveCount'
  <2>1. \A p \in exclusive : p[1] \in Conn
    BY <1>1 DEF Plan
  <2> QED
    BY <1>2, <2>1 DEF ExclusiveCount, excl
<1>3. ASSUME UNCHANGED <<excl, mem>>
      PROVE  ExclusiveCount'
  BY <1>2, <1>3 DEF Live
<1>4. ASSUME NEW c \in Conn, DestroyConn(c)
      PROVE  ExclusiveCount'
  <2>1. c \in Obj /\ DelFd(c)
    BY <1>4 DEF DestroyConn, Obj
  <2>2. \A x \in Conn : x # c => mem'[x] = mem[x]
    BY <1>1, <1>4 DEF DestroyConn, Obj
  <2> QED
    BY <1>1, <2>1, <2>2, DelFdExclusive DEF Live
<1>5. ASSUME NEW l \in Listener, CloseListener(l)
      PROVE  ExclusiveCount'
  <2>1. l \in Obj /\ DelFd(l)
    BY <1>5 DEF CloseListener, Obj
  <2>2. \A x \in Conn : x # l => mem'[x] = mem[x]
    BY <1>1, <1>5 DEF CloseListener, Obj
  <2> QED
    BY <1>1, <2>1, <2>2, DelFdExclusive DEF Live
<1>6. ASSUME NEW o \in Obj, mem' = [mem EXCEPT ![o] = "live"], UNCHANGED excl
      PROVE  ExclusiveCount'
  BY <1>1, <1>2, <1>6 DEF Live, Obj
<1>7. ASSUME FinishReturn
      PROVE  ExclusiveCount'
  <2>1. mem[stack[1].conn] = "dying"
    <3>1. 1 \in 1 .. Len(stack)
      BY <1>1, <1>7 DEF FinishReturn, TypeOK
    <3> QED
      BY <1>7, <3>1 DEF IInv, FramesOK, FramesFor, FinishFrame, FinishReturn
  <2>2. UNCHANGED excl /\ mem' = [mem EXCEPT ![stack[1].conn] = "free"]
    BY <1>7 DEF FinishReturn
  <2> QED
    BY <1>1, <1>2, <2>1, <2>2 DEF Live, Obj
<1>8. ASSUME NEW c \in Conn, IoNewConn(c) \/ AcceptConn(c)
      PROVE  ExclusiveCount'
  BY <1>6, <1>8 DEF IoNewConn, AcceptConn, NewConn, Obj
<1>9. ASSUME NEW l \in Listener, IoNewListener(l)
      PROVE  ExclusiveCount'
  BY <1>6, <1>9 DEF IoNewListener, Obj
<1>10. ASSUME AppNext
       PROVE  ExclusiveCount'
  BY <1>1, <1>3, <1>4, <1>5, <1>7, <1>8, <1>9, <1>10, SetExclusive
     DEF AppNext, IoClose, IoSetFinish, IoCloseListener, IoBreak, IoWake, IoPlan,
         IoAlways,
         IoWait, Return, ReturnFreed, ErrorReturn
<1>11. ASSUME Serve \/ DoPlan
       PROVE  ExclusiveCount'
  <2>1. \A d \in Dir : IoFail(d) => cur \in Conn
    BY CurConn DEF IoFail
  <2> QED
    BY <1>3, <1>4, <1>5, <1>8, <1>11, <2>1
       DEF Serve, DoPlan, EntryIdle, AcceptFail, ListenerError, ConnReady, ConnError,
           IoAgain, IoStarted, IoDone, IoFail, IoEpipe
<1>12. ASSUME LoopNext
       PROVE  ExclusiveCount'
  BY <1>3, <1>11, <1>12
     DEF LoopNext, IoLoopCall, LoopBroken, LoopEmpty, LoopAsleep, LoopExpired,
         LoopPoll, Poll,
         LoopReturn, PollInterrupted, PollFailed, SignalBreak, RotationEnd, RunAlways,
         RotationDone
<1> QED
  BY <1>3, <1>10, <1>12 DEF Next, Aborted, vars
-----------------------------------------------------------------------------
(***************************************************************************)
(* The theorems.                                                           *)
(***************************************************************************)
\* Between the assertion on the counters and poll, nothing runs.
LEMMA AwakeStep ==
  ASSUME [Next]_vars, PollAwake
  PROVE  PollAwake'
<1> SUFFICES ASSUME pc' = "poll"
             PROVE  stack' = <<>> /\ (num_waiting' # 0 \/ num_always' # 0)
  BY DEF PollAwake
<1>1. CASE pc = "poll"
  <2>1. stack = <<>> /\ (num_waiting # 0 \/ num_always # 0) /\ ~Running
    BY <1>1 DEF PollAwake, Running
  <2>2. ~AppNext
    BY <2>1 DEF AppNext, IoNewConn, IoClose, IoSetFinish, IoNewListener,
       IoCloseListener,
                IoConnExclusive, IoBreak, IoWake, IoPlan, IoAlways, IoWait, MayPlan, Return,
                ReturnFreed, FinishReturn, ErrorReturn
  <2>3. ASSUME LoopNext
        PROVE  UNCHANGED <<table, plans, stack>>
    BY <1>1, <2>3
       DEF LoopNext, IoLoopCall, LoopBroken, LoopEmpty, LoopAsleep, LoopExpired,
           LoopPoll, Poll,
           LoopReturn, PollInterrupted, PollFailed, SignalBreak, RotationEnd, RunAlways,
           RotationDone, Awake, Rotating, Serving, At, Leave, Serve, DoPlan, EntryIdle, AcceptFail,
           ListenerError, ConnReady, ConnError, AcceptConn, IoAgain, IoStarted, IoDone, IoFail,
           IoEpipe, Dir, IO_IN, IO_OUT
  <2>4. UNCHANGED <<table, plans, stack>>
    BY <2>2, <2>3 DEF Next, Aborted, vars
  <2> QED
    BY <2>1, <2>4 DEF table, plans, num_always
<1>2. CASE pc # "poll"
  <2>1. LoopPoll
    BY <1>2
       DEF Next, Aborted, vars, loop, AppNext, IoNewConn, IoClose, IoSetFinish,
           IoNewListener,
           IoCloseListener, IoConnExclusive, IoBreak, IoWake, IoPlan, IoAlways, IoWait, Return,
           ReturnFreed, FinishReturn, ErrorReturn, NextDirection, ReadyReturn,
           LoopNext, IoLoopCall, LoopBroken, LoopEmpty, LoopAsleep, LoopExpired, Poll,
           LoopReturn, PollInterrupted, PollFailed, SignalBreak, RotationEnd, RunAlways,
           RotationDone, Leave, Serve, DoPlan, EntryIdle, AcceptFail, ListenerError, ConnReady,
           ConnError, AcceptConn, NextEntry, IoAgain, IoStarted, IoDone, IoFail, IoEpipe
  <2> QED
    BY <2>1 DEF LoopPoll, Awake, At, table, plans, num_always
<1> QED
  BY <1>1, <1>2

\* The counters are right from the start and after every step.
LEMMA Counted == Spec => []CountInv
<1>1. Init => CountInv
  <2> SUFFICES ASSUME Init PROVE CountInv
    OBVIOUS
  <2>1. num_fds = 0 /\ 1 .. num_fds = {}
    BY DEF Init, num_fds
  <2>2. {i \in 1 .. num_fds : pollfds[i].events # {}} = {}
    BY <2>1
  <2> QED
    BY <2>2, FS_EmptySet DEF Init, CountInv, WaitingCount, ExclusiveCount,
       PendingCount, PollAwake
<1>2. IInv /\ IInv' /\ CountInv /\ [Next]_vars => CountInv'
  BY CountStep, ExclusiveStep, AwakeStep DEF CountInv
<1> QED
  BY <1>1, <1>2, Inductive, PTL DEF Spec

\* num_waiting is the number of entries with events, whatever add_fd, del_fd,
\* backend_new_plan and poll did to the table: the assertion of io_loop tests
\* what its message says.
THEOREM WaitingCorrect == Spec => []WaitingCount
<1>1. CountInv => WaitingCount
  BY DEF CountInv
<1> QED
  BY <1>1, Counted, PTL

\* num_exclusive is the number of exclusive plans, all of live connections:
\* closing a connection in any callback gives its flags back.
THEOREM ExclusiveCorrect == Spec => []ExclusiveCount
<1>1. CountInv => ExclusiveCount
  BY DEF CountInv
<1> QED
  BY <1>1, Counted, PTL

\* io_loop's r never falls below the number of entries with events to serve,
\* although entries come, go and move during the rotation.
THEOREM PendingCorrect == Spec => []PendingCount
<1>1. CountInv => PendingCount
  BY DEF CountInv
<1> QED
  BY <1>1, Counted, PTL

\* io_loop does not call poll, with no plan to run at once and nothing
\* exclusive, unless some descriptor is polled.
THEOREM SleepCorrect == Spec => []NoDeafSleep
<1>1. ASSUME IInv, CountInv
      PROVE  NoDeafSleep
  <2> SUFFICES ASSUME At("poll"), num_always = 0, num_exclusive = 0
               PROVE  \E i \in 1 .. num_fds : Polled(i) # {}
    BY DEF NoDeafSleep
  <2>1. num_waiting # 0 /\ num_waiting = Cardinality({i \in 1 .. num_fds : pollfds[i].events # {}})
    BY <1>1 DEF CountInv, PollAwake, WaitingCount, At
  <2>2. {i \in 1 .. num_fds : pollfds[i].events # {}} # {}
    BY <2>1, FS_EmptySet
  <2> QED
    BY <2>2 DEF Polled
<1> QED
  BY <1>1, Inductive, Counted, PTL

\* After io_break only the connection that io_ready is working for is called
\* back before io_loop returns: io_loop looks at io_loop_return before it
\* takes an always request or turns to another entry.
THEOREM BreakCorrect == Spec => BreakBound
<1>1. ASSUME IInv, [Next]_vars, io_loop_return, stack = <<>>, pc # "main", stack' # <<>>
      PROVE  stack'[1].conn = cur
  <2>1. stack \in Seq(Frame) /\ ~Running /\ ~Rotating
    BY <1>1 DEF IInv, TypeOK, Running, Rotating
  <2>2. ~AppNext
    BY <1>1, <2>1
       DEF AppNext, IoNewConn, IoClose, IoSetFinish, IoNewListener, IoCloseListener,
           IoConnExclusive, IoBreak, IoWake, IoPlan, IoAlways, IoWait, MayPlan, Return,
           ReturnFreed, FinishReturn, ErrorReturn
  <2>3. stack' # stack
    BY <1>1
  <2>4. PICK d \in Dir : IoDone(d) \/ IoFail(d)
    BY <1>1, <2>1, <2>2, <2>3
       DEF Next, Aborted, vars, LoopNext, IoLoopCall, LoopBroken, LoopEmpty, LoopAsleep,
           LoopExpired, LoopPoll, Poll, LoopReturn, PollInterrupted, PollFailed, SignalBreak,
           RotationEnd, RunAlways, RotationDone, Serve, Serving, DoPlan, EntryIdle, AcceptFail,
           ListenerError, ConnReady, ConnError, AcceptConn, IoAgain, IoStarted, IoEpipe
  <2>5. cur \in Conn
    BY <1>1, <2>4, CurConn DEF IoDone, IoFail
  <2>6. CASE IoDone(d)
    <3>1. Call("next", cur, d) \in Frame /\ stack' = <<Call("next", cur, d)>> \o stack
      BY <2>5, <2>6, CallType DEF IoDone, NextPlan
    <3> QED
      BY <2>1, <3>1, PushFrame DEF Call
  <2>7. CASE IoFail(d)
    <3>1. Call("finish", cur, IO_IN) \in Frame
      BY <2>5, CallType DEF Dir
    <3>2. Orphan(stack, cur) \in Seq(Frame) /\ Len(Orphan(stack, cur)) = 0
      BY <1>1, <2>1, OrphanFrames
    <3>3. \/ stack' = <<Call("finish", cur, IO_IN)>> \o Orphan(stack, cur)
          \/ stack' = Orphan(stack, cur)
      BY <2>7 DEF IoFail, DestroyConn
    <3>4. Orphan(stack, cur) = <<>>
      BY <3>2
    <3>5. stack' = <<Call("finish", cur, IO_IN)>> \o Orphan(stack, cur)
      BY <1>1, <3>3, <3>4
    <3> QED
      BY <3>1, <3>2, <3>5, PushFrame DEF Call
  <2> QED
    BY <2>4, <2>6, <2>7
<1>2. ASSUME IInv, [Next]_vars
      PROVE  [io_loop_return /\ stack = <<>> /\ pc # "main" /\ stack' # <<>>
                => stack'[1].conn = cur]_vars
  BY <1>1, <1>2
<1> QED
  BY <1>2, Inductive, PTL DEF Spec, BreakBound
=============================================================================
