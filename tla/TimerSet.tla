------------------------------ MODULE TimerSet ------------------------------
(***************************************************************************)
(* What ccan/timer promises: a set of timers, each with the time it is due *)
(* at, from which the due ones are taken earliest first.  Times are in     *)
(* grains of TIMER_GRANULARITY nanoseconds.                                *)
(***************************************************************************)
EXTENDS Integers

CONSTANTS Timer, MaxTime, NULL

VARIABLES
  due,    \* when each pending timer is due; NULL for the others
  clock,  \* the latest time that timers_init or timers_expire was given
  ret     \* the last call that returns something, its argument and result

vars == <<due, clock, ret>>

Time == 0 .. MaxTime
Pending == {t \in Timer : due[t] # NULL}
First(t) == t \in Pending /\ \A u \in Pending : due[t] <= due[u]
Later(a, b) == IF a < b THEN b ELSE a

Void == <<"void", NULL, NULL>>

Init ==
  /\ due = [t \in Timer |-> NULL]
  /\ clock \in Time
  /\ ret = Void

\* A time in the past may be replaced by a later one in the past.
Add(t, when) ==
  /\ t \notin Pending
  /\ \E d \in {when} \cup (when .. clock) : due' = [due EXCEPT ![t] = d]
  /\ ret' = Void
  /\ UNCHANGED clock

Del(t) ==
  /\ t \in Pending
  /\ due' = [due EXCEPT ![t] = NULL]
  /\ ret' = Void
  /\ UNCHANGED clock

Earliest ==
  /\ \/ Pending = {} /\ ret' = <<"earliest", NULL, NULL>>
     \/ \E t \in Timer : First(t) /\ ret' = <<"earliest", NULL, due[t]>>
  /\ UNCHANGED <<due, clock>>

\* A timer that is due at when is returned, the earliest first.
Expire(when) ==
  /\ \E t \in Timer :
       /\ First(t) /\ due[t] <= when
       /\ due' = [due EXCEPT ![t] = NULL]
       /\ ret' = <<"expire", when, t>>
  /\ clock' = Later(clock, when)

\* NULL is returned only if none is due.
ExpireNone(when) ==
  /\ \A t \in Pending : due[t] > when
  /\ ret' = <<"expire", when, NULL>>
  /\ clock' = Later(clock, when)
  /\ UNCHANGED due

Next ==
  \/ Earliest
  \/ \E t \in Timer, when \in Time : Add(t, when)
  \/ \E t \in Timer : Del(t)
  \/ \E when \in Time : Expire(when) \/ ExpireNone(when)

Spec == Init /\ [][Next]_vars
=============================================================================
