----------------------------- MODULE TimerWheel -----------------------------
(***************************************************************************)
(* ccan/timer: a hierarchy of levels of PER_LEVEL buckets each.  A bucket  *)
(* of level l spans PER_LEVEL^l grains of time; timers further away than   *)
(* the levels that were allocated so far are on the far list.  As base,    *)
(* the current time, moves on, buckets are emptied into lower levels.      *)
(*                                                                         *)
(* first and firsts[] are cached minima.  timer_del does not maintain      *)
(* them: they are lower bounds, until a search makes them exact again.     *)
(*                                                                         *)
(* Lists are sets.  Their order only matters where a timer is popped from  *)
(* a bucket of level 0, and then any of them may be the first.             *)
(***************************************************************************)
EXTENDS Integers, FiniteSets, FiniteSetsExt

CONSTANTS
  Timer,      \* the struct timer objects
  LevelBits,  \* TIMER_LEVEL_BITS
  Levels,     \* ARRAY_SIZE(timers->level)
  MaxTime,    \* bound on the clock, in grains
  NULL

ASSUME TimerAssumption ==
  /\ IsFiniteSet(Timer) /\ NULL \notin Timer
  /\ LevelBits \in Nat \ {0} /\ Levels \in Nat \ {0}

\* 1ULL << n, for the shifts that fit the width of a time.
Pow2[n \in 0 .. LevelBits * Levels] == IF n = 0 THEN 1 ELSE 2 * Pow2[n - 1]

\* -1ULL: later than any time.
Never == Pow2[LevelBits * Levels]

ASSUME TimeAssumption == MaxTime \in Nat /\ MaxTime < Never /\ NULL \notin 0 .. MaxTime

VARIABLES
  timers,  \* struct timers; where: the list each timer is on
  time,    \* t->time; 0 once t is off its list, where nothing reads it
  clock,   \* the latest time that timers_init or timers_expire was given
  now,     \* the argument of timers_expire while it runs
  ret      \* the last call that returns something, its argument and result

vars == <<timers, time, clock, now, ret>>

\* The grains that a bucket of level l spans.
Span(l) == Pow2[l * LevelBits]

PER_LEVEL == Pow2[LevelBits]
Level == 0 .. Levels - 1
Far == <<Levels, 0>>          \* the far list: firsts[] has its entry after the levels
Nowhere == <<Levels + 1, 0>>  \* not added: list_node_initted
Place == {Far, Nowhere} \cup (Level \X (0 .. PER_LEVEL - 1))
Time == 0 .. MaxTime

Void == <<"void", NULL, NULL>>

\* The types of struct timers and struct timer: base and first never leave the
\* range of the times that were asked for.
TypeOK ==
  /\ timers \in [base : Time, first : Time \cup {Never},
                 firsts : [0 .. Levels -> Time \cup {Never}],
                 level : SUBSET Level, where : [Timer -> Place]]
  /\ time \in [Timer -> Time]
  /\ clock \in Time
  /\ now \in Time \cup {NULL}
  /\ ret \in {Void} \cup ({"earliest"} \X {NULL} \X (Time \cup {NULL}))
             \cup ({"expire"} \X Time \X (Timer \cup {NULL}))

\* timers_init(time_mono()) and timer_init of every timer.
Init ==
  \E start \in Time :
    /\ timers = [base |-> start, first |-> Never,
                 firsts |-> [l \in 0 .. Levels |-> Never],
                 level |-> {}, where |-> [t \in Timer |-> Nowhere]]
    /\ time = [t \in Timer |-> 0]
    /\ clock = start
    /\ now = NULL /\ ret = Void
-----------------------------------------------------------------------------
(***************************************************************************)
(* The data structure.  w stands for a struct timers.                      *)
(***************************************************************************)
\* ilog64: the number of bits of n.
Ilog(n) == CHOOSE k \in 0 .. LevelBits * Levels : n < Pow2[k] /\ (k > 0 => n >= Pow2[k - 1])

\* level_of; the difference is unsigned.
LevelOf(w, when) == Ilog(((when - w.base) % Never) \div 2) \div LevelBits

\* The last grain that lies within level l's span from base.
Horizon(w, l) == w.base + Span(l + 1) - 1

\* Where timer_add_raw puts a timer that is due at when.
PlaceOf(w, when) ==
  LET l == LevelOf(w, when)
  IN  IF l \in w.level THEN <<l, (when \div Span(l)) % PER_LEVEL>> ELSE Far

MinTime(T) == Min(T \cup {Never})

\* timer_add_raw; tm has the times.
AddRaw(w, tm, t) ==
  LET p == PlaceOf(w, tm[t])
  IN  [w EXCEPT !.where[t] = p, !.firsts[p[1]] = Min({@, tm[t]})]

\* timer_add_raw of every timer of S: where one goes does not depend on the others.
AddAll(w, S) ==
  [w EXCEPT
     !.where = [t \in Timer |-> IF t \in S THEN PlaceOf(w, time[t]) ELSE w.where[t]],
     !.firsts = [l \in 0 .. Levels |->
                   Min({w.firsts[l]}
                       \cup {time[t] : t \in {u \in S : PlaceOf(w, time[u])[1] = l}})]]

\* list_del of every timer of S.
TakeOff(w, S) ==
  [w EXCEPT !.where = [t \in Timer |-> IF t \in S THEN Nowhere ELSE w.where[t]]]

On(w, p) == {t \in Timer : w.where[t] = p}

\* Mutant: the timers that are due at when itself stay on the far list.
FarGetBefore(w, when) == {t \in On(w, Far) : time[t] < when}

\* timers_far_get.
FarGet(w, when) == {t \in On(w, Far) : time[t] <= when}

\* add_level.
AddLevel(w, l) ==
  AddAll([w EXCEPT !.level = @ \cup {l}], FarGet(w, Horizon(w, l)))

\* How many low bits changed between base and when: ilog64_nz(time ^ base).
Changed(w, when) ==
  Min({k \in 0 .. LevelBits * Levels : when \div Pow2[k] = w.base \div Pow2[k]})

\* Mutant: the buckets that a wrap has to empty are left alone.
FastForwardNoCascade(w, when) == [w EXCEPT !.base = when]

\* The levels that timer_fast_forward goes through.
Crossed(w, when) == 0 .. (Changed(w, when) - 1) \div LevelBits

\* The timers it collects: those in the buckets that base enters, and the far
\* ones that belong on a level not there yet.
Collected(w, when) ==
  UNION {IF l \in w.level THEN On(w, <<l, (when \div Span(l)) % PER_LEVEL>>)
         ELSE FarGet(w, Horizon(w, l)) : l \in Crossed(w, when)}

\* timer_fast_forward: the timers are taken out, and added again to a wheel
\* that may have a level more.
FastForward(w, when) ==
  LET absent == Crossed(w, when) \ w.level
      list == Collected(w, when)
      out == TakeOff(w, list)
      grown == IF absent = {} THEN out ELSE AddLevel(out, Min(absent))
  IN  IF when = w.base THEN w
      ELSE AddAll([grown EXCEPT !.base = when], list)
-----------------------------------------------------------------------------
(***************************************************************************)
(* Searching for the first timer.                                          *)
(***************************************************************************)
\* find_first on one list: on level 0 whichever timer happens to be first,
\* the latest at worst.
FindFirst(l, S) ==
  LET T == {time[t] : t \in S}
  IN  IF l = 0 /\ T # {} THEN Max(T) ELSE MinTime(T)

\* The earliest time on a level, or on the far list.
LevelFirst(w, l) ==
  IF l = Levels
  THEN FindFirst(l, On(w, Far))
  ELSE MinTime({FindFirst(l, On(w, <<l, i>>)) : i \in 0 .. PER_LEVEL - 1})

\* The first level that was not allocated: loops over the levels stop there.
Top(w) == Min({l \in 0 .. Levels : l \notin w.level})

\* level_may_beat; w.first is what was found so far.
MayBeat(w, l) == w.first = Never \/ w.firsts[l] < w.first

\* The body of brute_force_first's loop, and first_for_level.
Search(w, l) ==
  LET f == LevelFirst(w, l)
  IN  IF MayBeat(w, l)
      THEN [w EXCEPT !.firsts[l] = f, !.first = Min({@, f})]
      ELSE w

\* brute_force_first: the levels in order, then the far list.
BruteForceFirst(w) ==
  LET after[n \in 0 .. Top(w)] ==
        IF n = 0 THEN [w EXCEPT !.first = Never] ELSE Search(after[n - 1], n - 1)
  IN  Search(after[Top(w)], Levels)

\* Mutant: the buckets are searched from the beginning.
AheadWrapped(w) == {i \in 0 .. PER_LEVEL - 1 : On(w, <<0, i>>) # {}}

\* The rest of the buckets of level 0 that have timers.
Ahead(w) == {i \in w.base % PER_LEVEL .. PER_LEVEL - 1 : On(w, <<0, i>>) # {}}

\* Mutant: first is left as it is when no bucket ahead has a timer.
UpdateFirstStale(w) ==
  IF 0 \in w.level /\ Ahead(w) # {}
  THEN [w EXCEPT !.first = FindFirst(0, On(w, <<0, Min(Ahead(w))>>))]
  ELSE w

\* get_first and update_first.
UpdateFirst(w) ==
  IF 0 \in w.level /\ Ahead(w) # {}
  THEN [w EXCEPT !.first = FindFirst(0, On(w, <<0, Min(Ahead(w))>>))]
  ELSE BruteForceFirst(w)
-----------------------------------------------------------------------------
Idle == now = NULL

\* Mutant: a timer added in the past is due in the next grain.
NotBeforeNext(when) == IF when < timers.base THEN timers.base + 1 ELSE when

\* "Added in the past?  Treat it as imminent."
NotBefore(when) == IF when < timers.base THEN timers.base ELSE when

\* timer_addmono, and timer_addrel with the clock added.
TimerAdd(t, when) ==
  /\ Idle /\ timers.where[t] = Nowhere
  /\ time' = [time EXCEPT ![t] = NotBefore(when)]
  /\ timers' = AddRaw([timers EXCEPT !.first = Min({@, time'[t]})], time', t)
  /\ ret' = Void
  /\ UNCHANGED <<clock, now>>

TimerDel(t) ==
  /\ Idle /\ timers.where[t] # Nowhere
  /\ timers' = [timers EXCEPT !.where[t] = Nowhere]
  /\ time' = [time EXCEPT ![t] = 0]
  /\ ret' = Void
  /\ UNCHANGED <<clock, now>>

TimerEarliest ==
  /\ Idle
  /\ timers' = UpdateFirst(timers)
  /\ ret' = <<"earliest", NULL, IF timers'.first = Never THEN NULL ELSE timers'.first>>
  /\ UNCHANGED <<time, clock, now>>

\* timers_expire is called; the time it is given may have gone backwards.
\* There is nothing to do before base, nor without timers and levels.
ExpireCall(when) ==
  /\ Idle
  /\ when >= timers.base
  /\ 0 \in timers.level \/ On(timers, Far) # {}
  /\ timers' = IF 0 \in timers.level THEN timers ELSE AddLevel(timers, 0)
  /\ now' = when
  /\ UNCHANGED <<time, clock, ret>>

\* timers_expire(when) returns t.
Return(when, t) ==
  /\ now' = NULL
  /\ ret' = <<"expire", when, t>>
  /\ clock' = Max({clock, when})

ExpireNothing(when) ==
  /\ Idle
  /\ when < timers.base \/ (0 \notin timers.level /\ On(timers, Far) = {})
  /\ Return(when, NULL)
  /\ UNCHANGED <<timers, time>>

\* The loop of timers_expire: nothing is due.
ExpireNone ==
  /\ ~Idle /\ timers.first > now
  /\ timers' = FastForward(timers, now)
  /\ Return(now, NULL)
  /\ UNCHANGED time

\* The timers in the bucket that base points to.
Current(w) == On(w, <<0, w.base % PER_LEVEL>>)

ExpireOne ==
  /\ ~Idle /\ timers.first <= now
  /\ LET w == FastForward(timers, timers.first)
     IN  \E t \in Current(w) :
           /\ timers' = [w EXCEPT !.where[t] = Nowhere]
           /\ time' = [time EXCEPT ![t] = 0]
           /\ Return(now, t)

\* "This *may* be NULL, if we deleted the first timer": look again.
ExpireRetry ==
  /\ ~Idle /\ timers.first <= now
  /\ LET w == FastForward(timers, timers.first)
     IN  /\ Current(w) = {}
         /\ timers' = UpdateFirst(w)
  /\ IF timers'.first = Never THEN Return(now, NULL) ELSE UNCHANGED <<clock, now, ret>>
  /\ UNCHANGED time

Next ==
  \/ \E t \in Timer, when \in Time : TimerAdd(t, when)
  \/ \E t \in Timer : TimerDel(t)
  \/ \E when \in Time : ExpireCall(when) \/ ExpireNothing(when)
  \/ TimerEarliest \/ ExpireNone \/ ExpireOne \/ ExpireRetry

Spec == Init /\ [][Next]_vars
-----------------------------------------------------------------------------
\* timers_check: each timer is in the one bucket of its level that base makes
\* cover its time, and none is earlier than the watermark of its list, nor
\* than first.  On levels above 0 the current bucket stands for the next turn
\* of the wheel.
TimersCheck ==
  LET w == timers
      top == Top(w)
  IN  \A t \in Timer :
        LET p == w.where[t]
            l == p[1]
        IN  /\ p # Nowhere => time[t] >= w.first /\ time[t] >= w.firsts[l]
            /\ p = Far => time[t] >= (w.base \div Span(top)) * Span(top) + Span(top) - 1
            /\ p \notin {Far, Nowhere} =>
                 /\ l < top
                 /\ IF l = 0
                    THEN /\ time[t] \in w.base .. w.base + PER_LEVEL - 1
                         /\ time[t] % PER_LEVEL = p[2]
                    ELSE /\ (time[t] \div Span(l)) - (w.base \div Span(l)) \in 1 .. PER_LEVEL
                         /\ (time[t] \div Span(l)) % PER_LEVEL = p[2]

Abstract == INSTANCE TimerSet WITH
  due <- [t \in Timer |-> IF timers.where[t] = Nowhere THEN NULL ELSE time[t]]

\* The wheel is a set of timers: timer_earliest returns the least time, and
\* timers_expire returns the due timers, the earliest first, and NULL only if
\* none is due, whatever was added in the past, deleted, cascaded or left on
\* the far list.
ImplementsTimerSet == Abstract!Spec

\* The loop of timers_expire ends, though deleted timers make it look again:
\* each of its turns leaves a later time to look at, and none is past now.
RetryAdvances ==
  [][now # NULL /\ now' # NULL => timers'.first > timers.first]_vars
=============================================================================
