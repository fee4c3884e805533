--------------------------- MODULE TimerWheelInv ---------------------------
(***************************************************************************)
(* The inductive invariant of TimerWheel.  It says more than timers_check  *)
(* of a far timer: it is in a later turn of the first level that is        *)
(* missing, which is what lets timer_fast_forward leave it alone until     *)
(* base crosses that level.                                                *)
(***************************************************************************)
EXTENDS TimerWheel

\* The levels are allocated from the bottom up.
Ladder(w) == Top(w) \in 0 .. Levels /\ w.level = 0 .. Top(w) - 1

\* Bucket i of level l is the one for a timer that is due at x.
InBucket(w, x, l, i) ==
  /\ l \in w.level
  /\ i = (x \div Span(l)) % PER_LEVEL
  /\ l = 0 => x \in w.base .. w.base + PER_LEVEL - 1
  /\ l # 0 => (x \div Span(l)) - (w.base \div Span(l)) \in 1 .. PER_LEVEL

\* A timer that is due at x may be on the far list.
Beyond(w, x) ==
  /\ w.base <= x
  /\ Top(w) # 0 => w.base \div Span(Top(w)) < x \div Span(Top(w))

Right(w, x, p) ==
  /\ p = Far => Beyond(w, x)
  /\ p # Far => InBucket(w, x, p[1], p[2])

\* Every timer is where the ones due at its time belong.
Sorted(w) == \A t \in Timer : w.where[t] # Nowhere => Right(w, time[t], w.where[t])

\* No timer is earlier than first, or the watermark of its list.
Marked(w) ==
  \A t \in Timer : w.where[t] # Nowhere =>
    w.first <= time[t] /\ w.firsts[w.where[t][1]] <= time[t]

\* base never passes a timer, nor the time that is known outside.
InTime ==
  /\ timers.base <= timers.first
  /\ now = NULL => timers.base <= clock
  /\ now # NULL => timers.base <= now /\ 0 \in timers.level

\* What the calls rely on between them: base has passed no timer, each is in
\* the bucket where timers_expire will look for it, and the cached minima are
\* lower bounds.
IInv == TypeOK /\ Ladder(timers) /\ Sorted(timers) /\ Marked(timers) /\ InTime
=============================================================================
