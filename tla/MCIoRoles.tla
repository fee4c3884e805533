------------------------------ MODULE MCIoRoles ------------------------------
(***************************************************************************)
(* Small instances of IoRoles: which connection does what, and which       *)
(* descriptors always have data.                                           *)
(***************************************************************************)
EXTENDS IoRoles, TLC

CONSTANTS c1, c2, c3

TwoReady == {<<c1, IO_IN>>, <<c2, IO_IN>>}

\* Two busy readers next to a connection that re-arms io_always for ever.
TickerRoles == (c1 :> "reader") @@ (c2 :> "breaker") @@ (c3 :> "ticker")

\* A busy reader that wakes two waiters.
WakerRoles == (c1 :> "waker") @@ (c2 :> "waiter") @@ (c3 :> "waiter")

TickerOrWaker == {TickerRoles, WakerRoles}
=============================================================================
