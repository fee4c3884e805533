------------------------------- MODULE MCNtdb -------------------------------
(***************************************************************************)
(* Model checking of Ntdb: the processes are interchangeable, and each     *)
(* behaviour has failures of one kind.                                     *)
(***************************************************************************)
EXTENDS Ntdb, TLC

ProcSymmetry == Permutations(Proc)

OneKind ==
  {[death |-> 1, crash |-> 0, io |-> 0, start |-> 2, nest |-> 1],
   [death |-> 0, crash |-> 1, io |-> 0, start |-> 3, nest |-> 0],
   [death |-> 0, crash |-> 2, io |-> 0, start |-> 2, nest |-> 0],
   [death |-> 0, crash |-> 0, io |-> 1, start |-> 2, nest |-> 1]}

\* A single failure, in a single transaction.
OneError == {[death |-> 0, crash |-> 0, io |-> 1, start |-> 1, nest |-> 0]}

\* Two failures of a kind: what the documented behaviour does not survive.
TwoErrors == {[death |-> 0, crash |-> 0, io |-> 2, start |-> 1, nest |-> 0]}

TwoDeaths == {[death |-> 2, crash |-> 0, io |-> 0, start |-> 2, nest |-> 0]}
=============================================================================
