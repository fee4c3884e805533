----------------------------- MODULE HtableBag -----------------------------
(***************************************************************************)
(* What htable promises: a bag of pointers, whatever their hashes.         *)
(***************************************************************************)
EXTENDS Integers

CONSTANT Ptr

VARIABLES
  bag,  \* how often each pointer is in the table
  ret   \* the last call, its argument and what it returned

vars == <<bag, ret>>

Return(op, p, r) == ret' = [op |-> op, ptr |-> p, res |-> r]

Init ==
  /\ bag = [p \in Ptr |-> 0]
  /\ ret.op = "init"

Add(p) ==
  /\ bag' = [bag EXCEPT ![p] = @ + 1]
  /\ Return("add", p, "true")

\* Only for want of memory.
AddFails(p) ==
  /\ Return("add", p, "false")
  /\ UNCHANGED bag

Del(p) ==
  /\ bag[p] > 0
  /\ bag' = [bag EXCEPT ![p] = @ - 1]
  /\ Return("del", p, "true")

DelFails(p) ==
  /\ bag[p] = 0
  /\ Return("del", p, "false")
  /\ UNCHANGED bag

Clear ==
  /\ bag' = [p \in Ptr |-> 0]
  /\ ret'.op = "clear"

Next ==
  \/ \E p \in Ptr : Add(p) \/ AddFails(p) \/ Del(p) \/ DelFails(p)
  \/ Clear

Spec == Init /\ [][Next]_vars
=============================================================================
