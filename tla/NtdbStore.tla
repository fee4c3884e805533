----------------------------- MODULE NtdbStore -----------------------------
(***************************************************************************)
(* What ntdb transactions promise: a store of pages that changes by one    *)
(* transaction at a time and as a whole, and that a machine crash takes    *)
(* back to a state it had, never to a mixture.                             *)
(***************************************************************************)
CONSTANTS
  Page,   \* the pages of the database
  Values  \* what a page can hold

VARIABLES
  val,   \* the database as the next reader will see it
  may,   \* the databases that a machine crash can leave
  pend   \* the pages the open transaction wrote, as it wrote them

vars == <<val, may, pend>>

\* Nothing was written.
Nothing == [p \in {} |-> 0]

Init ==
  /\ val \in [Page -> Values]
  /\ may = {val}
  /\ pend = Nothing

Write(p, v) ==
  /\ pend' = [q \in DOMAIN pend \cup {p} |-> IF q = p THEN v ELSE pend[q]]
  /\ UNCHANGED <<val, may>>

\* All of the transaction takes effect; a crash may still undo all of it.
Commit ==
  /\ val' = [p \in Page |-> IF p \in DOMAIN pend THEN pend[p] ELSE val[p]]
  /\ may' \in {{val'}, {val, val'}}
  /\ UNCHANGED pend

\* From here on no crash can undo what was committed.
Flush ==
  /\ may' = {val}
  /\ UNCHANGED <<val, pend>>

\* The transaction is over: committed and returned, cancelled, or its
\* process died.
End ==
  /\ pend' = Nothing
  /\ UNCHANGED <<val, may>>

\* Every process dies with the machine.
Crash ==
  /\ val' \in may
  /\ may' = {val'}
  /\ pend' = Nothing

Next ==
  \/ \E p \in Page, v \in Values : Write(p, v)
  \/ Commit \/ Flush \/ End \/ Crash

Spec == Init /\ [][Next]_vars
=============================================================================
