------------------------------- MODULE CArray -------------------------------
(***************************************************************************)
(* The unordered C arrays of ccan/io/poll.c (fds, pollfds, always):        *)
(* elements are appended at the end, and an element is deleted by moving   *)
(* the last one over it.  Index n of C is index n + 1 of the sequence.     *)
(***************************************************************************)
EXTENDS Naturals, Sequences

\* s with its i-th element deleted: the last one is moved into the hole.
SwapRemove(s, i) ==
  [k \in 1 .. Len(s) - 1 |-> IF k = i THEN s[Len(s)] ELSE s[k]]

\* The index of x, an element of s (find_always).
IndexOf(s, x) == CHOOSE k \in 1 .. Len(s) : s[k] = x
=============================================================================
