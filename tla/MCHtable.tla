------------------------------ MODULE MCHtable ------------------------------
(***************************************************************************)
(* Small instances of Htable: words of 6 bits, pointers to an array that   *)
(* begins at 2^5, and the hash of each.                                    *)
(***************************************************************************)
EXTENDS HtableInv, TLC

\* Three pointers, one of which differs from the first in the perfect bit.
Bytes == {{5}, {5, 1}, {5, 4}}

\* Hashes that clash, wrap round from the buckets 2 and 3, and two of which
\* leave nothing of the hash in the bucket.
Clashing ==
  {({5} :> {5, 1}) @@ ({5, 1} :> {}) @@ ({5, 4} :> {}),
   ({5} :> {5, 1, 0}) @@ ({5, 1} :> {5, 1}) @@ ({5, 4} :> {})}

\* An array of larger objects, whose hashes are the keys 2, 3 and 10.
Objects == {{5}, {5, 3}, {5, 4}}
Keys == {({5} :> {1}) @@ ({5, 3} :> {0, 1}) @@ ({5, 4} :> {1, 3})}
=============================================================================
