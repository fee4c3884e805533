------------------------------ MODULE MCIoLoop ------------------------------
(***************************************************************************)
(* Small instances of IoLoop.                                              *)
(***************************************************************************)
EXTENDS IoLoopInv, TLC

Symmetry == Permutations(Conn)
=============================================================================
