---------------------------- MODULE MCVirtualDelay ----------------------------
(***************************************************************************)
(* Values for model checking VirtualDelay.                                 *)
(***************************************************************************)
EXTENDS VirtualDelay, TLC

CONSTANTS t1, t2, t3, l1, l2, i1, i2

\* Entries of the static_map are alike.
Symmetry == Permutations(Slot)
=============================================================================
