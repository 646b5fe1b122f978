--------------------------- MODULE MCRequestCredit ---------------------------
(***************************************************************************)
(* Values for model checking RequestCredit.                                *)
(***************************************************************************)
EXTENDS RequestCredit, TLC

CONSTANTS s1, s2, s3, g1, g2

Symmetry == Permutations(Source) \cup Permutations(Cgroup)
=============================================================================
