---------------------------- MODULE MCCozProfiler ----------------------------
(***************************************************************************)
(* Values for model checking CozProfiler.                                  *)
(***************************************************************************)
EXTENDS CozProfiler

CONSTANTS t1, t2, t3, p1, e
=============================================================================
