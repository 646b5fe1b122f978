---------------------------- MODULE MCRequestAware ----------------------------
(***************************************************************************)
(* Values for model checking RequestAware.                                 *)
(***************************************************************************)
EXTENDS RequestAware
=============================================================================
