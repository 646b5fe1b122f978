-------------------------------- MODULE MCGate --------------------------------
(***************************************************************************)
(* Values for model checking Gate.                                         *)
(***************************************************************************)
EXTENDS Gate

CONSTANTS h1, h2
=============================================================================
