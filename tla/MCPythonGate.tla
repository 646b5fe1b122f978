----------------------------- MODULE MCPythonGate -----------------------------
(***************************************************************************)
(* Values for model checking PythonGate.                                   *)
(***************************************************************************)
EXTENDS PythonGate

CONSTANTS h1, h2
=============================================================================
