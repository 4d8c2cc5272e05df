--------------------------- MODULE MCPyReferences ---------------------------
(***************************************************************************)
(* Model checking of PyReferences.                                          *)
(***************************************************************************)
EXTENDS PyReferences
=============================================================================
