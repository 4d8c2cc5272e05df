--------------------------- MODULE MCExtensionLife ---------------------------
(***************************************************************************)
(* Model checking of ExtensionLife.                                         *)
(***************************************************************************)
EXTENDS ExtensionLife
=============================================================================
