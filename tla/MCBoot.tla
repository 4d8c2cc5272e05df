------------------------------- MODULE MCBoot -------------------------------
(***************************************************************************)
(* Model checking of Boot.                                                  *)
(***************************************************************************)
EXTENDS Boot
=============================================================================
