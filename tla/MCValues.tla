------------------------------ MODULE MCValues ------------------------------
(***************************************************************************)
(* Model checking of Values.                                                *)
(***************************************************************************)
EXTENDS Values, TLC

\* Variables are interchangeable, and so are addresses.
Symmetry == Permutations(Vars) \cup Permutations(Cells)
=============================================================================
