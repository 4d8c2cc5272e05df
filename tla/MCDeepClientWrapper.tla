------------------------ MODULE MCDeepClientWrapper ------------------------
(***************************************************************************)
(* Model checking of DeepClientWrapper.                                     *)
(***************************************************************************)
EXTENDS DeepClientWrapper, TLC

\* The slots for objects are interchangeable.
ObjectSymmetry == Permutations(Objects)
=============================================================================
