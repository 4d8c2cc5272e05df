------------------------------- MODULE MCPool -------------------------------
(***************************************************************************)
(* Model checking of Pool with an outer call whose effect triggers an inner *)
(* one.                                                                     *)
(***************************************************************************)
EXTENDS Pool

CONSTANTS outer, inner

MCInner == [c \in Calls |-> IF c = outer THEN inner ELSE None]
=============================================================================
