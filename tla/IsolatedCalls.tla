---------------------------- MODULE IsolatedCalls ----------------------------
(***************************************************************************)
(* What the isolation provider promises the system that calls it, with no   *)
(* wrapper, interpreter or cache in sight: handlers are served one after    *)
(* the other by a worker, and whatever a handler does in Deep is done with  *)
(* the JWT of the request that brought it.  A request without a JWT does    *)
(* nothing there.                                                           *)
(***************************************************************************)
CONSTANTS Tokens, Empty, None

VARIABLES serving,  \* the JWT of the request in service, or None
          acted     \* the JWT the last request to Deep was made with, or None

Init == serving = None /\ acted = None

Begin(t) ==
    /\ serving = None
    /\ serving' = t
    /\ acted' = None

Act ==
    /\ serving \notin {None, Empty}
    /\ acted' = serving
    /\ UNCHANGED serving

Rest ==
    /\ acted' = None
    /\ UNCHANGED serving

End ==
    /\ serving' = None
    /\ acted' = None

Next == (\E t \in Tokens : Begin(t)) \/ Act \/ Rest \/ End

Spec == Init /\ [][Next]_<<serving, acted>>
=============================================================================
