---------------------------- MODULE HandlerCalls ----------------------------
(***************************************************************************)
(* What a caller may rely on when it asks the provider to run a handler     *)
(* that acts at most once in Deep: each attempt is performed at most once,  *)
(* none unasked, a report is final, and an attempt that was answered is not *)
(* performed afterwards.  An answer does not say that it was performed (the *)
(* handler may have thrown before), and nothing stops an attempt that was   *)
(* reported as failed from being performed all the same, before or after    *)
(* the report.                                                              *)
(***************************************************************************)
EXTENDS Naturals

CONSTANT Attempts

VARIABLES told,      \* what the caller knows: "none", "asked", "answered", "failed"
          performed  \* how often the attempt has acted in Deep

Init ==
    /\ told = [a \in Attempts |-> "none"]
    /\ performed = [a \in Attempts |-> 0]

\* A call that no worker can take is refused at once.
Ask(a) ==
    /\ told[a] = "none"
    /\ told' = [told EXCEPT ![a] = "asked"] \/ told' = [told EXCEPT ![a] = "failed"]
    /\ UNCHANGED performed

Perform(a) ==
    /\ told[a] \in {"asked", "failed"}
    /\ performed[a] = 0
    /\ performed' = [performed EXCEPT ![a] = 1]
    /\ UNCHANGED told

Answer(a) ==
    /\ told[a] = "asked"
    /\ told' = [told EXCEPT ![a] = "answered"]
    /\ UNCHANGED performed

Fail(a) ==
    /\ told[a] = "asked"
    /\ told' = [told EXCEPT ![a] = "failed"]
    /\ UNCHANGED performed

Next == \E a \in Attempts : Ask(a) \/ Perform(a) \/ Answer(a) \/ Fail(a)

Spec == Init /\ [][Next]_<<told, performed>>
=============================================================================
