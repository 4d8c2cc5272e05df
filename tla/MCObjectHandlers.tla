-------------------------- MODULE MCObjectHandlers --------------------------
(***************************************************************************)
(* Model checking of ObjectHandlers.                                        *)
(***************************************************************************)
EXTENDS ObjectHandlers

\* Every choice of magic methods for properties, with all of the rest or none.
MCClasses ==
    {magic \cup rest : magic \in SUBSET {"__get", "__set", "__isset", "__unset"},
                       rest \in {{}, {"ArrayAccess", "Countable", "Traversable", "Serializable",
                                      "__to", "__compare", "__call", "__invoke"}}}
=============================================================================
