---------------------------- MODULE ExtensionLife ----------------------------
(***************************************************************************)
(* The life of the extension in one PHP process: get_module of              *)
(* src/deep_client_php_wrapper.cpp and src/zend/extensionimpl.cpp, called   *)
(* by the engine for an extension= line (src/Dockerfile:60) or for dl()     *)
(* (src/index.php:6), which loads it for one request.  The extension object *)
(* is a static of the image; whether dlclose unmaps the image, and the      *)
(* object with it, is up to the linker and to ZEND_DONT_UNLOAD_MODULES.     *)
(***************************************************************************)
EXTENDS Naturals, FiniteSets

CONSTANTS MaxStarts,   \* bound: starts of the engine in one process
          MaxRequests, \* bound: requests
          MaxOthers    \* bound: other modules that are loaded

ASSUME LifeAssumption == {MaxStarts, MaxRequests, MaxOthers} \subseteq Nat

VARIABLES
    phase,    \* the engine: "off", "starting", "idle" or "request"
    ini,      \* is there an extension= line?
    unmaps,   \* does dlclose unmap the image?
    ext,      \* the static object: does it exist, is it locked, classes added to it
    module,   \* the entry in module_registry: its number (0: none), type, started
    others,   \* other modules in module_registry, the temporary ones of them
    number2extension, \* module numbers the extension is known under
    table,    \* its classes in the engine's class table: "wrapper", "functor"
    registered, \* which of the classes added to ext "wrapper" is, 0 if none
    functor,  \* is Functor::_entry set?
    found,    \* did every callback find the extension? (history)
    starts,
    requests

engineVars == <<phase, ini, unmaps, ext, module, others, number2extension, table, registered,
                functor, found, starts, requests>>
given == <<ini, unmaps>>

NoObject == [made |-> FALSE, locked |-> FALSE, classes |-> 0]
NoModule == [number |-> 0, type |-> "none", started |-> FALSE]
Loaded == module.number # 0

EngineInit ==
    /\ phase = "off"
    /\ ini \in BOOLEAN
    /\ unmaps \in BOOLEAN
    /\ ext = NoObject
    /\ module = NoModule
    /\ others = [lasting |-> 0, temporary |-> 0]
    /\ number2extension = {}
    /\ table = {}
    /\ registered = 0
    /\ functor = FALSE
    /\ found = TRUE
    /\ starts = 0
    /\ requests = 0

-----------------------------------------------------------------------------
(***************************************************************************)
(* What the callbacks do.                                                   *)
(***************************************************************************)

\* get_module: Namespace::add skips a locked extension.
get_module == [made |-> TRUE, locked |-> ext.locked,
               classes |-> IF ext.locked THEN ext.classes ELSE ext.classes + 1]

\* zend_next_free_module
NextNumber == others.lasting + others.temporary + (IF Loaded THEN 1 ELSE 0) + 1

\* find: by number, else by name over the whole registry.
Known(numbers, m, e) ==
    IF m.number \in numbers \/ ~e.made THEN numbers ELSE numbers \cup {m.number}
Finds(numbers, m, e) == m.number \in Known(numbers, m, e)

\* Mutant of initialize: the object stays open for more elements.
initializeUnlocked(e) ==
    /\ ext' = e
    /\ table' = {"wrapper", "functor"}
    /\ registered' = e.classes
    /\ functor' = TRUE

\* initialize: every class that was ever added is registered, in the order they
\* were added and all under one name, so that each replaces the one before; and
\* the functor, unless it is known.
initialize(e) ==
    /\ ext' = [e EXCEPT !.locked = TRUE]
    /\ registered' = e.classes
    /\ table' = {"wrapper"} \cup (IF functor THEN table ELSE {"functor"})
    /\ functor' = TRUE

\* Mutant of shutdown: Functor::shutdown is not called.
shutdownKeepsFunctor == ext' = [ext EXCEPT !.locked = FALSE] /\ functor' = functor

\* shutdown
shutdown == ext' = [ext EXCEPT !.locked = FALSE] /\ functor' = FALSE

-----------------------------------------------------------------------------
(***************************************************************************)
(* The engine.                                                              *)
(***************************************************************************)

\* Extensions of php.ini are registered first and started after that.
EngineStarts ==
    /\ phase = "off"
    /\ starts < MaxStarts
    /\ starts' = starts + 1
    /\ phase' = "starting"
    /\ IF ini
       THEN /\ ext' = get_module
            /\ module' = [number |-> NextNumber, type |-> "persistent", started |-> FALSE]
       ELSE UNCHANGED <<ext, module>>
    /\ UNCHANGED <<given, others, number2extension, table, registered, functor, found, requests>>

\* zend_startup_module: processStartup
Starts(e, m) ==
    /\ number2extension' = Known(number2extension, m, e)
    /\ found' = (found /\ Finds(number2extension, m, e))
    /\ initialize(e)
    /\ module' = [m EXCEPT !.started = TRUE]

StartModules ==
    /\ phase = "starting"
    /\ phase' = "idle"
    /\ IF Loaded
       THEN Starts(ext, module)
       ELSE UNCHANGED <<ext, module, number2extension, table, registered, functor, found>>
    /\ UNCHANGED <<given, others, starts, requests>>

\* processRequest and processIdle look the extension up and have nothing to run.
LooksUp ==
    IF Loaded
    THEN /\ number2extension' = Known(number2extension, module, ext)
         /\ found' = (found /\ Finds(number2extension, module, ext))
    ELSE UNCHANGED <<number2extension, found>>

RequestStarts ==
    /\ phase = "idle"
    /\ requests < MaxRequests
    /\ requests' = requests + 1
    /\ phase' = "request"
    /\ LooksUp
    /\ UNCHANGED <<given, ext, module, others, table, registered, functor, starts>>

\* dl(): index.php calls it when the extension is not loaded, handler code may
\* at any time; an extension that is loaded is refused after get_module.
Dl ==
    /\ phase = "request"
    /\ IF Loaded
       THEN /\ ext' = get_module
            /\ UNCHANGED <<module, number2extension, table, registered, functor, found>>
       ELSE Starts(get_module, [number |-> NextNumber, type |-> "temporary", started |-> FALSE])
    /\ UNCHANGED <<given, phase, others, starts, requests>>

\* Some other module, for good or for a request
OtherLoads ==
    /\ others.lasting + others.temporary < MaxOthers
    /\ \/ /\ phase = "starting"
          /\ others' = [others EXCEPT !.lasting = @ + 1]
       \/ /\ phase = "request"
          /\ others' = [others EXCEPT !.temporary = @ + 1]
    /\ UNCHANGED <<given, phase, ext, module, number2extension, table, registered, functor, found,
                   starts, requests>>

\* module_destructor: classes of a temporary module are removed first; those of a
\* persistent one went with the class table.  processShutdown, then dlclose.
Destructs ==
    /\ found' = (found /\ Finds(number2extension, module, ext))
    /\ number2extension' = Known(number2extension, module, ext) \ {module.number}
    /\ table' = {}
    /\ registered' = 0
    /\ module' = NoModule
    /\ IF unmaps
       THEN ext' = NoObject /\ functor' = FALSE
       ELSE shutdown

RequestEnds ==
    /\ phase = "request"
    /\ phase' = "idle"
    /\ others' = [others EXCEPT !.temporary = 0]
    /\ IF module.type = "temporary"
       THEN Destructs /\ UNCHANGED <<starts, requests>>
       ELSE LooksUp /\ UNCHANGED <<ext, module, table, registered, functor, starts, requests>>
    /\ UNCHANGED given

EngineStops ==
    /\ phase = "idle"
    /\ phase' = "off"
    /\ others' = [lasting |-> 0, temporary |-> 0]
    /\ IF Loaded
       THEN Destructs
       ELSE UNCHANGED <<ext, module, number2extension, table, registered, functor, found>>
    /\ UNCHANGED <<given, starts, requests>>

EngineNext ==
    \/ EngineStarts \/ StartModules \/ RequestStarts \/ Dl \/ OtherLoads
    \/ RequestEnds \/ EngineStops

EngineSpec == EngineInit /\ [][EngineNext]_engineVars
-----------------------------------------------------------------------------
(***************************************************************************)
(* Properties.                                                              *)
(***************************************************************************)

\* However often the extension came and went, under whatever number: once it is
\* started its classes are in the class table, Functor::_entry points to one of
\* them, and after it is gone neither the table nor the entry refers to it.
ClassesFollowModule ==
    /\ module.started <=> table = {"wrapper", "functor"}
    /\ functor <=> "functor" \in table
    /\ number2extension \subseteq {module.number}
    /\ found

\* The class that PHP code sees is the one that get_module has added last, also
\* when classes of earlier loads are still in the object and are registered with
\* it under the same name; a get_module while the extension is started, by a dl()
\* that is then refused, adds none that would be in the object and not be seen.
\* (The classes of earlier loads do pile up: shutdown takes the lock away that
\* extension.cpp:97 says is there for the next get_module.)
NewestClassIsSeen == registered = IF module.started THEN ext.classes ELSE 0
=============================================================================
