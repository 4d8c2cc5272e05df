----------------------------- MODULE StartProofs -----------------------------
(***************************************************************************)
(* Proofs about how the parts come up and go: the start script, for any set *)
(* of ports and any number of starts (Boot), and the extension inside one   *)
(* PHP process, for any number of starts, requests and other modules        *)
(* (ExtensionLife).                                                         *)
(***************************************************************************)
EXTENDS Boot, ExtensionLife, TLAPS

-----------------------------------------------------------------------------
(***************************************************************************)
(* The script: the inductive invariant, what its lines have done when one   *)
(* of them is reached.                                                      *)
(***************************************************************************)

\* Whatever an interrupted run has left on the disk names this port or none, and
\* the mv of a script finds what its own awk has written.
FilesAreOurs ==
    /\ conf \in {"template", Configured}
    /\ tmp \in {None, "broken", Configured}
    /\ \A s \in Scripts : pc[s] = "write" => out[s] = "tmp" /\ tmp = "broken"
    /\ \A s \in Scripts : pc[s] = "mv" => tmp = Configured

\* A second script runs only under an entry script that has come to php-fpm.
SecondUnderEntry == pc["again"] # "off" => pc["entry"] \in {"fpm", "sleep"}

\* What is done when the entry script has passed a line
EntryHasDone ==
    /\ Up => PORT["entry"] = Configured
    /\ pc["entry"] \in {"cp", "nginx", "php-fpm", "fpm", "sleep"} => conf = Configured
    /\ pc["entry"] \in {"php-fpm", "fpm", "sleep"} =>
           nginx = Configured \/ (failed /\ nginx = None)
    /\ nginx \in {None, Configured}

\* In any case: who has come to nginx has copied .env, and who has a php-fpm
\* waits in it.
Copied ==
    /\ \A s \in Scripts : pc[s] \in {"nginx", "php-fpm", "fpm", "sleep"} => dotenv
    /\ \A s \in Scripts : fpm[s] # "none" => pc[s] = "fpm"

BootInv ==
    /\ TypeOK
    /\ Copied
    /\ ~raced => FilesAreOurs /\ SecondUnderEntry /\ EntryHasDone

\* The port is a port, and neither a text nor nothing.
LEMMA ConfiguredType ==
    ASSUME TypeOK
    PROVE  /\ Configured \in Ports
           /\ Configured \notin {"template", "broken", None}
           /\ None \notin {"template", "broken"}
BY PortsAssumption DEF TypeOK, Configured

\* A container that was never started satisfies the invariant.
LEMMA BootInit == Init => BootInv
<1> SUFFICES ASSUME Init PROVE BootInv
    OBVIOUS
<1>1. TypeOK
    <2>1. boots \in 0..MaxBoots
        BY BootsAssumption DEF Init
    <2>2. QED
        BY <2>1, PortsAssumption DEF Init, TypeOK
<1>2. FilesAreOurs /\ Copied
    BY DEF Init, FilesAreOurs, Copied, Scripts
<1>3. SecondUnderEntry /\ EntryHasDone
    BY DEF Init, SecondUnderEntry, EntryHasDone, Scripts, Up
<1>4. QED
    BY <1>1, <1>2, <1>3 DEF BootInv

\* The end of the entry script, or of the container, leaves only the files.
LEMMA StopKeeps ==
    ASSUME BootInv, Stop, UNCHANGED <<env, boots, PORT, files, history>>
    PROVE  BootInv'
<1>1. TypeOK'
    BY DEF Stop, BootInv, TypeOK, Scripts, files, history
<1>2. Copied'
    BY DEF Stop, Copied, Scripts
<1>3. ~raced' => FilesAreOurs' /\ SecondUnderEntry' /\ EntryHasDone'
    BY DEF Stop, BootInv, FilesAreOurs, SecondUnderEntry, EntryHasDone, Scripts, Up,
           Configured, files, history
<1>4. QED
    BY <1>1, <1>2, <1>3 DEF BootInv

\* Every step keeps the types.
LEMMA BootTypeStep == ASSUME BootInv, [Next]_vars PROVE TypeOK'
<1> USE DEF BootInv, TypeOK, Scripts, files, history
<1>1. CASE Start
    <2>1. boots' \in 0..MaxBoots
        BY <1>1, BootsAssumption DEF Start
    <2>2. (IF env = Unset THEN DEFAULT_PORT ELSE env) \in Ports
        BY PortsAssumption
    <2>3. QED
        BY <1>1, <2>1, <2>2 DEF Start, Run
<1>2. ASSUME NEW p \in Ports \cup {Unset}, Again(p) PROVE TypeOK'
    BY <1>2, PortsAssumption DEF Again, Run
<1>3. ASSUME NEW s \in Scripts, ScriptStep(s) PROVE TypeOK'
    <2>1. CASE Kill(s)
        BY <1>3, <2>1 DEF Kill, Step
    <2>2. CASE Redirect(s)
        BY <1>3, <2>2 DEF Redirect, Step
    <2>3. CASE Awk(s)
        BY <1>3, <2>3 DEF Awk, Step, Written
    <2>4. CASE Mv(s)
        BY <1>3, <2>4 DEF Mv, Step, Renamed
    <2>5. CASE Cp(s)
        BY <1>3, <2>5 DEF Cp, Step
    <2>6. CASE Nginx(s)
        BY <1>3, <2>6 DEF Nginx, Step
    <2>7. CASE Fpm(s)
        BY <1>3, <2>7 DEF Fpm, Step
    <2>8. CASE FpmReturns(s)
        BY <1>3, <2>8 DEF FpmReturns, Step
    <2>9. CASE Sleep(s)
        BY <1>3, <2>9 DEF Sleep, Stop
    <2>10. QED
        BY <1>3, <2>1, <2>2, <2>3, <2>4, <2>5, <2>6, <2>7, <2>8, <2>9 DEF ScriptStep
<1>4. ASSUME NEW s \in Scripts, FpmListens(s) \/ FpmDies(s) PROVE TypeOK'
    BY <1>4 DEF FpmListens, FpmDies
<1>5. CASE Crash
    BY <1>5 DEF Crash, Stop
<1>6. CASE NginxDies
    BY <1>6 DEF NginxDies
<1>7. CASE UNCHANGED vars
    BY <1>7 DEF vars
<1>8. QED
    BY <1>1, <1>2, <1>3, <1>4, <1>5, <1>6, <1>7 DEF Next

\* Every step of a script keeps the invariant.
LEMMA ScriptStepKeeps ==
    ASSUME BootInv, NEW s \in Scripts, ScriptStep(s), TypeOK'
    PROVE  BootInv'
<1>a. TypeOK /\ Copied /\ (~raced => FilesAreOurs /\ SecondUnderEntry /\ EntryHasDone)
    BY DEF BootInv
<1>b. /\ Configured \in Ports
      /\ Configured \notin {"template", "broken", None}
      /\ None \notin {"template", "broken"}
    BY <1>a, ConfiguredType
<1>c. Configured' = Configured /\ s \in {"entry", "again"}
    BY DEF ScriptStep, Kill, Redirect, Awk, Mv, Cp, Nginx, Fpm, FpmReturns, Sleep, Configured,
           Scripts
<1>d. SUFFICES Copied' /\ (~raced' => FilesAreOurs' /\ SecondUnderEntry' /\ EntryHasDone')
    BY DEF BootInv
<1>1. CASE Kill(s)
    BY <1>a, <1>b, <1>c, <1>1
       DEF Kill, Step, TypeOK, Scripts, files, history, Copied, FilesAreOurs, SecondUnderEntry,
           EntryHasDone, Up
<1>2. CASE Redirect(s)
    BY <1>a, <1>b, <1>c, <1>2
       DEF Redirect, Step, TypeOK, Scripts, history, Copied, FilesAreOurs, SecondUnderEntry,
           EntryHasDone, Up
<1>3. CASE Awk(s)
    <2>1. /\ Step(s, "write", "mv")
          /\ UNCHANGED <<env, boots, PORT, dotenv, nginx, fpm, failed, raced>>
        BY <1>3 DEF Awk, history
    <2>2. pc'["entry"] = (IF s = "entry" THEN "mv" ELSE pc["entry"])
          /\ pc'["again"] = (IF s = "again" THEN "mv" ELSE pc["again"])
          /\ pc[s] = "write"
        BY <1>a, <1>c, <2>1 DEF Step, TypeOK, Scripts
    <2>3. Copied'
        BY <1>a, <1>c, <2>1, <2>2 DEF Copied, Scripts
    <2>4. ASSUME ~raced PROVE FilesAreOurs' /\ SecondUnderEntry' /\ EntryHasDone'
        <3>1. FilesAreOurs /\ SecondUnderEntry /\ EntryHasDone
            BY <1>a, <2>4
        <3>2. out[s] = "tmp" /\ tmp = "broken"
            BY <2>2, <3>1 DEF FilesAreOurs
        <3>3. (IF conf = "template" THEN PORT[s] ELSE conf) = Configured
            BY <1>b, <1>c, <2>2, <3>1 DEF FilesAreOurs, SecondUnderEntry, EntryHasDone, Up
        <3>4. tmp' = Configured /\ conf' = conf
            BY <1>3, <3>2, <3>3 DEF Awk, Written
        <3>5. FilesAreOurs'
            BY <1>c, <2>2, <3>1, <3>4 DEF FilesAreOurs, SecondUnderEntry, Scripts
        <3>6. SecondUnderEntry' /\ EntryHasDone'
            BY <1>b, <1>c, <2>1, <2>2, <3>1, <3>4 DEF SecondUnderEntry, EntryHasDone, Up
        <3>7. QED
            BY <3>5, <3>6
    <2>5. QED
        BY <2>1, <2>3, <2>4
<1>4. CASE Mv(s)
    BY <1>a, <1>b, <1>c, <1>4
       DEF Mv, Step, TypeOK, Scripts, history, Copied, FilesAreOurs, SecondUnderEntry,
           EntryHasDone, Up
<1>5. CASE Cp(s)
    BY <1>a, <1>b, <1>c, <1>5
       DEF Cp, Step, TypeOK, Scripts, history, Copied, FilesAreOurs, SecondUnderEntry,
           EntryHasDone, Up
<1>6. CASE Nginx(s)
    BY <1>a, <1>b, <1>c, <1>6
       DEF Nginx, Step, TypeOK, Scripts, files, Copied, FilesAreOurs, SecondUnderEntry,
           EntryHasDone, Up
<1>7. CASE Fpm(s)
    BY <1>a, <1>b, <1>c, <1>7
       DEF Fpm, Step, TypeOK, Scripts, files, history, Copied, FilesAreOurs, SecondUnderEntry,
           EntryHasDone, Up
<1>8. CASE FpmReturns(s)
    BY <1>a, <1>b, <1>c, <1>8
       DEF FpmReturns, Step, TypeOK, Scripts, files, history, Copied, FilesAreOurs,
           SecondUnderEntry, EntryHasDone, Up
<1>9. CASE Sleep(s)
    <2>1. CASE s = "entry"
        BY <1>9, <2>1, StopKeeps DEF Sleep, BootInv
    <2>2. CASE s = "again"
        BY <1>a, <1>b, <1>c, <1>9, <2>2
           DEF Sleep, TypeOK, Scripts, files, history, Copied, FilesAreOurs, SecondUnderEntry,
               EntryHasDone, Up
    <2>3. QED
        BY <1>c, <2>1, <2>2
<1>10. QED
    BY <1>1, <1>2, <1>3, <1>4, <1>5, <1>6, <1>7, <1>8, <1>9 DEF ScriptStep

\* Every step keeps the invariant.
LEMMA BootStep == BootInv /\ [Next]_vars => BootInv'
<1> SUFFICES ASSUME BootInv, [Next]_vars PROVE BootInv'
    OBVIOUS
<1>a. TypeOK /\ TypeOK' /\ Copied
      /\ (~raced => FilesAreOurs /\ SecondUnderEntry /\ EntryHasDone)
    BY BootTypeStep DEF BootInv
<1>b. Configured \in Ports
    BY <1>a, ConfiguredType
<1>1. CASE Start
    <2>1. PORT'["entry"] = Configured /\ Configured' = Configured
        BY <1>1, <1>a DEF Start, Run, Configured, TypeOK, Scripts
    <2>2. pc'["entry"] = "kill" /\ pc'["again"] = pc["again"] /\ pc["entry"] = "off"
        BY <1>1, <1>a DEF Start, Run, TypeOK, Scripts, Up
    <2>3. QED
        BY <1>1, <1>a, <2>1, <2>2
           DEF BootInv, Start, files, Scripts, Copied, FilesAreOurs, SecondUnderEntry,
               EntryHasDone, Up
<1>2. ASSUME NEW p \in Ports \cup {Unset}, Again(p) PROVE BootInv'
    <2>1. /\ pc'["entry"] = pc["entry"]
          /\ pc["again"] = "off" /\ pc'["again"] = "kill"
          /\ PORT'["entry"] = PORT["entry"] /\ Configured' = Configured
        BY <1>2, <1>a DEF Again, Run, TypeOK, Scripts, Configured
    <2>2. QED
        BY <1>2, <1>a, <2>1
           DEF BootInv, Again, files, Scripts, Copied, FilesAreOurs, SecondUnderEntry,
               EntryHasDone, Up
<1>3. ASSUME NEW s \in Scripts, ScriptStep(s) PROVE BootInv'
    BY <1>3, <1>a, ScriptStepKeeps
<1>4. ASSUME NEW s \in Scripts, FpmListens(s) \/ FpmDies(s) PROVE BootInv'
    <2>1. /\ UNCHANGED <<env, boots, pc, PORT, files, out, nginx, history>>
          /\ \A t \in Scripts : fpm'[t] # "none" => fpm[t] # "none"
        BY <1>4, <1>a DEF FpmListens, FpmDies, TypeOK
    <2>2. QED
        BY <1>a, <2>1
           DEF BootInv, files, history, Scripts, Copied, FilesAreOurs, SecondUnderEntry,
               EntryHasDone, Up, Configured
<1>5. CASE Crash
    BY <1>5, StopKeeps DEF Crash
<1>6. CASE NginxDies
    BY <1>6, <1>a
       DEF NginxDies, BootInv, files, Scripts, Copied, FilesAreOurs, SecondUnderEntry,
           EntryHasDone, Up, Configured
<1>7. CASE UNCHANGED vars
    BY <1>7, <1>a
       DEF vars, BootInv, Copied, FilesAreOurs, SecondUnderEntry, EntryHasDone, Up, Configured
<1>8. QED
    BY <1>1, <1>2, <1>3, <1>4, <1>5, <1>6, <1>7 DEF Next

\* The invariant holds, wherever the container is killed.
LEMMA BootInvariant == Spec => []BootInv
BY BootInit, BootStep, PTL DEF Spec

-----------------------------------------------------------------------------
(***************************************************************************)
(* Theorems.                                                                *)
(***************************************************************************)

\* The files and processes of the container keep their types, with crashes, a
\* second script at any line of the first, and failures of nginx and php-fpm.
THEOREM BootTypes == Spec => []TypeOK
<1>1. BootInv => TypeOK
    BY DEF BootInv
<1>2. QED
    BY <1>1, BootInvariant, PTL

\* A php-fpm that can be reached has the .env beside index.php; and nginx in front
\* of it on the container's port unless nginx has failed, wherever earlier starts
\* were cut off, if no second script was run before the first came to php-fpm.
THEOREM BootServesAsConfigured == Spec => []ServesAsConfigured
<1>1. BootInv => ServesAsConfigured
    <2> SUFFICES ASSUME BootInv, Listening PROVE
                     dotenv /\ (~raced => nginx = Configured \/ (failed /\ nginx = None))
        BY DEF ServesAsConfigured
    <2>1. PICK s \in Scripts : fpm[s] = "up"
        BY DEF Listening
    <2>2. dotenv
        BY <2>1 DEF BootInv, Copied
    <2>3. ASSUME ~raced PROVE pc["entry"] \in {"fpm", "sleep"}
        BY <2>1, <2>3 DEF BootInv, Copied, SecondUnderEntry, EntryHasDone, Scripts
    <2>4. QED
        BY <2>2, <2>3 DEF BootInv, EntryHasDone
<1>2. QED
    BY <1>1, BootInvariant, PTL

-----------------------------------------------------------------------------
(***************************************************************************)
(* The life of the extension: the inductive invariant.                      *)
(***************************************************************************)

LifeTypes ==
    /\ phase \in {"off", "starting", "idle", "request"}
    /\ ext \in [made : BOOLEAN, locked : BOOLEAN, classes : Nat]
    /\ module \in [number : Nat, type : {"none", "persistent", "temporary"}, started : BOOLEAN]
    /\ others \in [lasting : Nat, temporary : Nat]
    /\ functor \in BOOLEAN
    /\ starts \in Nat
    /\ requests \in Nat

\* When the module is in the registry: never while the engine is off, started
\* unless the engine still starts, temporary only during a request.
ModuleFollowsPhase ==
    /\ Loaded => ext.made /\ phase # "off" /\ module.type # "none"
    /\ Loaded /\ ~module.started => phase = "starting"
    /\ module.started => Loaded /\ phase # "starting"
    /\ module.type = "temporary" => Loaded /\ phase = "request"

\* What the extension keeps, and what the engine keeps of it, is set by
\* processStartup and undone by processShutdown.
KeptWhileStarted ==
    /\ ext.locked = module.started
    /\ table = IF module.started THEN {"wrapper", "functor"} ELSE {}
    /\ functor = module.started
    /\ registered = IF module.started THEN ext.classes ELSE 0
    /\ number2extension = IF module.started THEN {module.number} ELSE {}
    /\ found

LifeInv == LifeTypes /\ ModuleFollowsPhase /\ KeptWhileStarted

-----------------------------------------------------------------------------
(***************************************************************************)
(* What the callbacks do to it.                                             *)
(***************************************************************************)

\* The number the engine hands out is a number, and never 0.
LEMMA NextNumberIsNew == LifeTypes => NextNumber \in Nat \ {0}
BY DEF LifeTypes, NextNumber

\* get_module makes the object, keeps its lock and adds one class to an open
\* one, none to a locked one.
LEMMA GetModule ==
    ASSUME LifeTypes
    PROVE  /\ get_module \in [made : BOOLEAN, locked : BOOLEAN, classes : Nat]
           /\ get_module.made
           /\ get_module.locked = ext.locked
           /\ get_module.classes = IF ext.locked THEN ext.classes ELSE ext.classes + 1
BY DEF LifeTypes, get_module

\* processStartup of a module that is not started yet: the extension is found,
\* and everything that is kept while it is started is there.
LEMMA StartsKeeps ==
    ASSUME LifeInv, ~module.started,
           NEW e \in [made : BOOLEAN, locked : BOOLEAN, classes : Nat], e.made,
           NEW m \in [number : Nat, type : {"none", "persistent", "temporary"},
                      started : BOOLEAN],
           Starts(e, m)
    PROVE  /\ KeptWhileStarted'
           /\ ext' = [e EXCEPT !.locked = TRUE]
           /\ module' = [m EXCEPT !.started = TRUE]
<1>1. number2extension = {} /\ functor = FALSE /\ found
    BY DEF LifeInv, KeptWhileStarted
<1>2. Known(number2extension, m, e) = {m.number}
    BY <1>1 DEF Known
<1>3. /\ ext' = [e EXCEPT !.locked = TRUE]
      /\ module' = [m EXCEPT !.started = TRUE]
      /\ table' = {"wrapper", "functor"}
      /\ functor' = TRUE
      /\ registered' = e.classes
    BY <1>1 DEF Starts, initialize
<1>4. number2extension' = {m.number} /\ found'
    BY <1>1, <1>2 DEF Starts, Finds
<1>5. QED
    BY <1>3, <1>4 DEF KeptWhileStarted

\* processShutdown of a started module, with the removal of its classes and
\* dlclose: the extension is found, and nothing that is kept while it is
\* started is left; the object goes if the image is unmapped.
LEMMA DestructsKeeps ==
    ASSUME LifeInv, module.started, Destructs
    PROVE  /\ KeptWhileStarted'
           /\ module' = NoModule
           /\ ext' = IF unmaps THEN NoObject ELSE [ext EXCEPT !.locked = FALSE]
<1>1. number2extension = {module.number} /\ found
    BY DEF LifeInv, KeptWhileStarted
<1>2. Known(number2extension, module, ext) = {module.number}
    BY <1>1 DEF Known
<1>3. /\ number2extension' = {} /\ found' /\ table' = {} /\ registered' = 0
      /\ module' = NoModule
    BY <1>1, <1>2 DEF Destructs, Finds
<1>4. /\ ext' = IF unmaps THEN NoObject ELSE [ext EXCEPT !.locked = FALSE]
      /\ functor' = FALSE
    BY DEF Destructs, shutdown
<1>5. ext'.locked = FALSE
    BY <1>4 DEF NoObject, LifeInv, LifeTypes
<1>6. QED
    BY <1>3, <1>4, <1>5 DEF KeptWhileStarted, NoModule

\* processRequest and processIdle find the extension and change nothing.
LEMMA LooksUpKeeps ==
    ASSUME LifeInv, Loaded => module.started, LooksUp
    PROVE  UNCHANGED <<number2extension, found>>
<1>1. CASE Loaded
    <2>1. number2extension = {module.number} /\ found
        BY <1>1 DEF LifeInv, KeptWhileStarted
    <2>2. Known(number2extension, module, ext) = {module.number}
        BY <2>1 DEF Known
    <2>3. QED
        BY <1>1, <2>1, <2>2 DEF LooksUp, Finds
<1>2. CASE ~Loaded
    BY <1>2 DEF LooksUp
<1>3. QED
    BY <1>1, <1>2

-----------------------------------------------------------------------------
(***************************************************************************)
(* The life of the extension: the invariant holds.                          *)
(***************************************************************************)

\* A process in which the engine has not started satisfies the invariant.
LEMMA LifeInit == EngineInit => LifeInv
<1> SUFFICES ASSUME EngineInit PROVE LifeInv
    OBVIOUS
<1>1. LifeTypes
    BY DEF EngineInit, LifeTypes, NoObject, NoModule
<1>2. ModuleFollowsPhase
    BY DEF EngineInit, ModuleFollowsPhase, NoModule, Loaded
<1>3. KeptWhileStarted
    BY Zenon DEF EngineInit, KeptWhileStarted, NoObject, NoModule
<1>4. QED
    BY <1>1, <1>2, <1>3 DEF LifeInv

\* Every step of the engine keeps the invariant.
LEMMA LifeStep == LifeInv /\ [EngineNext]_engineVars => LifeInv'
<1> SUFFICES ASSUME LifeInv, [EngineNext]_engineVars PROVE LifeInv'
    OBVIOUS
<1>a. LifeTypes /\ ModuleFollowsPhase /\ KeptWhileStarted
    BY DEF LifeInv
<1>1. CASE EngineStarts
    <2>1. ~Loaded /\ ~module.started /\ ext.locked = FALSE
        BY <1>1, <1>a DEF EngineStarts, ModuleFollowsPhase, KeptWhileStarted
    <2>2. CASE ini
        <3>a. NextNumber \in Nat \ {0}
            BY <1>a, NextNumberIsNew
        <3>b. /\ ext' = get_module
              /\ module' = [number |-> NextNumber, type |-> "persistent", started |-> FALSE]
            BY <1>1, <2>2 DEF EngineStarts
        <3>1. /\ ext' = get_module
              /\ module'.number = NextNumber
              /\ module' \in [number : Nat, type : {"none", "persistent", "temporary"},
                              started : BOOLEAN]
              /\ module'.started = FALSE
              /\ module'.type = "persistent"
            BY <3>a, <3>b
        <3>2. QED
            BY <1>1, <1>a, <2>1, <2>2, <3>1, GetModule, NextNumberIsNew
               DEF EngineStarts, given, LifeInv, LifeTypes, ModuleFollowsPhase,
                   KeptWhileStarted,
                   Loaded
    <2>3. CASE ~ini
        BY <1>1, <1>a, <2>1, <2>3
           DEF EngineStarts, given, LifeInv, LifeTypes, ModuleFollowsPhase,
               KeptWhileStarted,
               Loaded
    <2>4. QED
        BY <2>2, <2>3
<1>2. CASE StartModules
    <2>1. ~module.started
        BY <1>2, <1>a DEF StartModules, ModuleFollowsPhase
    <2>2. CASE Loaded
        <3>1. KeptWhileStarted' /\ ext' = [ext EXCEPT !.locked = TRUE]
              /\ module' = [module EXCEPT !.started = TRUE]
            BY <1>2, <1>a, <2>1, <2>2, StartsKeeps
               DEF StartModules, LifeTypes, ModuleFollowsPhase
        <3>2. module.type = "persistent"
            BY <1>2, <1>a, <2>2 DEF StartModules, ModuleFollowsPhase, LifeTypes
        <3>3. QED
            BY <1>2, <1>a, <2>2, <3>1, <3>2
               DEF StartModules, given, LifeInv, LifeTypes, ModuleFollowsPhase,
                   Loaded,
                   KeptWhileStarted
    <2>3. CASE ~Loaded
        BY <1>2, <1>a, <2>3
           DEF StartModules, given, LifeInv, LifeTypes, ModuleFollowsPhase,
               KeptWhileStarted,
               Loaded
    <2>4. QED
        BY <2>2, <2>3
<1>3. CASE RequestStarts
    <2>1. Loaded => module.started
        BY <1>3, <1>a DEF RequestStarts, ModuleFollowsPhase
    <2>2. UNCHANGED <<number2extension, found>>
        BY <1>3, <2>1, LooksUpKeeps DEF RequestStarts
    <2>3. QED
        BY <1>3, <1>a, <2>2
           DEF RequestStarts, given, LifeInv, LifeTypes, ModuleFollowsPhase,
               KeptWhileStarted,
               Loaded
<1>4. CASE Dl
    <2>1. Loaded <=> module.started
        BY <1>4, <1>a DEF Dl, ModuleFollowsPhase
    <2>2. CASE Loaded
        <3>1. ext.locked
            BY <1>a, <2>1, <2>2 DEF KeptWhileStarted
        <3>2. QED
            BY <1>4, <1>a, <2>2, <3>1, GetModule
               DEF Dl, given, LifeInv, LifeTypes, ModuleFollowsPhase, KeptWhileStarted,
                   Loaded
    <2>3. CASE ~Loaded
        <3>1. ~module.started /\ ext.locked = FALSE
            BY <1>a, <2>1, <2>3 DEF KeptWhileStarted, LifeTypes
        <3> DEFINE m == [number |-> NextNumber, type |-> "temporary", started |-> FALSE]
        <3>a. m \in [number : Nat, type : {"none", "persistent", "temporary"}, started : BOOLEAN]
            BY <1>a, NextNumberIsNew
        <3>b. Starts(get_module, m)
            BY <1>4, <2>3 DEF Dl
        <3>c. KeptWhileStarted' /\ ext' = [get_module EXCEPT !.locked = TRUE]
              /\ module' = [m EXCEPT !.started = TRUE]
            <4> HIDE DEF m
            <4> QED
                BY <1>a, <3>1, <3>a, <3>b, StartsKeeps, GetModule
        <3>2. KeptWhileStarted' /\ ext' = [get_module EXCEPT !.locked = TRUE]
              /\ module' = [number |-> NextNumber, type |-> "temporary", started |-> TRUE]
            BY <3>c
        <3>3. ext' \in [made : BOOLEAN, locked : BOOLEAN, classes : Nat] /\ ext'.made
            BY <1>a, <3>1, <3>2, GetModule DEF LifeTypes
        <3>4. LifeTypes' /\ ModuleFollowsPhase'
            BY <1>4, <1>a, <3>2, <3>3, NextNumberIsNew
               DEF Dl, LifeTypes, ModuleFollowsPhase, KeptWhileStarted, Loaded
        <3>5. QED
            BY <3>2, <3>4 DEF LifeInv
    <2>4. QED
        BY <2>2, <2>3
<1>5. CASE OtherLoads
    BY <1>5, <1>a
       DEF OtherLoads, given, LifeInv, LifeTypes, ModuleFollowsPhase, KeptWhileStarted,
           Loaded
<1>6. CASE RequestEnds
    <2>1. others' \in [lasting : Nat, temporary : Nat] /\ phase = "request" /\ phase' = "idle"
        BY <1>6, <1>a DEF RequestEnds, LifeTypes
    <2>2. UNCHANGED <<given, starts, requests>>
        BY <1>6 DEF RequestEnds
    <2>3. CASE module.type = "temporary"
        <3>1. Loaded /\ module.started
            BY <1>a, <2>1, <2>3 DEF ModuleFollowsPhase
        <3>2. KeptWhileStarted' /\ module' = NoModule
              /\ ext' = IF unmaps THEN NoObject ELSE [ext EXCEPT !.locked = FALSE]
            BY <1>6, <2>3, <3>1, DestructsKeeps DEF RequestEnds
        <3>3. QED
            BY <1>a, <2>1, <2>2, <3>2
               DEF given, LifeInv, LifeTypes, ModuleFollowsPhase, Loaded,
                   NoModule,
                   NoObject, KeptWhileStarted
    <2>4. CASE module.type # "temporary"
        <3>1. Loaded => module.started
            BY <1>a, <2>1 DEF ModuleFollowsPhase
        <3>2. UNCHANGED <<number2extension, found>>
            BY <1>6, <2>4, <3>1, LooksUpKeeps DEF RequestEnds
        <3>3. UNCHANGED <<ext, module, table, registered, functor>>
            BY <1>6, <2>4 DEF RequestEnds
        <3>4. QED
            BY <1>a, <2>1, <2>2, <2>4, <3>2, <3>3
               DEF given, LifeInv, LifeTypes, ModuleFollowsPhase, KeptWhileStarted,
                   Loaded
    <2>5. QED
        BY <2>3, <2>4
<1>7. CASE EngineStops
    <2>1. Loaded <=> module.started
        BY <1>7, <1>a DEF EngineStops, ModuleFollowsPhase
    <2>2. CASE Loaded
        <3>1. KeptWhileStarted' /\ module' = NoModule
              /\ ext' = IF unmaps THEN NoObject ELSE [ext EXCEPT !.locked = FALSE]
            BY <1>7, <2>1, <2>2, DestructsKeeps DEF EngineStops
        <3>2. QED
            BY <1>7, <1>a, <3>1
               DEF EngineStops, given, LifeInv, LifeTypes, ModuleFollowsPhase,
                   Loaded,
                   NoModule, NoObject, KeptWhileStarted
    <2>3. CASE ~Loaded
        BY <1>7, <1>a, <2>3
           DEF EngineStops, given, LifeInv, LifeTypes, ModuleFollowsPhase,
               KeptWhileStarted,
               Loaded
    <2>4. QED
        BY <2>2, <2>3
<1>8. CASE UNCHANGED engineVars
    BY <1>8, <1>a
       DEF engineVars, given, LifeInv, LifeTypes, ModuleFollowsPhase, KeptWhileStarted,
           Loaded
<1>9. QED
    BY <1>1, <1>2, <1>3, <1>4, <1>5, <1>6, <1>7, <1>8 DEF EngineNext

\* The invariant holds in every behaviour of the engine.
LEMMA LifeInvariant == EngineSpec => []LifeInv
BY LifeInit, LifeStep, PTL DEF EngineSpec

-----------------------------------------------------------------------------
(***************************************************************************)
(* The life of the extension: the theorems.                                 *)
(***************************************************************************)

\* However often the extension is loaded and unloaded, by php.ini or by dl(),
\* every callback finds it, and its classes, the functor's entry and its number
\* are there exactly while it is started.
THEOREM ClassesComeAndGo == EngineSpec => []ClassesFollowModule
<1>1. LifeInv => ClassesFollowModule
    <2> SUFFICES ASSUME LifeInv PROVE ClassesFollowModule
        OBVIOUS
    <2>1. CASE module.started
        BY <2>1 DEF LifeInv, LifeTypes, KeptWhileStarted, ClassesFollowModule
    <2>2. CASE ~module.started
        BY <2>2 DEF LifeInv, LifeTypes, KeptWhileStarted, ClassesFollowModule
    <2>3. QED
        BY <2>1, <2>2
<1>2. QED
    BY <1>1, LifeInvariant, PTL

\* The class that PHP code sees is the newest of those in the static object,
\* however many loads have left theirs there.
THEOREM NewestClassWins == EngineSpec => []NewestClassIsSeen
<1>1. LifeInv => NewestClassIsSeen
    BY DEF LifeInv, KeptWhileStarted, NewestClassIsSeen
<1>2. QED
    BY <1>1, LifeInvariant, PTL
=============================================================================
