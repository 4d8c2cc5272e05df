-------------------------------- MODULE Boot --------------------------------
(***************************************************************************)
(* src/start_server.sh, the entry point of the container (src/Dockerfile):  *)
(* it kills php-fpm, writes the port into nginx's configuration, copies     *)
(* .env, starts nginx and stays with php-fpm in the foreground.  The        *)
(* container ends with the entry script, may be killed at any step, and     *)
(* comes up again with the files it had.  An operator may run the script    *)
(* inside the container, with a PORT of his choice and while the entry      *)
(* script is at any of its lines (bound: one such run at a time).  nginx    *)
(* may fail to start and may die, and so may php-fpm.                       *)
(***************************************************************************)
EXTENDS Naturals

CONSTANTS Ports,        \* values of PORT
          DEFAULT_PORT, \* 9090
          Unset,        \* PORT is not in the environment
          None,
          MaxBoots      \* bound: starts of the container

ASSUME PortsAssumption ==
    /\ DEFAULT_PORT \in Ports
    /\ {Unset, None, "template", "broken"} \cap Ports = {}
    /\ None \notin {"template", "broken"}
ASSUME BootsAssumption == MaxBoots \in Nat

Scripts == {"entry", "again"}

VARIABLES
    env,     \* PORT in the environment of the container
    boots,   \* starts so far
    pc,      \* the next line of each script, "off" when it does not run
    PORT,    \* the port each script works with
    conf,    \* nginx.conf: "template" with ${PORT} in it, the port it names, or
             \* "broken": empty, or half of one text and half of another
    tmp,     \* nginx.conf.tmp: None, or what it would make of nginx.conf
    out,     \* the name of the file that the awk of each script writes to:
             \* "tmp", "conf", "gone", or None when it has none open
    dotenv,  \* is .env there?
    nginx,   \* the port nginx listens on, or None
    fpm,     \* the php-fpm of each script: "none", "starting" or "up"
    failed,  \* history: nginx has failed or died since the container came up
    raced    \* history: a second script was run while the first was starting

vars == <<env, boots, pc, PORT, conf, tmp, out, dotenv, nginx, fpm, failed, raced>>
files == <<conf, tmp, dotenv>>
history == <<failed, raced>>

Init ==
    /\ env \in Ports \cup {Unset}
    /\ boots = 0
    /\ pc = [s \in Scripts |-> "off"]
    /\ PORT = [s \in Scripts |-> DEFAULT_PORT]
    /\ conf = "template"
    /\ tmp = None
    /\ out = [s \in Scripts |-> None]
    /\ dotenv = FALSE
    /\ nginx = None
    /\ fpm = [s \in Scripts |-> "none"]
    /\ failed = FALSE
    /\ raced = FALSE

Up == pc["entry"] # "off"
Listening == \E s \in Scripts : fpm[s] = "up"

-----------------------------------------------------------------------------
(***************************************************************************)
(* The script.                                                              *)
(***************************************************************************)

\* PORT=${PORT:-$DEFAULT_PORT}
Run(s, p) ==
    /\ pc' = [pc EXCEPT ![s] = "kill"]
    /\ PORT' = [PORT EXCEPT ![s] = IF p = Unset THEN DEFAULT_PORT ELSE p]

Start ==
    /\ ~Up
    /\ boots < MaxBoots
    /\ boots' = boots + 1
    /\ Run("entry", env)
    /\ failed' = FALSE
    /\ UNCHANGED <<env, files, out, nginx, fpm, raced>>

Again(p) ==
    /\ Up
    /\ pc["again"] = "off"
    /\ Run("again", p)
    /\ raced' = (raced \/ pc["entry"] \notin {"fpm", "sleep"})
    /\ UNCHANGED <<env, boots, files, out, nginx, fpm, failed>>

Step(s, from, to) == pc[s] = from /\ pc' = [pc EXCEPT ![s] = to]

\* kill -9 $(pgrep php-fpm) takes every php-fpm; when there is none, kill
\* complains and that is all.
Kill(s) ==
    /\ Step(s, "kill", "awk")
    /\ fpm' = [t \in Scripts |-> "none"]
    /\ UNCHANGED <<env, boots, PORT, files, out, nginx, history>>

\* Mutant of Redirect: the output goes into nginx.conf itself.
RedirectInPlace(s) ==
    /\ Step(s, "awk", "write")
    /\ conf' = "broken"
    /\ out' = [out EXCEPT ![s] = "conf"]
    /\ UNCHANGED <<env, boots, PORT, tmp, dotenv, nginx, fpm, history>>

\* awk ... > nginx.conf.tmp: the shell empties the file before awk starts to read.
Redirect(s) ==
    /\ Step(s, "awk", "write")
    /\ tmp' = "broken"
    /\ out' = [out EXCEPT ![s] = "tmp"]
    /\ UNCHANGED <<env, boots, PORT, conf, dotenv, nginx, fpm, history>>

\* What a text written from the start of a file makes of it: a longer one that
\* another awk has put there shows behind it, and an empty one changes nothing.
Written(old, text) ==
    IF old = "broken" THEN {text}
    ELSE {text, "broken"} \cup (IF text = "broken" THEN {old} ELSE {})

\* awk reads nginx.conf as it is now; only a template has a ${PORT} to replace.
\* Its output goes to the file that was opened, whatever its name is by now.
Awk(s) ==
    LET text == IF conf = "template" THEN PORT[s] ELSE conf IN
    /\ Step(s, "write", "mv")
    /\ tmp' \in IF out[s] = "tmp" THEN Written(tmp, text) ELSE {tmp}
    /\ conf' \in IF out[s] = "conf" THEN Written(conf, text) ELSE {conf}
    /\ out' = [out EXCEPT ![s] = None]
    /\ UNCHANGED <<env, boots, PORT, dotenv, nginx, fpm, history>>

\* Where an open file is after nginx.conf.tmp was renamed to nginx.conf
Renamed(o) == CASE o = "tmp" -> "conf" [] o = "conf" -> "gone" [] OTHER -> o

\* Mutants of Mv: the file that awk wrote is left where it is; nobody looks
\* whether there is one.
MvForgotten(s) ==
    /\ Step(s, "mv", "cp")
    /\ UNCHANGED <<env, boots, PORT, conf, tmp, out, dotenv, nginx, fpm, history>>

MvUnchecked(s) ==
    /\ Step(s, "mv", "cp")
    /\ conf' = tmp
    /\ tmp' = None
    /\ out' = [t \in Scripts |-> Renamed(out[t])]
    /\ UNCHANGED <<env, boots, PORT, dotenv, nginx, fpm, history>>

\* mv complains when another script has moved the file already.
Mv(s) ==
    /\ Step(s, "mv", "cp")
    /\ IF tmp = None
       THEN UNCHANGED <<conf, tmp, out>>
       ELSE /\ conf' = tmp
            /\ tmp' = None
            /\ out' = [t \in Scripts |-> Renamed(out[t])]
    /\ UNCHANGED <<env, boots, PORT, dotenv, nginx, fpm, history>>

\* cp .env.example .env
Cp(s) ==
    /\ Step(s, "cp", "nginx")
    /\ dotenv' = TRUE
    /\ UNCHANGED <<env, boots, PORT, conf, tmp, out, nginx, fpm, history>>

\* nginx daemonizes.  A second one cannot bind, one with a template or half a
\* text for a configuration does not start, and any may fail: the port is taken
\* or not allowed.  The script looks at no exit status and goes on.
Nginx(s) ==
    /\ Step(s, "nginx", "php-fpm")
    /\ \/ /\ nginx = None /\ conf \in Ports
          /\ nginx' = conf
          /\ UNCHANGED failed
       \/ /\ failed' = (failed \/ (nginx = None /\ conf \in Ports))
          /\ UNCHANGED nginx
    /\ UNCHANGED <<env, boots, PORT, files, out, fpm, raced>>

\* php-fpm stays in the foreground.
Fpm(s) ==
    /\ Step(s, "php-fpm", "fpm")
    /\ fpm' = [fpm EXCEPT ![s] = "starting"]
    /\ UNCHANGED <<env, boots, PORT, files, out, nginx, history>>

\* It ends at once when another one has the socket.
FpmListens(s) ==
    /\ fpm[s] = "starting"
    /\ fpm' = [fpm EXCEPT ![s] = IF Listening THEN "none" ELSE "up"]
    /\ UNCHANGED <<env, boots, pc, PORT, files, out, nginx, history>>

\* Mutant of FpmReturns: the script waits for nginx as well.
FpmReturnsWithNginx(s) ==
    /\ fpm[s] = "none" /\ nginx = None
    /\ Step(s, "fpm", "sleep")
    /\ UNCHANGED <<env, boots, PORT, files, out, nginx, fpm, history>>

\* The script comes back when its php-fpm is gone, sleeps a second and ends.
FpmReturns(s) ==
    /\ fpm[s] = "none"
    /\ Step(s, "fpm", "sleep")
    /\ UNCHANGED <<env, boots, PORT, files, out, nginx, fpm, history>>

\* With the entry script every process of the container ends; files stay.
Stop ==
    /\ pc' = [s \in Scripts |-> "off"]
    /\ out' = [s \in Scripts |-> None]
    /\ nginx' = None
    /\ fpm' = [s \in Scripts |-> "none"]

Sleep(s) ==
    /\ pc[s] = "sleep"
    /\ IF s = "entry"
       THEN Stop
       ELSE pc' = [pc EXCEPT ![s] = "off"] /\ UNCHANGED <<out, nginx, fpm>>
    /\ UNCHANGED <<env, boots, PORT, files, history>>

-----------------------------------------------------------------------------
(***************************************************************************)
(* Faults: the container is killed between any two steps, php-fpm or nginx  *)
(* dies.                                                                    *)
(***************************************************************************)

Crash ==
    /\ Up
    /\ Stop
    /\ UNCHANGED <<env, boots, PORT, files, history>>

FpmDies(s) ==
    /\ fpm[s] # "none"
    /\ fpm' = [fpm EXCEPT ![s] = "none"]
    /\ UNCHANGED <<env, boots, pc, PORT, files, out, nginx, history>>

NginxDies ==
    /\ nginx # None
    /\ nginx' = None
    /\ failed' = TRUE
    /\ UNCHANGED <<env, boots, pc, PORT, files, out, fpm, raced>>

ScriptStep(s) ==
    \/ Kill(s) \/ Redirect(s) \/ Awk(s) \/ Mv(s) \/ Cp(s)
    \/ Nginx(s) \/ Fpm(s) \/ FpmReturns(s) \/ Sleep(s)

Next ==
    \/ Start
    \/ \E p \in Ports \cup {Unset} : Again(p)
    \/ \E s \in Scripts : ScriptStep(s) \/ FpmListens(s) \/ FpmDies(s)
    \/ Crash
    \/ NginxDies

Spec == Init /\ [][Next]_vars

\* The shell goes on with its script, and php-fpm gets to its socket.  Nobody has
\* to start the container, and nothing has to break.
FairSpec ==
    Spec /\ \A s \in Scripts : WF_vars(ScriptStep(s)) /\ WF_vars(FpmListens(s))
-----------------------------------------------------------------------------
(***************************************************************************)
(* Properties.                                                              *)
(***************************************************************************)

TypeOK ==
    /\ env \in Ports \cup {Unset}
    /\ boots \in 0..MaxBoots
    /\ pc \in [Scripts -> {"off", "kill", "awk", "write", "mv", "cp", "nginx", "php-fpm",
                           "fpm", "sleep"}]
    /\ PORT \in [Scripts -> Ports]
    /\ conf \in Ports \cup {"template", "broken"}
    /\ tmp \in Ports \cup {"broken", None}
    /\ out \in [Scripts -> {"tmp", "conf", "gone", None}]
    /\ dotenv \in BOOLEAN
    /\ nginx \in Ports \cup {None}
    /\ fpm \in [Scripts -> {"none", "starting", "up"}]
    /\ failed \in BOOLEAN
    /\ raced \in BOOLEAN

\* The port of the container
Configured == IF env = Unset THEN DEFAULT_PORT ELSE env

\* Wherever the container was killed before, and however often it came up again
\* with the files of that moment: once php-fpm can be reached, the .env that
\* index.php loads is there and nginx is in front of it on the container's port,
\* unless nginx itself has failed.  A second script with a port of its own does
\* not change that, if the first had come to php-fpm when it was run; before
\* that the two may write one nginx.conf.tmp, and nothing is promised of nginx.
ServesAsConfigured ==
    Listening =>
        /\ dotenv
        /\ ~raced => nginx = Configured \/ (failed /\ nginx = None)

\* Whatever two scripts do to each other, and also when nginx has failed: the
\* container gets to a php-fpm that can be reached, or stops.  It does not stay
\* up with nginx answering 502 for ever.
FpmOrStops == Up ~> (~Up \/ Listening)

\* A container that nobody interferes with any more ends up serving, or stops.
\* The exceptions are the two ways into a container that stays up without nginx:
\* nginx has failed, which start_server.sh:16 does not look at, or two scripts
\* have written one configuration.
ServesOrStops == Up ~> (~Up \/ failed \/ raced \/ (nginx = Configured /\ Listening))
=============================================================================
