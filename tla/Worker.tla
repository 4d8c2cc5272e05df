------------------------------- MODULE Worker -------------------------------
(***************************************************************************)
(* One php-fpm worker: the requests of src/index.php (RequestHandler) on    *)
(* top of the wrapper objects and the Python interpreter of the process     *)
(* (DeepClientWrapper).  A step of the composition is a step of one of the  *)
(* two, or of both where the PHP code performs an operation of the class:   *)
(* the handler creates and constructs the request's client, the code it     *)
(* evaluates calls methods whose outcome is a value or an exception, and    *)
(* PHP frees the objects before the request is over.                        *)
(***************************************************************************)
EXTENDS Naturals, Sequences

CONSTANTS Objects, Tokens, Urls, Empty, None, MaxPrints, MaxBuffers, MaxHandlers, MaxLate,
          Faults,           \* what may fail around the handler code (RequestHandler)
          Requests,         \* the <<method, path, body>> that may arrive
          Url               \* http://GQL_URN, the endpoint of every request

ASSUME UrlAssumption == Url \in Urls \ {Empty}
ASSUME RequestsAssumption ==
    Requests \subseteq {"GET", "POST"}
                       \X {"/", "/healthz", "/init", "/call", "/http-call", "/other"}
                       \X {"falsy", "bare", "full"}

\* Those of the two components
ASSUME WorkerAssumption ==
    /\ Empty \in Tokens /\ Empty \in Urls
    /\ None \notin Tokens \cup Urls \cup Objects \cup [token : Tokens, url : Urls]
    /\ MaxPrints \in Nat /\ MaxBuffers \in Nat /\ MaxHandlers \in Nat \ {0}
    /\ MaxLate \in Nat

VARIABLES
    pc, req, buffers, callbacks, handlers, exc, result, reply, headers, body, printed,
    tampered, raised, causes, late, log, answer,    \* of RequestHandler
    st, cred, module, up, client, pyerr, outcome, sole,   \* of DeepClientWrapper
    process,                                        \* of both
    jwt,    \* the token of the request in service, None between requests
    mine    \* the object $deepClient refers to, None before it is created

R == INSTANCE RequestHandler
W == INSTANCE DeepClientWrapper

rvars == <<pc, req, buffers, callbacks, handlers, exc, result, reply, headers, body, printed,
           tampered, raised, causes, late, log, answer>>
wvars == <<st, cred, module, up, client, pyerr, outcome, sole>>
vars == <<rvars, wvars, process, jwt, mine>>

Init == R!Init /\ W!Init /\ jwt = None /\ mine = None

-----------------------------------------------------------------------------
(***************************************************************************)
(* The request handler.                                                     *)
(***************************************************************************)

Begin(r, t) ==
    /\ R!Receive(r)
    /\ jwt' = t
    /\ UNCHANGED <<wvars, mine>>

\* The steps of index.php, Slim and the engine that leave the class alone.
HostStep ==
    /\ \/ R!Prologue \/ R!PlainRoute \/ R!ExecutorRoute \/ R!NoRoute
       \/ R!DecodeFails \/ R!Decode \/ R!NoClass \/ R!EvalArguments
       \/ R!Execute \/ R!Leave \/ R!Return
       \/ R!CatchErrorException \/ R!CatchException \/ R!CatchNothing \/ R!Resolve
       \/ R!ErrorHandler \/ R!Emit \/ R!OutOfMemory \/ R!ShutdownFunctions \/ R!FlushBuffer
    /\ UNCHANGED <<wvars, jwt, mine>>

\* new DeepClientPhpWrapper($jwt, $url)
CreateClient(o) ==
    /\ R!CreateClient
    /\ W!Create(o)
    /\ mine' = o
    /\ UNCHANGED jwt

CreateClientDies(o) ==
    /\ R!At("create")
    /\ "dl" \notin causes
    /\ W!CreateImportFails(o)
    /\ R!Die
    /\ UNCHANGED <<jwt, mine>>

ConstructClient ==
    /\ R!ConstructClient
    /\ W!Construct(mine, jwt, Url)
    /\ UNCHANGED <<jwt, mine>>

-----------------------------------------------------------------------------
(***************************************************************************)
(* The handler code.                                                        *)
(***************************************************************************)

UserStep == R!UserStep /\ UNCHANGED <<wvars, jwt, mine>>

\* What an operation of the class means for the code that performed it: a PHP
\* warning runs errorHandler and becomes an ErrorException, unless the code has
\* put an error handler of its own in place; an exception or an Error may be
\* caught by the handler code or end it.
Felt(how) ==
    \/ how = "returned" /\ R!UserWork
    \/ how = "warning" /\ ((tampered /\ R!UserWork) \/ R!UserWarning)
    \/ /\ how \in {"errorString", "errorText", "unknownError", "exception"}
       /\ R!UserWork \/ R!UserThrow("Exception", TRUE)
    \/ how = "error" /\ (R!UserWork \/ R!UserThrow("Error", TRUE))

\* $data['deep']->select(...) and its siblings, on any wrapper that is alive.
UserCall(o) ==
    /\ R!UserCode
    /\ W!Call(o)
    /\ IF process' = "dead" THEN R!Die ELSE Felt(outcome'.how)
    /\ UNCHANGED <<jwt, mine>>

\* Handler code with wrappers of its own: new, a second __construct, clone.  (A
\* null argument only throws, which is a UserStep.)
UserObjects(o) ==
    /\ R!UserCode
    /\ \/ W!Create(o)
       \/ W!CreateImportFails(o)
       \/ \E t \in Tokens, u \in Urls : W!Construct(o, t, u)
       \/ \E p \in Objects : W!Clone(o, p)
    /\ IF process' = "dead" THEN R!Die ELSE R!UserWork
    /\ UNCHANGED <<jwt, mine>>

-----------------------------------------------------------------------------
(***************************************************************************)
(* The end of a request.                                                    *)
(***************************************************************************)

\* PHP frees an object with its last reference: the handler's own wrappers at
\* any time from the eval on, $deepClient once handleRequestExecutor is left.
\* An exception's trace or a global variable may hold either until the request
\* shutdown.
Release(o) ==
    /\ pc \in {"eval", "leave", "return", "catch", "outer", "resolve", "errorHandler", "emit",
              "shutdown", "flush"}
    /\ o = mine => pc \in {"errorHandler", "emit", "shutdown", "flush"}
    /\ W!Destroy(o)
    /\ mine' = IF o = mine THEN None ELSE mine
    /\ IF process' = "dead" THEN R!Die ELSE UNCHANGED rvars
    /\ UNCHANGED jwt

\* Mutant of Finish: the objects of a request outlive it.
FinishNoRelease ==
    /\ R!Finish
    /\ jwt' = None
    /\ mine' = None
    /\ UNCHANGED wvars

\* The request shutdown frees every object that is left before it is over.
Finish ==
    /\ \A o \in Objects : ~W!Live(o)
    /\ R!Finish
    /\ jwt' = None
    /\ mine' = None
    /\ UNCHANGED wvars

Die == R!Die /\ UNCHANGED <<wvars, jwt, mine>>

Respawn ==
    /\ R!Respawn
    /\ W!Respawn
    /\ jwt' = None
    /\ mine' = None

Next ==
    \/ \E r \in Requests, t \in Tokens : Begin(r, t)
    \/ HostStep
    \/ ConstructClient
    \/ UserStep
    \/ \E o \in Objects :
          \/ CreateClient(o)
          \/ CreateClientDies(o)
          \/ UserCall(o)
          \/ UserObjects(o)
          \/ Release(o)
    \/ Finish
    \/ Die
    \/ Respawn

Spec == Init /\ [][Next]_vars

-----------------------------------------------------------------------------
(***************************************************************************)
(* Properties.                                                              *)
(***************************************************************************)

\* Between two requests nothing of the previous one is left in the worker,
\* whatever its handler did with wrappers of its own: no cached client, no
\* interpreter, no pending error, no output buffer, no error handler.
IdleIsClean ==
    pc = "idle" /\ process = "running" =>
        /\ \A o \in Objects : ~W!Live(o)
        /\ ~up /\ client = None /\ ~pyerr
        /\ buffers = <<>> /\ handlers = 0

\* The token that the last request to Deep was made with, while the handler still has
\* the client it was given
Acted ==
    IF ~sole \/ mine = None \/ outcome.sentAs = None THEN None ELSE outcome.sentAs.token

\* The wrapper, the interpreter and the cache implement isolated calls for the
\* requests whose handlers use only the client they are given, next to others in
\* the same worker that create, clone and construct as they like.
Promise == INSTANCE IsolatedCalls WITH serving <- jwt, acted <- Acted

Isolation == Promise!Spec

\* src/README.md:22: "jwt: STRING - Deeplinks send this token, for create gql
\* and deep client".  A request sent through a client made for the request's
\* jwt carries that jwt.
ClientUsesJwt ==
    outcome.sentAs # None /\ outcome.own.token = jwt => outcome.sentAs.token = jwt
=============================================================================
