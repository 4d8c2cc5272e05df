------------------------- MODULE DeepClientWrapper -------------------------
(***************************************************************************)
(* The PHP class DeepClientPhpWrapper (src/deep_client_php_wrapper.cpp) and *)
(* the Python module it drives (src/deep_client_interface.py), inside one   *)
(* php-fpm worker process.                                                  *)
(*                                                                          *)
(* A worker has ONE embedded Python interpreter.  Every wrapper object      *)
(* starts it in its C++ constructor and shuts it down in its destructor,    *)
(* without counting the other wrappers.  The Python module caches ONE       *)
(* client, made from the credentials of the first call of an interpreter's  *)
(* life.  This module says what the objects, the interpreter, the cached    *)
(* client and Python's error indicator do under any sequence of the         *)
(* operations PHP code can perform on the class.                            *)
(*                                                                          *)
(* PHP is single threaded, so one handler of the class is one action.       *)
(* Abstracted: queries and results are reduced to the kinds that the C++    *)
(* code tells apart (module PyPhpBridge treats the values themselves).      *)
(***************************************************************************)

EXTENDS Naturals

CONSTANTS Objects,  \* slots for wrapper objects alive at the same time
          Tokens,   \* JWTs that may be passed as "token"
          Urls,     \* endpoints that may be passed as "url"
          Empty,    \* the empty string
          None      \* "no such value": PHP null, Python None

ASSUME EmptyAssumption == Empty \in Tokens /\ Empty \in Urls

ASSUME NoneAssumption ==
    /\ None \notin Tokens
    /\ None \notin Urls
    /\ None \notin [token : Tokens, url : Urls]

VARIABLES
    st,       \* life cycle of each object: "free", "created" or "ready"
    cred,     \* the C++ members token and url of each object
    module,   \* the member deepClientModule: "null", "valid" or "dangling"
    up,       \* is the embedded interpreter initialised?
    client,   \* global_deep_client: None, or the credentials it was made of
    pyerr,    \* is a Python exception pending in the error indicator?
    process,  \* the php-fpm worker process: "running" or "dead"
    outcome,  \* what the last operation gave its PHP caller
    sole      \* has PHP code kept to one wrapper at a time, constructed once,
              \* since there was none?  src/index.php does.  (history)

vars == <<st, cred, module, up, client, pyerr, process, outcome, sole>>

Cred == [token : Tokens, url : Urls]

\* The default member initialisers: token = "" and url = "".
Blank == [token |-> Empty, url |-> Empty]

Methods == {"select", "insert", "update", "delete", "serial", "id"}

\* How an operation comes back to the PHP code that performed it.
Hows == {"none", "returned", "errorString", "errorText", "unknownError",
         "exception", "error", "warning"}

\* "own" holds the credentials of the object a request was sent for, "sentAs"
\* those the request carried; both are None when nothing was sent.
Outcome(how, own, sentAs) == [how |-> how, own |-> own, sentAs |-> sentAs]

Quiet(how) == Outcome(how, None, None)

TypeOK ==
    /\ st \in [Objects -> {"free", "created", "ready"}]
    /\ cred \in [Objects -> Cred]
    /\ module \in [Objects -> {"null", "valid", "dangling"}]
    /\ up \in BOOLEAN
    /\ client \in Cred \cup {None}
    /\ pyerr \in BOOLEAN
    /\ process \in {"running", "dead"}
    /\ outcome \in [how : Hows, own : Cred \cup {None}, sentAs : Cred \cup {None}]
    /\ sole \in BOOLEAN

Live(o) == st[o] # "free"
NoneBut(o) == \A p \in Objects \ {o} : ~Live(p)

Init ==
    /\ st = [o \in Objects |-> "free"]
    /\ cred = [o \in Objects |-> Blank]
    /\ module = [o \in Objects |-> "null"]
    /\ up = FALSE
    /\ client = None
    /\ pyerr = FALSE
    /\ process = "running"
    /\ outcome = Quiet("none")
    /\ sole = TRUE

-----------------------------------------------------------------------------
(***************************************************************************)
(* Creating, cloning and freeing objects.                                   *)
(***************************************************************************)

\* Mutant of Create: initializePython imports without Py_Initialize.
CreateNoInitialize(o) ==
    /\ process = "running"
    /\ st[o] = "free"
    /\ st' = [st EXCEPT ![o] = "created"]
    /\ cred' = [cred EXCEPT ![o] = Blank]
    /\ module' = [module EXCEPT ![o] = "valid"]
    /\ outcome' = Quiet("returned")
    /\ sole' = (sole /\ NoneBut(o))
    /\ UNCHANGED <<up, client, pyerr, process>>

\* `new DeepClientPhpWrapper`, first half: createObject builds the C++ object,
\* whose constructor runs initializePython.  Py_Initialize does nothing when
\* the interpreter is up; otherwise the interpreter starts afresh and
\* importing the module sets global_deep_client = None.  PyRun_SimpleString
\* prints and clears an error that was still pending.
Create(o) ==
    /\ process = "running"
    /\ st[o] = "free"
    /\ st' = [st EXCEPT ![o] = "created"]
    /\ cred' = [cred EXCEPT ![o] = Blank]
    /\ module' = [module EXCEPT ![o] = "valid"]
    /\ up' = TRUE
    /\ client' = IF up THEN client ELSE None
    /\ pyerr' = FALSE
    /\ outcome' = Quiet("returned")
    /\ sole' = (sole /\ NoneBut(o))
    /\ UNCHANGED process

\* The import fails, which it can only do in an interpreter that has not
\* imported the module yet.  initializePython throws a C++ exception that
\* createObject does not catch: it unwinds into the C frames of the Zend
\* engine and the process is terminated.
CreateImportFails(o) ==
    /\ process = "running"
    /\ st[o] = "free"
    /\ ~up
    /\ process' = "dead"
    /\ UNCHANGED <<st, cred, module, up, client, pyerr, outcome, sole>>

\* Mutant of Construct: the test for null parameters is dropped.
ConstructUnguarded(o, token, url) ==
    /\ process = "running"
    /\ Live(o)
    /\ outcome' = Quiet("returned")
    /\ st' = [st EXCEPT ![o] = "ready"]
    /\ cred' = [cred EXCEPT ![o] = [token |-> token, url |-> url]]
    /\ sole' = (sole /\ st[o] = "created")
    /\ UNCHANGED <<module, up, client, pyerr, process>>

\* __construct(token, url): PHP calls it right after createObject, and PHP code
\* may call it again on the same object.  None stands for a PHP null.
Construct(o, token, url) ==
    /\ process = "running"
    /\ Live(o)
    /\ IF token = None \/ url = None
       THEN /\ outcome' = Quiet("exception")
            /\ UNCHANGED <<st, cred>>
       ELSE /\ outcome' = Quiet("returned")
            /\ st' = [st EXCEPT ![o] = "ready"]
            /\ cred' = [cred EXCEPT ![o] = [token |-> token, url |-> url]]
    /\ sole' = (sole /\ st[o] = "created")
    /\ UNCHANGED <<module, up, client, pyerr, process>>

\* `clone $deep`: the implicit copy constructor copies the three members,
\* deepClientModule included, and takes no reference of its own.
Clone(o, p) ==
    /\ process = "running"
    /\ Live(o)
    /\ st[p] = "free"
    /\ st' = [st EXCEPT ![p] = st[o]]
    /\ cred' = [cred EXCEPT ![p] = cred[o]]
    /\ module' = [module EXCEPT ![p] = module[o]]
    /\ outcome' = Quiet("returned")
    /\ sole' = FALSE
    /\ UNCHANGED <<up, client, pyerr, process>>

\* Py_Finalize: the interpreter goes, and with it the cached client, the error
\* indicator and every module object some wrapper still points to.
FinalizedModules ==
    [o \in Objects |-> IF module[o] = "valid" THEN "dangling" ELSE module[o]]

\* Mutant of Destroy: finalizePython drops its reference but forgets
\* Py_Finalize.
DestroyNoFinalize(o) ==
    /\ process = "running"
    /\ Live(o)
    /\ st' = [st EXCEPT ![o] = "free"]
    /\ cred' = [cred EXCEPT ![o] = Blank]
    /\ module' = [module EXCEPT ![o] = "null"]
    /\ outcome' = Quiet("none")
    /\ sole' = (sole \/ NoneBut(o))
    /\ UNCHANGED <<up, client, pyerr, process>>

\* freeObject deletes the C++ object and the destructor runs finalizePython.
\* Dropping a reference to a module of a dead interpreter is undefined: the
\* process may die of it or go on.
Destroy(o) ==
    /\ process = "running"
    /\ Live(o)
    /\ st' = [st EXCEPT ![o] = "free"]
    /\ cred' = [cred EXCEPT ![o] = Blank]
    /\ module' = [FinalizedModules EXCEPT ![o] = "null"]
    /\ up' = FALSE
    /\ client' = None
    /\ pyerr' = FALSE
    /\ process' \in IF module[o] = "dangling" THEN {"running", "dead"}
                                              ELSE {"running"}
    /\ outcome' = Quiet("none")
    /\ sole' = (sole \/ NoneBut(o))

-----------------------------------------------------------------------------
(***************************************************************************)
(* Calling a method.                                                        *)
(***************************************************************************)

\* The arguments call_python_function packs: token, url, query and, for id with
\* a second query that is not null, query2.
Packed(m) == IF m = "id" THEN {3, 4} ELSE {3}

\* The parameters without a default value of the Python function.
Required(m) == IF m = "update" THEN 4 ELSE 3

\* Mutants of make_deep_client: the token is not checked; the client is rebuilt
\* on every call.
MakeDeepClientNoTokenCheck(c) == client = None /\ c.url = Empty
MakeDeepClientUncached(c) == c

\* make_deep_client refuses to build a client without a token or a url, but
\* returns the cached one whatever it is called with.
MakeDeepClientRaises(c) == client = None /\ (c.token = Empty \/ c.url = Empty)
MakeDeepClient(c) == IF client = None THEN c ELSE client

\* The kinds of Python result call_python_function tells apart: "value" is a
\* number or a list or dict of representable values; "overflow" is one whose
\* conversion goes on with the error indicator set (an integer beyond a C long,
\* which PyLong_AsLong turns into -1, or inside a container a dict key or a str
\* with no UTF-8 form); "opaque" is a type reported by its name; "unhandled"
\* is None or any other type; "surrogates" is a str with no UTF-8 form.
Kinds == {"value", "overflow", "opaque", "str", "unhandled", "surrogates"}

Returns(k) == k \in {"value", "overflow", "opaque"}

\* The text of the pending Python error, which stays pending; without one,
\* "Unknown runtime error".
getPythonErrorText(pending) == IF pending THEN "errorText" ELSE "unknownError"

\* A Python str is always an error message: execute_async turns every Exception
\* into one.  A call that returned left no error pending.
HowOf(k) == CASE Returns(k)      -> "returned"
              [] k = "str"       -> "errorString"
              [] k = "unhandled" -> getPythonErrorText(FALSE)

CanCall(o) == process = "running" /\ Live(o) /\ module[o] = "valid"

\* Too few arguments: ZendCallable::valid raises a PHP warning and the method
\* is not entered.
CallTooFew(o) ==
    /\ process = "running"
    /\ Live(o)
    /\ outcome' = Quiet("warning")
    /\ UNCHANGED <<st, cred, module, up, client, pyerr, process, sole>>

\* convertPhpValueToPyObject throws a Php::Exception for a value it has no
\* conversion for, a Php::Error for a sparse list; Python is not called.
\* Looking the function up may already have swallowed a pending error.
CallUnconvertible(o) ==
    /\ CanCall(o)
    /\ \E how \in {"exception", "error"} : outcome' = Quiet(how)
    /\ pyerr' \in {FALSE, pyerr}
    /\ UNCHANGED <<st, cred, module, up, client, process, sole>>

\* Mutant of CallRaises: PyErr_Print is left out, the error stays pending.
CallRaisesNoPrint(o, m) ==
    /\ CanCall(o)
    /\ \/ \A n \in Packed(m) : n < Required(m)
       \/ MakeDeepClientRaises(cred[o])
       \/ pyerr
    /\ pyerr' = TRUE
    /\ outcome' = Quiet(getPythonErrorText(pyerr'))
    /\ UNCHANGED <<st, cred, module, up, client, process, sole>>

\* PyObject_CallObject returns NULL before anything was sent: the arguments do
\* not match the Python function, make_deep_client raises, or an error left
\* pending by an earlier call is reported as this call's.  PyErr_Print clears
\* the indicator before getPythonErrorText looks at it.
CallRaises(o, m) ==
    /\ CanCall(o)
    /\ \/ \A n \in Packed(m) : n < Required(m)
       \/ MakeDeepClientRaises(cred[o])
       \/ pyerr
    /\ pyerr' = FALSE
    /\ outcome' = Quiet(getPythonErrorText(pyerr'))
    /\ UNCHANGED <<st, cred, module, up, client, process, sole>>

Sendable(o, m) ==
    /\ CanCall(o)
    /\ \E n \in Packed(m) : n >= Required(m)
    /\ ~MakeDeepClientRaises(cred[o])

\* The client coroutine is run.  It ends in a result of kind k (a pending error
\* was swallowed on the way).  A str without a UTF-8 form gives a null char
\* pointer to the constructor of Php::Exception, whose std::logic_error no
\* handler of the extension catches.
CallAnswers(o, m, k) ==
    /\ Sendable(o, m)
    /\ client' = MakeDeepClient(cred[o])
    /\ IF k = "surrogates"
       THEN /\ process' = "dead"
            /\ UNCHANGED <<pyerr, outcome>>
       ELSE /\ pyerr' = (k = "overflow")
            /\ outcome' = Outcome(HowOf(k), cred[o], MakeDeepClient(cred[o]))
            /\ UNCHANGED process
    /\ UNCHANGED <<st, cred, module, up, sole>>

\* The coroutine ends in a BaseException (a cancellation, an exit), which
\* execute_async does not catch: a request was sent, the call returns NULL.
CallEscapes(o, m) ==
    /\ Sendable(o, m)
    /\ client' = MakeDeepClient(cred[o])
    /\ pyerr' = FALSE
    /\ outcome' = Outcome(getPythonErrorText(pyerr'), cred[o], MakeDeepClient(cred[o]))
    /\ UNCHANGED <<st, cred, module, up, process, sole>>

\* Any use of a module of an interpreter that was shut down is undefined.
CallDangling(o) ==
    /\ process = "running"
    /\ Live(o)
    /\ module[o] = "dangling"
    /\ process' \in {"running", "dead"}
    /\ \E how \in {"returned", "unknownError"} : outcome' = Quiet(how)
    /\ UNCHANGED <<st, cred, module, up, client, pyerr, sole>>

Call(o) ==
    \/ CallTooFew(o)
    \/ CallUnconvertible(o)
    \/ CallDangling(o)
    \/ \E m \in Methods :
          \/ CallRaises(o, m)
          \/ CallEscapes(o, m)
          \/ \E k \in Kinds : CallAnswers(o, m, k)

-----------------------------------------------------------------------------

\* php-fpm's master replaces a worker that died by a fresh process.
Respawn ==
    /\ process = "dead"
    /\ st' = [o \in Objects |-> "free"]
    /\ cred' = [o \in Objects |-> Blank]
    /\ module' = [o \in Objects |-> "null"]
    /\ up' = FALSE
    /\ client' = None
    /\ pyerr' = FALSE
    /\ process' = "running"
    /\ outcome' = Quiet("none")
    /\ sole' = TRUE

\* PHP code may do anything with the class.
Next ==
    \/ Respawn
    \/ \E o \in Objects :
          \/ Create(o)
          \/ CreateImportFails(o)
          \/ \E t \in Tokens \cup {None}, u \in Urls \cup {None} : Construct(o, t, u)
          \/ \E p \in Objects : Clone(o, p)
          \/ Call(o)
          \/ Destroy(o)

Spec == Init /\ [][Next]_vars
-----------------------------------------------------------------------------
(***************************************************************************)
(* Properties.                                                              *)
(***************************************************************************)

\* As long as PHP code keeps to one wrapper at a time, whatever it did before the
\* last one was gone: the module a living wrapper calls into belongs to the
\* interpreter that is running.  finalizePython of a wrapper that is gone must
\* never have shut down the interpreter of a later one.
SoleModuleValid ==
    sole => \A o \in Objects : Live(o) => up /\ module[o] = "valid"

\* As long as PHP code keeps to one wrapper at a time, a request carries the
\* credentials of the wrapper it was sent for, although make_deep_client ignores them once the
\* client is cached and a wrapper may be called before it is constructed.
SoleActsAsOwner ==
    sole /\ outcome.sentAs # None => outcome.sentAs = outcome.own

\* Whatever PHP code does with the class, a request never goes out without a
\* token or without a url: an empty one may only ride on a complete client
\* that make_deep_client cached before.
NeverAnonymous ==
    outcome.sentAs # None => outcome.sentAs.token # Empty /\ outcome.sentAs.url # Empty

\* Whatever PHP code does with the class, an error that Python left pending
\* belongs to an interpreter that is up and has served a request: it is never
\* carried into the interpreter of a later wrapper.
PendingErrorHasOrigin == pyerr => up /\ client # None

\* Whatever PHP code does with the class, the identity a worker acts under does
\* not change while its interpreter lives: only finalizePython of some wrapper
\* (or the end of the process) drops the cached client, and nothing swaps it.
ClientSticksToInterpreter ==
    [][client # None /\ client' # client => ~up' /\ client' = None]_vars

\* Whatever PHP code does with the class, once every wrapper is gone the
\* interpreter is down and no cached client is left for the next request.
NothingOutlivesWrappers ==
    (\A o \in Objects : ~Live(o)) => ~up /\ client = None /\ ~pyerr
=============================================================================
