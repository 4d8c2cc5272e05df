# Verification of the PHP isolation provider

php-docker-isolation-provider runs PHP *handlers* for Deep: an HTTP request
brings the source of a function `fn`, a JWT and data; the provider evaluates the
function with a client of the Deep service at hand and answers with what the
function printed and returned. This directory holds TLA+ models of the program,
the TLC configurations that check them and the proofs of what holds for every
size of the model.

## The system

| Part | Source | State it keeps | Operations |
|---|---|---|---|
| Request handler | `index.php` | output buffers, error handlers, the reply under construction, headers, the exception in flight | routes, `handleRequestExecutor`, `CodeExecutor::execute`, `errorHandler`, default error handler |
| Client class | `deep_client_php_wrapper.cpp` | per object: token, url, module pointer; per process: the embedded interpreter and its error indicator | constructor, `__construct`, six methods, clone, destructor |
| Python module | `deep_client_interface.py` | `global_deep_client`, one per interpreter | `make_deep_client`, `execute_async`, one function per method |
| Conversions | `PyPhpBridge.cpp` | none | PHP value to Python object and back |
| PHP-CPP values | `zend/value.cpp` | zvals: counted arrays and references | construct, copy, move, assign, reference, get, set, unset, destroy |
| PHP-CPP objects | `zend/classimpl.cpp`, `zend/iteratorimpl.cpp` | the C++ object behind a PHP object, its property table, its iterator | one handler per thing PHP code can do to an object |
| PHP-CPP extension | `zend/extensionimpl.cpp` | the static extension object, module numbers, class entries | start-up and shutdown of module and request, `get_module` |
| Pool | `docker.conf`, `nginx.conf` | up to 100 workers, one request each, 500 requests in a worker's life | accept, time out, kill, respawn |
| Boot | `start_server.sh`, `Dockerfile` | configuration file, running daemons | kill php-fpm, set the port, start nginx, start php-fpm |

nginx passes every request to a php-fpm worker over a socket. The worker runs
`index.php` from top to bottom. The handler creates one `DeepClientPhpWrapper`,
whose C++ constructor starts Python in the worker process, and evaluates the code
of the request with that object at hand. A method of the object converts its
argument, calls the Python function of the same name and converts the answer.
When PHP frees the object, its destructor shuts Python down. Nothing runs
concurrently inside a worker, while the pool runs many of them. What makes the code
hard is that

* handler code is arbitrary PHP and runs *inside* the worker: it shares the output
  buffers, the error handlers and the interpreter with the code around it, and may
  print, raise, catch, throw, exit, create more clients, never end, or leave code
  behind that PHP runs when the reply has been written;
* the interpreter and the cached client belong to the process, while the objects
  that start, use and stop them belong to PHP code that may hold several;
* a worker serves many requests, so that anything left behind meets the next one;
* nginx, the workers and the callers have clocks of their own: nginx gives up after
  60 s, php-fpm kills after 160 s, and a caller may try again while the first attempt
  is still at work; a handler may make Deep call the provider again and wait for it;
* the container may be killed at any step of its start and comes up with the files of
  that moment, nginx may fail without the script noticing, and the script may be run
  again at any time;
* three kinds of memory meet in one call, PHP's counted values, C++ locals and
  Python's counted objects, each with its own rules for who owns a reference;
* an error can surface as a PHP warning, an Exception, an Error, a Python error
  that stays pending, a C++ exception that nobody catches or a signal, and each is
  handled in another place, or in none.

What makes each part correct: a request's answer is one document that says what
the code printed (handler); a call acts under the token of the request it was made
for (client and Python module); values survive the way to Python and back, or are
refused, and no object is freed while it is in use (conversions, values, objects); a
request leaves nothing behind and always ends (worker); an attempt acts at most once
and nobody waits for ever (pool); a container serves on its port or stops (boot). Where
the code keeps such a promise only under conditions, the properties name the conditions.

## Modules

| Module | What it is |
|---|---|
| `DeepClientWrapper` | the class, the interpreter, the error indicator and the cached client, under any sequence of operations of PHP code |
| `RequestHandler` | one worker's requests through `index.php`, with the handler code as environment |
| `IsolatedCalls` | what the provider promises: a handler acts with the JWT of its request |
| `Worker` | `RequestHandler` and `DeepClientWrapper` composed; implements `IsolatedCalls` |
| `PyPhpBridge` | the conversions as recursive operators, and a machine that chains them |
| `PyReferences` | the references to Python objects during a call |
| `HandlerCalls` | what a caller may rely on: at most one effect per attempt, none unasked, a report is final, no effect after an answer |
| `Pool` | nginx, the backlog, the workers and their master, callers that retry; implements `HandlerCalls` |
| `Boot` | the start script, restarts and crashes of the container |
| `Values` | the class `Value` and the counts of what it points to |
| `ObjectHandlers` | the handlers of an object of a C++ class, its iterator and its end |
| `ExtensionLife` | the extension in a PHP process: php.ini, `dl()`, requests, restarts of the engine |
| `MC*` | instances for TLC |
| `*Proofs` | theorems about `DeepClientWrapper`, `RequestHandler`, `Worker`, `Pool`, `Values`, `ObjectHandlers` and `PyReferences`, one module each, and about `Boot` and `ExtensionLife` (`StartProofs`) |

### DeepClientWrapper

`st`, `cred` and `module` are the objects: `st` tells a slot that is free from an
object whose C++ constructor ran (`created`) and one on which `__construct`
succeeded (`ready`); `cred` holds the members `token` and `url`; `module` is the
pointer `deepClientModule`, which is `dangling` once the interpreter it came from
is finalized. `up`, `client` and `pyerr` belong to the interpreter.

`Create` is `createObject` with the whole of `initializePython`; `Construct` is
`__construct`; `Clone` is `cloneObject` with the implicit copy constructor;
`Destroy` is `freeObject` with the whole of `finalizePython`. A method call is one
of the disjuncts of `Call`, after the way it ends: too few arguments (a warning
from `ZendCallable::valid`), an argument with no conversion, a Python function that
raises before anything was sent, an answer of some kind, a `BaseException` that
`execute_async` does not catch, or a module of a dead interpreter. The kinds of
answer are those `call_python_function` tells apart. `outcome` remembers what the
caller saw, the credentials of the object and those the request was sent under.

Undefined behaviour is a choice: using or releasing a module of a finalized interpreter
may end the process or not. A C++ exception that passes through the engine, and a null
pointer given to the constructor of `Php::Exception`, end it. So does `PyErr_Print` when
the pending error is a SystemExit (`deep_client_php_wrapper.cpp:117`); the model does
not tell that end from the others of `CallEscapes`. Tokens and urls are UTF-8 strings
(`json_decode` yields nothing else).

PHP code may do anything with the class. `sole` is a history variable: it is true as
long as the code keeps to the discipline that `index.php` itself keeps to (one object
at a time, constructed once, not cloned), false from the first step that breaks it, and
true again once the last wrapper is gone. The properties that need the discipline are
conditional on it, so that they also speak of what comes after code that broke it.

### RequestHandler

`pc` walks through the prologue of `index.php`, `handleRequestExecutor` and `execute`;
`buffers` is PHP's stack of output buffers with the segments each holds, `callbacks` tells
which of them were opened with a callback; `handlers` is the depth of the stack of
error handlers; `exc` the exception in flight with its class, as the two catch
clauses tell classes apart.

Handler code is the environment. Between `Execute` and `Leave` it takes steps of its own
(`User...`): it prints, opens and ends buffers, installs and restores error handlers,
raises (`errorHandler`) and catches what becomes of it or not, throws, exits, returns, or
does something that leaves all of this alone. It may also leave code behind
(`UserLeavesCode`), of which `late` counts the steps still to come: destructors of its
variables run when `execute` returns (`Return`), shutdown functions and the other
destructors first thing in the request shutdown, before the buffers are flushed
(`ShutdownFunctions`). What runs while a throwable unwinds `execute` does nothing that the
code could not have done before the throw. Steps of handler code that are not in the model:
headers and status codes it sets itself, ini settings, and buffer callbacks that do more
than pass text on, drop it or replace it.

`Emit`, `ShutdownFunctions`, `FlushBuffer`, `Finish` and `Clear` are Slim's emitter and
PHP's request shutdown, modelled as far as the script relies on them: Slim is not in the
repository, the PHP engine is, as the sources bundled under `php_headers` and
`zend_headers`. Three details of the platform matter: `json_encode` returns `false` for text
that is not UTF-8, which the strictly typed stream class of Slim's PSR-7 package (1.6.1)
turns into a TypeError; buffers that are still open are flushed at the end of a request,
through their callbacks; and they may be discarded when the memory is exhausted.

Text is a sequence of segments (`out`, `bin`, `diag`, `json`, `log`). The logger opens its
stream with the first record (`log` is then `open`) and is one more source of
exceptions: a record that can not be written throws in the place where it was made, a
catch clause or the error handler, so that the exception the client is told of may be
the logger's; one made while PHP keeps the error handler out of the way displays a
notice instead, which stays in the output of a handler that catches the error it belongs
to (at most one such notice per request).

`Faults` says what may fail around the handler code: the prologue (autoloader, `.env`),
the loading of the extension (`dl`), the logger (`log`), the allocation of memory
(`memory`), and whether text may be other than UTF-8 (`binary`). `causes` remembers what
may keep the document from the client, or put something next to it: these five, an
`exit`, code that ran after the handler (`late`) and the callback of a buffer that was
left open (`callback`). `causes`, `printed`, `tampered` and `raised` are history
variables for the properties; no guard reads them, except that `MaxPrints` bounds
`printed`, that without the extension (`dl`) there is no class to create, that PHP
discards buffers only after a memory error, that a request has one notice of the
logger's, and that `Worker` lets code that changed the error handlers get past a
warning.

### Worker

A step is one of `RequestHandler`, one of `DeepClientWrapper`, or both: the handler
creates and constructs the client, the code calls methods whose outcome it feels as
a value or as an exception (`Felt`), objects are freed when the last reference goes
(`Release`) and at the latest in the request shutdown (the guard of `Finish`).
Handler code, and what it leaves behind, may make wrappers of its own (`UserObjects`);
`sole` tells the requests that do from those that use only the client they are given.

### PyPhpBridge

The conversions carry the names of the source. A C long has `LongBits`, a double
`MantissaBits`; the check uses 4 and 2, so that overflow and rounding happen among
small numbers. Strings are a handful of names, among them one with a NUL byte inside,
the numerals that PHP turns into integer keys, and two that are not UTF-8: as keys both
become the same replacement text (`DecodeReplace`), as values they become strings with
lone surrogates (`DecodeFSDefault`), which have no way back (`HasUTF8`) and end as null, or
as the empty key. The reference definition is a
value's set of leaves, each with its path of keys. RECURSIVE operators keep this
module out of the prover's reach: it is checked over bounded inputs only.

### PyReferences

One call after the other, reference by reference: `local` are the C++ locals of
`call_python_function`, `conv` the stack of arrays under conversion with the key in
hand, `hand` what the conversion of an element returned, `client` what the cached
client keeps. `Leave` is every return and every throw: all of them are before the
`Py_DECREF` lines, so what the locals hold is `lost`. What the values are is left to
`PyPhpBridge`; what two conversions do to each other is not, since the compiler may
evaluate the arguments of `PyTuple_Pack` in any order. A call that raises leaves `client`
as it was, also where Python had cached a client before the error: what the cache keeps
is a reference of Python's own, which no property is about.

### Pool

An attempt is a call and the number of the try. `conn` is what nginx knows of it,
`queue` the backlog of the socket, the other variables are a worker's: its state, the
attempt it works on, how far its handler is, how long it has been running. Time is a
clock of ticks; a timer that is due fires before the next tick. Only the order of the
two timeouts matters (`TimeoutAssumption`, 60 s against 160 s). The handler acts in Deep
once (`Act`), and Deep may call another handler (`Inner`) and wait for it; or it throws,
raises or returns without acting (`Decline`), which `index.php` answers with status 200
like everything else, so that `HandlerCalls` speaks of an answer and not of success.
Neither the backlog nor a worker notices that nginx gave up, unless output is flushed
(`Flush`).

### Boot

`pc` walks through `start_server.sh`, twice in parallel when somebody runs the script
in the running container (`Again`), at whatever line the entry script is. `conf` is a
template, the port written into it, or `broken`: empty, or put together from two texts. The
line with awk has three steps, since the shell empties `nginx.conf.tmp` (`Redirect`) before
awk writes (`Awk`) and mv renames (`Mv`); `out` is the name that the open file of a running
awk has by now, for another script may have moved it. nginx may fail at its start, whose
exit status the script does not look at, and may die; each script has a php-fpm of its own,
of which only one gets the socket. The entry script stays with its php-fpm; when that is
gone it ends, and the container with it. `Crash` kills the container between any two steps;
files stay. `failed` and `raced` are history variables: nginx has failed in this container,
and two scripts have been starting at the same time.

### Values

A zval is undefined, a scalar, an array or a reference; arrays and references are cells
with a count. An array has one element, which is enough to nest arrays and references
in each other; freeing is a step per cell (`trash`). Objects as values and immutable
arrays are left out: `Value` copies neither. An element that is not there is a scalar
(null), as `get` of a string key gives; the Error that an integer index raises is in
`PyPhpBridge` (`At`). Two history variables say where the counts go wrong: `lost` are the
zvals that `operator=` overwrites without a release, at most `MaxLost` of them, and `broken`
is set by the two operations that leave a zval held and not counted, the move assignment
from or to a reference (`MoveAssign`) and the detach for a write in `toZval`
(`DetachForWrite`). What becomes of a broken heap is not followed further.

### ObjectHandlers

One object of a class that overrides any choice of methods. `native` is what the C++
object keeps, `table` PHP's own property table; every handler asks the C++ class and
falls back on PHP (`Ask`). `out` is the last operation with its result and whether C++
code threw. The iterator of `foreach` holds the object twice, as the engine's iterator
(`IteratorData`) and as a member of the extension's (`IteratorObject`), which its
destructor gives up one after the other. `request` has the phases of the end of a request:
the script is through or a fatal error has ended it, and shutdown functions and destructors
run; then everything is freed, object and iterator in either order; or an exception has
escaped into the engine.

### ExtensionLife

The extension is started with the engine (`ini`) or by `dl()` for one request. Module
numbers are the size of the registry plus one, so that they are used again. `unmaps`
says whether `dlclose` takes the static extension object away. If it does not, the classes
of earlier loads are still in the object; `registered` is the one that the engine has under
the name of the class, after all of them were registered one over the other.

## Runs

| Run | Question | Bounds, distinct states |
|---|---|---|
| `dcw` | whatever PHP code does: never anonymous, no stray error, nothing outlives the wrappers, the client is never swapped; while it keeps to one wrapper: always the running interpreter, always its own credentials | 3 objects, 3 tokens, 2 urls; 37 thousand up to symmetry |
| `rh` | what the client of the provider receives, with everything around the handler code that may fail; every request ends | 1 print, 2 buffers, 1 error handler, 1 step of code left behind; 1.1 million |
| `worker` | nothing is left behind by handlers with wrappers of their own; requests that use the client they are given implement `IsolatedCalls` | 2 objects, 1 token and the empty one, 4 requests, no prints, 1 step of code left behind; 1.2 million up to symmetry |
| `pool` | `Pool` implements `HandlerCalls`, an attempt is in one place, kills hit nobody who waits; nobody waits in the backlog for ever, abandoned work ends | 2 workers, an outer and an inner call, 2 tries each, backlog 1; 217 thousand |
| `boot` | serves on its port with its `.env`, as far as nginx and a second script allow; gets to php-fpm, or stops | 2 ports, 3 starts; 41 thousand |
| `bridge` | what the conversions refuse and keep | all values of depth two with two entries per container; 106 thousand |
| `py_references` | no Python object is freed in use, what a call loses at most | 11 objects, arrays of 2, depth 2, 2 calls; 2 million |
| `values` | counts are holders and known losses, copy on write | 3 variables, 4 cells, 1 loss; 180 thousand up to symmetry |
| `objects` | handlers agree with each other, the iterator keeps the object | 16 choices of property methods, with the rest or without; 2 million |
| `extension` | classes, functor entry and numbers follow the module, PHP sees the newest class | 2 starts, 3 requests, 2 other modules; 618 |
| `rh_document`, `worker_jwt` | sentences of the README that the code does not keep | stop at the violation |

Why the bounds suffice. Three objects give every order in which two objects outlive the
one that finalizes the interpreter; two tokens and the empty one tell apart "its own",
"another" and "none". Two buffers are execute's and one of the handler's, or execute's
left open and the handler's above it; with a print, a diagnostic and the document there
are three kinds of text whose order shows, and one step of code left behind comes after
the return or after the document. The theorems of `RequestHandlerProofs` hold for every
value of these bounds. The worker run has no faults, prints or further buffers, which
the wrapper has nothing to do with. It starts from an idle worker and comes back to it,
so that every pair of consecutive requests is explored. It has one token and the empty
one: the code compares tokens with the empty string and with nothing else, so that a
client of an earlier request shows in one that brought no token as it would in one that
brought another. `MCRequests` has one request for each way through `index.php`; `rh`
enumerates all of them. Two workers and a backlog let an outer call hold each worker
while an inner one waits behind them, which is how everybody comes to wait for
everybody; a backlog of one is full while an attempt waits in it, and with `MaxRequests`
of two workers are recycled in between. Three starts are a first one, one after a crash
and one after that. Three variables are two that share and one that writes. `bridge`
stops after `MaxHops` conversions, which is why it does not check for deadlock; `boot`,
`py_references` and `extension` end at the bounds on starts, calls and requests,
`objects` when the object is freed or an exception has escaped, and `values` when a heap
is broken.

Fairness. In `rh`: PHP goes on with what it is doing (weak fairness of
`SystemStep`), and php-fpm ends a request that takes longer than
`request_terminate_timeout` (weak fairness of `Die`). Nothing is assumed of handler
code. Without the fairness of `Die`, code that never ends is a counterexample.
In `pool`: clocks run and timers fire, the master replaces and forks workers, and
some idle worker accepts what waits; nothing is assumed of handlers, Deep or callers,
so that `request_terminate_timeout` alone frees workers that wait for each other. In
`boot`: the shell goes on with each script and php-fpm gets to listen on its socket, or
ends when another has it; nobody has to start the container, and nothing has to fail.

### What the violations show

* `rh_document`: `execute` has no `finally`. Code that prints and then raises leaves
  its output buffer open; Slim echoes the document into it, and what reaches the
  client is the printed text followed by the document. `EnvelopeIsLast` is what does
  hold: the document is there once, and last, as long as no code left behind and no buffer
  callback of the handler's gets at it.
* `worker_jwt`: a second wrapper that is called first lends its token to the
  request's own client, since all wrappers of a worker share the cached client.
  `Isolation` is what does hold, for handlers that use the client they are given.

### Where the code differs from its comments

The models follow the code; these differences were met on the way and have no run of
their own.

* `/init` answers POST only, and so do `/call` and `/http-call`; `README.md` documents
  them as GET (too). A GET is answered by the default error handler (`NoRoute`).
* `start_server.sh:27` "update nginx port with the specified value": `${PORT}` is
  replaced in place, so that a later script with another `PORT` finds nothing to replace
  (`Awk`), and a running nginx is not reloaded (`Nginx`).
* `start_server.sh:10` "Function to restart PHP-FPM": running the script again restarts
  nothing. Its `kill -9` makes the entry script come back from php-fpm and end, and the
  container with it (`Kill`, `FpmReturns`, `Sleep`).
* `start_server.sh:16`: the exit status of nginx is ignored and the script waits for php-fpm
  only, so that a container whose nginx failed or died stays up without one. `FpmOrStops`
  and `ServesOrStops` say what is left, `failed` and `raced` are their exceptions.
* `include/value.h:12` "The PHP-CPP Value class takes care of" reference counts. Three
  operations do not: `operator=` duplicates a shared array and overwrites the duplicate
  (`value.cpp:416`), the move assignment copies over a reference, or from one, without
  counting (`value.cpp:359`), and `detach(false)` gives up a count while `toZval` goes on to
  use the zval (`value.cpp:302`, with a FIXME, and `classimpl.cpp:818`). `CountsAddUp` is what
  holds of all the others. The extension of this repository assigns no such values and has
  no properties to write to.
* `value.cpp:1606` "if this is not a reference variable, we should detach it", and
  `value.cpp:220`, which likens a reference to `$a = &$b`: `set()` detaches reference
  variables too, by way of `convert_to_array` (`Unwrapped`), so that the others do not see the
  write; `unset()` through a reference deletes in an array that variables without a reference
  may share (`value.cpp:1718`, `Unset`). `OthersKeepTheirArrays` is about variables that are
  no reference.
* `classimpl.cpp:726` "the user wants to know if the property is empty": the engine
  negates the answer of `hasDimension`, so that `empty($o[$k])` is the wrong way round.
* `classimpl.cpp:1000`: `hasProperty` is true of every callback property, also where the
  getter gives null; `PropertiesAgree` is about the other properties.
* `classimpl.cpp:1095` "callback properties cannot be unset": after `__unset` has removed a
  property that is no callback, the handler falls through to the same E_ERROR.
* `classimpl.cpp:1291` "send it to user space": the call of `rethrow` in `unserialize` is
  commented out. The other handlers rethrow; `cloneObject` (`classimpl.cpp:524` and `541`) and
  `createObject` (`1171`) have no try at all (`DeepClientWrapper`), nor has the iterator.
* `extension.cpp:97` on the lock: the shutdown opens it while the classes stay, so that
  `get_module` adds the class again at every load when the image stays mapped, and
  `initialize` (`extensionimpl.cpp:373`) registers all of them. `NewestClassIsSeen` is what
  does hold.

The client class of this repository has neither offsets nor callback properties nor
magic methods, so that none of the differences in `classimpl.cpp` shows in it.

`py_references` bounds a leak: every call loses the function, its
result, the argument tuple and its arguments, up to seven references, until the
interpreter is finalized at the end of the request.

## Proofs

A theorem holds for every value of the constants that satisfies the named assumptions,
which TLC evaluates on the instances of the runs. Each module states one inductive
invariant as a conjunction of named parts, shows that every action keeps it, and derives
the properties that the runs check from it. The invariants were first checked with TLC.

**DeepClientWrapperProofs**, for every set of objects, tokens and urls. `EmptyAssumption`:
the empty string is a token and a url. `NoneAssumption`: null is none of them.

* `TypeCorrect`, `AnyUseSendsCredentials`, `PendingErrorIsOfThisInterpreter`,
  `LastWrapperTakesAll`: `TypeOK`, `NeverAnonymous`, `PendingErrorHasOrigin` and
  `NothingOutlivesWrappers` under any use of the class. None but the first is inductive.
  `AnyInv` adds that the interpreter is up only while a wrapper is alive, that a module is
  valid only while the interpreter is up, and that a cached client lives in a running
  interpreter and is made of a token and a url that are not empty.
* `ClientSticks`: the action property `ClientSticksToInterpreter`, from `AnyInv`.
* `SoleUseIsValid`, `SoleUseActsAsOwner`: `SoleModuleValid` and `SoleActsAsOwner`. `SoleInv`
  adds that while `sole` holds at most one object is alive, and that the cached client, if
  any, is that of the live object, which is `ready` and will not be constructed again. This
  is why caching a client without a key is safe in `index.php`; that `sole` may become true
  again when the last wrapper goes rests on `NothingOutlivesWrappers`.

**RequestHandlerProofs**, for any number of prints, buffers, error handlers and steps of
code left behind, and whatever may fail (`BoundsAssumption`: the bounds are natural numbers,
and there is room for execute's error handler).

* `RequestTypes`, `EnvelopeComesLast`, `CleanHandlersGetOneDocument`,
  `HandlersResolveToTheirOutput`, `NoSilenceWithoutACause`, `ExecuteCleansUp`: all six
  invariants of the module. What the client receives depends on where the text is at every
  line of `index.php` until then, so `RequestInv` follows it: what the line says of the
  variables (`Control`), why there may be no reply (`Excuses`), what a handler that
  kept its hands off the buffers has left there (`Unspoilt`), what `result` holds
  (`Outcome`), and that the document is nowhere before it is echoed, then at the end of the
  active buffer, and after the flush at the end of the body, unless code left behind or a
  callback got at it (`Document`), and that nothing else is in the body of a request that
  nothing spoils (`Pure`).

**WorkerProofs**, from `WorkerAssumption` (those of both components together),
`UrlAssumption` (the url that `index.php` reads from the environment is not empty) and
`RequestsAssumption`.

* `WorkerRunsTheHandler`: `Spec => R!Spec`, the worker implements `RequestHandler`, so that
  the theorems above hold in it.
* `IdleWorkersAreClean`: `IdleIsClean`.
* `HandlersAreIsolated`: `Isolation`, the worker implements `IsolatedCalls` under the
  mapping in `Worker.tla`. `WorkerInv` is `RequestInv` and `SoleInv` of the two components
  and what only holds of their composition: a handler that keeps to the client it is given
  still has its wrapper, constructed once and with the token of its request (`Place`), and
  nothing is said to have been sent once every wrapper is gone (`SentByALiveWrapper`). A step of the
  wrapper is taken over from its component proof, as is a step of the handler.

**PoolProofs**, for any workers, calls and limits. `PoolAssumption`: null is no worker,
call or attempt, and the limits are those php-fpm accepts. `TimeoutAssumption`: nginx's
timeout is the shorter one.

* `PoolTypes`, `AttemptsHaveOnePlace`: `TypeOK` and `OnePlace`.
* `KillsAreAfterTheReport`: the action property `KillHitsNobodyWaiting`, from `Clocks`: an
  attempt has been waited for at least as long as it has been running.
* `PoolKeepsItsPromise`: `AtMostOncePerAttempt`, that is, `Pool` implements `HandlerCalls`.
  `PoolInv` adds that attempts are numbered by the tries made (`Numbered`), that
  exactly the busy workers have a job (`Employed`), and that the attempt of a busy worker has
  not acted before its handler comes to that line, nor one in the backlog (`Acted`).
  `OnePlace` is what keeps a second worker from acting for it.

**StartProofs**, about the start script for any ports (`PortsAssumption`: neither null nor
the template is a port) and any number of starts (`BootsAssumption`), and about the
extension for any number of starts, requests and other modules.

* `BootTypes`, `BootServesAsConfigured`: `TypeOK` and `ServesAsConfigured`. `BootInv` says
  that a php-fpm runs only where `.env` has been copied (`Copied`) and, as long as no two
  scripts have raced, that whatever a crash has left in the files names this port or none
  (`FilesAreOurs`), that a second script only runs under an entry script that has come to
  its php-fpm (`SecondUnderEntry`), and which lines the entry script has behind it
  (`EntryHasDone`).
* `ClassesComeAndGo`, `NewestClassWins`: `ClassesFollowModule` and `NewestClassIsSeen` of
  `ExtensionLife`, whose specification is named `EngineSpec` so that one module can extend
  both. `LifeInv` ties the state of the module to the phase of the engine
  (`ModuleFollowsPhase`) and says that what extension and engine keep of each other is there
  exactly while it is started (`KeptWhileStarted`).

**ValuesProofs**, for any finite sets of values and cells (`ValuesAssumption`; a count is a
number of holders, which must be finite).

* `ValuesTypes`, `CountsAlwaysAddUp`: `TypeOK` and `CountsAddUp`. `ValuesInv` says that the
  heap is well formed (what an element points to is live, a free cell has no element, a
  reference holds no reference), that what variables and zvals in release point to is live
  too, that at most one zval is being released, and that the books balance: the count of a
  cell, less the elements that point to it, is the number of variables, of zvals in release
  and of lost zvals that do. Every operation is a sequence of a few changes of the heap (add or
  drop a reference, allocate, set an element, free, duplicate); a lemma for each says what it
  does to the balance, and the proof for an operation adds these up.
* `WritesStayPrivate`: the action property `OthersKeepTheirArrays`. By the balance, a count
  of one means that there is no other holder; this is the fact that copy on write
  rests on, and the one that makes it safe to free a cell.

**ObjectHandlersProofs**, for any names and callbacks (`NamesAssumption`: no property has
the name of a callback).

* `IteratorsKeepTheirObject`: `IteratorKeepsObject`; `HoldersKeepObject` adds that what PHP
  code has hold of is not freed.
* `ReadsAgree`: `PropertiesAgree`, for classes that override the magic methods together
  (`AgreeInv`).

**PyReferencesProofs**, for any number of objects, elements, levels and calls
(`BoundsAssumption`: the bounds are natural numbers and there is room for the function).

* `CountsAlwaysCoverHolders`: `CountsCoverHolders`. An equation between a count and
  a number of holders is not inductive: a step that moves a reference must know that the
  object was where it is taken from, once. `CountInv` adds how far the call has come
  (`Progress`), that what is still being built has a count of one and so, by the
  equation, one holder (`BuiltAlone`), that no two of the call's locals, keys and arrays are
  the same object (`OwnedOnce`), and that no container has an element twice and a
  free one has none (`Containers`). For every action a lemma says by how much it moves the
  references of locals, keys, arrays, containers, the client and pending releases, and that
  the count moves by the sum. `PyTuple_Pack` counts an argument once for each place in
  `packed`, so `PackedOnce` is proved with it.
* `OwnedIsAlive`: whatever a local, a conversion, a pending release or a container has is not
  free, from the same invariant.
* `LossIsPerCall`: `LossPerCall`. `LossInv` bounds the loss by the calls that have ended: the
  end of a call loses each object it owns once, of which there are at most the seven locals
  or, with an array open, four and two per level. The sum of the property is
  defined by recursion over subsets. It is shown to be the number of pairs of an object and
  a number up to what is lost of it (`SumIsMarks`): both follow the
  recursion, and a least set on which they differ cannot exist (`SumUnique`).

Only model-checked:

* liveness (`EveryRequestEnds`, `BacklogDrains`, `AbandonedWorkEnds`, `FpmOrStops`,
  `ServesOrStops`), which the prover does not do under fairness;
* the conversions of `PyPhpBridge` (`RefusedExactly`, `EchoKeepsLeaves`,
  `AnswerKeepsEntries`, `AnswerCanBePassedOn`): they are RECURSIVE operators over nested
  values, and what such an operator computes for every input takes an induction over data
  that the prover cannot do.

## Not modelled

Bundled third-party sources (`zend_headers`, `ext_php_headers`, `php_headers`, `TSRM`,
`config`, `python`, together more than 95% of the lines of the repository): the PHP engine
and its extensions, the headers of CPython and of libraries it comes with. They are
modelled only where the provider relies on them: output buffers, request shutdown,
FastCGI connections, the object store, the module registry, arrays and references. A
map of this project therefore covers a small share of the repository's lines and most
of the provider's own.

Of PHP-CPP: namespaces, constants and ini entries (tables the extension leaves empty),
streams (one warning goes through them), the registration of methods and static members
(one pass over constant tables), operators on values, objects as values, calls of PHP
functions from C++. `processMismatch` can not happen, as the library is linked into the
extension.

`call-test` (a debugging script whose handler is commented out), the test skeletons, CI
files, the build of the image. Formatting and wording. The coroutines at the end of
`deep_client_interface.py`, which no method of the class reaches.

## Plan

The system is modelled as far as the section above says, and every safety property of the
runs is a theorem except those of `PyPhpBridge`, which stay with TLC.
