--------------------------- MODULE RequestHandler ---------------------------
(***************************************************************************)
(* src/index.php: the Slim application that one php-fpm worker runs, once   *)
(* per request.  The module follows a request from routing to the end of    *)
(* PHP's request shutdown, with the state the handler shares with the code  *)
(* it evaluates: the stack of output buffers, the error handlers, the       *)
(* exception in flight and the headers.                                     *)
(*                                                                          *)
(* The handler code that arrives in a request is the environment: it may    *)
(* print, raise a PHP error and catch what becomes of it, throw, open or    *)
(* close output buffers, with callbacks or without, change the error        *)
(* handlers, leave code behind (a shutdown function, an object with a       *)
(* destructor) that runs after it, exit, or never end.  Text is abstracted  *)
(* to a sequence of segments:                                               *)
(*   "out"  text printed by the handler code, valid UTF-8                   *)
(*   "bin"  bytes printed by the handler code that are not UTF-8            *)
(*   "diag" a diagnostic that PHP itself displays (display_errors = 1)      *)
(*   "json" one encoded { resolved | rejected } or {} document              *)
(*   "log"  the text of the logger's own failure                          *)
(***************************************************************************)
EXTENDS Naturals, Sequences

CONSTANTS Requests,    \* the <<method, path, body>> that may arrive
          Faults,      \* what may fail around the handler code: "prologue", "dl", "log",
                       \* "memory"; with "binary" it writes bytes that are not UTF-8
          MaxPrints,   \* bound: segments one handler prints
          MaxBuffers,  \* bound: depth of the stack of output buffers
          MaxHandlers, \* bound: depth of the stack of error handlers
          MaxLate      \* bound: steps of the code that one handler leaves behind

ASSUME BoundsAssumption ==
    /\ MaxPrints \in Nat /\ MaxBuffers \in Nat /\ MaxHandlers \in Nat \ {0}
    /\ MaxLate \in Nat

Methods == {"GET", "POST"}
Paths == {"/", "/healthz", "/init", "/call", "/http-call", "/other"}

\* What json_decode makes of the body: "falsy" is an error or an empty value
\* ({}, [], 0, "", null), "full" has the documented params, "bare" has no
\* params.data, or params that are no strings where strings are expected.
Bodies == {"falsy", "bare", "full"}

ASSUME RequestsAssumption == Requests \subseteq Methods \X Paths \X Bodies

VARIABLES
    pc,        \* where the request is
    req,       \* method, path and shape of the body
    buffers,   \* PHP's output buffers, the last one is active
    callbacks, \* the depths of the buffers that were opened with a callback
    handlers,  \* how many error handlers are installed, execute's included
    exc,       \* the exception in flight: its class, is its text UTF-8, and is
               \* it of the handler code or of the logger?
    result,    \* $result / $resultFromFunction: the text under "resolved"
    reply,     \* the PSR-7 response built so far
    headers,   \* "unsent", or the content type set by Slim or sent
    body,      \* what left the worker towards nginx
    printed,   \* what the handler code printed while execute ran (history)
    tampered,  \* did it change buffers or error handlers itself? (history)
    raised,    \* did the handler code raise or throw? (history)
    causes,    \* what may keep the document from the client (history)
    late,      \* how much the code that the handler left behind has still to do
    log,       \* the stream of the logger, "closed" until the first record
    answer,    \* the answer to the last request
    process    \* the worker process: "running" or "dead"

vars == <<pc, req, buffers, callbacks, handlers, exc, result, reply, headers, body,
          printed, tampered, raised, causes, late, log, answer, process>>

\* Groups of variables, for UNCHANGED.
output == <<buffers, callbacks, headers, body>>
history == <<printed, tampered, raised, causes, late, log>>

PlainRoutes == {<<"GET", "/">>, <<"GET", "/healthz">>, <<"POST", "/init">>}
ExecutorRoutes == {<<"POST", "/call">>, <<"POST", "/http-call">>}

NoReq == [method |-> "none", path |-> "none", body |-> "none"]
NoExc == [class |-> "none", utf8 |-> TRUE, of |-> "code"]
LogExc(class) == [class |-> class, utf8 |-> TRUE, of |-> "log"]
NoReply == [kind |-> "none", text |-> <<>>, type |-> "none"]
NoAnswer == [how |-> "none", req |-> NoReq, body |-> <<>>, kind |-> "none",
             text |-> <<>>, type |-> "none", printed |-> <<>>,
             tampered |-> FALSE, raised |-> FALSE, causes |-> {}]

Classes == {"ErrorException", "Exception", "Error"}
Segments == {"out", "bin", "diag", "json", "log"}

\* What may keep the document from the client.  The script does not get as far as
\* Slim's emitter: the prologue fails, the handler code exits, an Error has a text
\* that is not UTF-8, the log fails, the memory is exhausted.  Or something is put
\* before the document, or done to it: the notice of dl(), the callback of a
\* buffer, code that ran after the handler.
Silencers == {"prologue", "exit", "binary", "log", "memory"}
Causes == Silencers \cup {"dl", "callback", "late"}

\* The text of a caught PHP error or exception, and of ob_get_clean() = false.
ErrorText == <<"diag">>
NoBuffer == <<"false">>

getMessage(e) ==
    IF ~e.utf8 THEN <<"bin">> ELSE IF e.of = "log" THEN <<"log">> ELSE ErrorText

Encodable(text) == \A i \in 1..Len(text) : text[i] # "bin"

Init ==
    /\ pc = "idle"
    /\ req = NoReq
    /\ buffers = <<>>
    /\ callbacks = {}
    /\ handlers = 0
    /\ exc = NoExc
    /\ result = <<>>
    /\ reply = NoReply
    /\ headers = "unsent"
    /\ body = <<>>
    /\ printed = <<>>
    /\ tampered = FALSE
    /\ raised = FALSE
    /\ causes = {}
    /\ late = 0
    /\ log = "closed"
    /\ answer = NoAnswer
    /\ process = "running"

Goto(l) == pc' = l
At(l) == process = "running" /\ pc = l

-----------------------------------------------------------------------------
(***************************************************************************)
(* PHP's output layer.                                                      *)
(***************************************************************************)

\* Text goes to the active buffer; with no buffer it leaves the worker, which
\* sends the headers first when they are not sent yet.
Write(text) ==
    IF buffers = <<>>
    THEN /\ body' = body \o text
         /\ headers' = IF headers = "unsent" THEN "text/html" ELSE headers
         /\ UNCHANGED <<buffers, callbacks>>
    ELSE /\ buffers' = [buffers EXCEPT ![Len(buffers)] = @ \o text]
         /\ UNCHANGED <<callbacks, headers, body>>

Below == SubSeq(buffers, 1, Len(buffers) - 1)
Active == buffers[Len(buffers)]

\* What a flush passes on: the contents, or what the callback that the buffer was
\* opened with makes of them: the same, nothing, or something else (bound: nothing of
\* an empty buffer, or opening and ending buffers would print without end).
Flushed ==
    IF Len(buffers) \in callbacks /\ Active # <<>> THEN {Active, <<>>, <<"out">>} ELSE {Active}

\* Ends the active buffer and passes "text" on to the one below it.  Only text that
\* is not empty sends the headers.
EndFlush(text) ==
    /\ callbacks' = callbacks \ {Len(buffers)}
    /\ IF Len(buffers) = 1
       THEN /\ buffers' = <<>>
            /\ body' = body \o text
            /\ headers' = IF headers = "unsent" /\ text # <<>> THEN "text/html" ELSE headers
       ELSE /\ buffers' = [Below EXCEPT ![Len(Below)] = @ \o text]
            /\ UNCHANGED <<headers, body>>

\* Ends the active buffer and drops its contents.
EndClean ==
    /\ buffers' = Below
    /\ callbacks' = callbacks \ {Len(buffers)}
    /\ UNCHANGED <<headers, body>>

-----------------------------------------------------------------------------
(***************************************************************************)
(* $logger->info(), before the text "then" is written (none: <<>>).  The    *)
(* StreamHandler opens the log for the first record and throws an           *)
(* UnexpectedValueException when it can not; a record that can not be       *)
(* written is a notice, which execute's error handler, if it is still       *)
(* installed, turns into an ErrorException after it tried to log it itself. *)
(***************************************************************************)

Put(text) == IF text = <<>> THEN UNCHANGED output ELSE Write(text)

Logs(then) ==
    /\ log' = "open"
    /\ \/ Put(then) /\ UNCHANGED causes
       \/ /\ "log" \in Faults /\ handlers = 0
          /\ Put(ErrorText \o then)
          /\ causes' = causes \cup {"log"}

LogRaises(class, then) ==
    /\ "log" \in Faults
    /\ \/ class = "Exception" /\ log = "closed" /\ UNCHANGED log /\ Put(then)
       \/ /\ class = "ErrorException" /\ handlers > 0
          /\ log' = "open"
          /\ Put(then) \/ Put(ErrorText \o then)
    /\ exc' = LogExc(class)
    /\ causes' = causes \cup {"log"}

-----------------------------------------------------------------------------
(***************************************************************************)
(* Routing.                                                                 *)
(***************************************************************************)

Receive(r) ==
    /\ At("idle")
    /\ req' = [method |-> r[1], path |-> r[2], body |-> r[3]]
    /\ Goto("start")
    /\ answer' = NoAnswer
    /\ UNCHANGED <<output, handlers, exc, result, reply, history, process>>

\* The prologue of index.php.  An extension that dl() cannot load is a warning, which
\* PHP displays; without the autoloader or the .env file the script ends there.
Prologue ==
    /\ At("start")
    /\ \/ Goto("route") /\ UNCHANGED <<output, causes>>
       \/ /\ "dl" \in Faults
          /\ Goto("route") /\ Write(ErrorText) /\ causes' = causes \cup {"dl"}
       \/ /\ "prologue" \in Faults
          /\ Goto("shutdown") /\ Write(ErrorText) /\ causes' = causes \cup {"prologue"}
    /\ UNCHANGED <<req, handlers, exc, result, reply, printed, tampered, raised, late, log,
                   answer, process>>

\* GET / and /healthz and POST /init answer {}.
PlainRoute ==
    /\ At("route")
    /\ <<req.method, req.path>> \in PlainRoutes
    /\ reply' = [kind |-> "plain", text |-> <<>>, type |-> "text/html"]
    /\ Goto("emit")
    /\ UNCHANGED <<req, output, handlers, exc, result, history, answer, process>>

ExecutorRoute ==
    /\ At("route")
    /\ <<req.method, req.path>> \in ExecutorRoutes
    /\ Goto("decode")
    /\ UNCHANGED <<req, output, handlers, exc, result, reply, history, answer, process>>

\* Slim throws HttpNotFoundException or HttpMethodNotAllowedException, which
\* the error middleware passes to the default error handler.
NoRoute ==
    /\ At("route")
    /\ <<req.method, req.path>> \notin PlainRoutes \cup ExecutorRoutes
    /\ exc' = [NoExc EXCEPT !.class = "Exception"]
    /\ Goto("errorHandler")
    /\ UNCHANGED <<req, output, handlers, result, reply, history, answer, process>>

-----------------------------------------------------------------------------
(***************************************************************************)
(* handleRequestExecutor.                                                   *)
(***************************************************************************)

\* A falsy decoded body is reported as unparsable JSON.
DecodeFails ==
    /\ At("decode")
    /\ req.body = "falsy"
    /\ \/ /\ Logs(<<>>)
          /\ reply' = [kind |-> "rejected", text |-> ErrorText, type |-> "application/json"]
          /\ Goto("emit")
          /\ UNCHANGED exc
       \/ /\ \E class \in Classes : LogRaises(class, <<>>)
          /\ Goto("errorHandler")
          /\ UNCHANGED reply
    /\ UNCHANGED <<req, handlers, result, printed, tampered, raised, late, answer, process>>

Decode ==
    /\ At("decode")
    /\ req.body # "falsy"
    /\ Goto("create")
    /\ UNCHANGED <<req, output, handlers, exc, result, reply, history, answer, process>>

\* new DeepClientPhpWrapper($jwt, $url): the object is created, which may kill
\* the process (DeepClientWrapper!CreateImportFails), then constructed; $jwt
\* and $url are never null here, so that the constructor does not throw.
CreateClient ==
    /\ At("create")
    /\ "dl" \notin causes
    /\ Goto("construct")
    /\ UNCHANGED <<req, output, handlers, exc, result, reply, history, answer, process>>

\* Without the extension there is no such class: an Error, which neither clause
\* of handleRequestExecutor catches.
NoClass ==
    /\ At("create")
    /\ "dl" \in causes
    /\ exc' = [NoExc EXCEPT !.class = "Error"]
    /\ Goto("errorHandler")
    /\ UNCHANGED <<req, output, handlers, result, reply, history, answer, process>>

ConstructClient ==
    /\ At("construct")
    /\ Goto("arguments")
    /\ UNCHANGED <<req, output, handlers, exc, result, reply, history, answer, process>>

\* $params['data'] is evaluated, and the code put together, before execute has
\* installed anything: PHP displays the notices of a bare body.
EvalArguments ==
    /\ At("arguments")
    /\ IF req.body = "bare" THEN Write(ErrorText) ELSE UNCHANGED output
    /\ Goto("execute")
    /\ UNCHANGED <<req, handlers, exc, result, reply, history, answer, process>>

\* CodeExecutor::execute up to the eval: ob_start(), set_error_handler().
Execute ==
    /\ At("execute")
    /\ buffers' = Append(buffers, <<>>)
    /\ handlers' = handlers + 1
    /\ Goto("eval")
    /\ UNCHANGED <<req, callbacks, exc, result, reply, headers, body, history, answer, process>>

\* Mutants of Leave: restore_error_handler() is forgotten; the buffer is read
\* with ob_get_contents(), which does not end it.
LeaveNoRestore ==
    /\ At("leave")
    /\ IF buffers = <<>>
       THEN result' = NoBuffer /\ UNCHANGED output
       ELSE result' = Active /\ EndClean
    /\ Goto("return")
    /\ UNCHANGED <<req, handlers, exc, reply, history, answer, process>>

LeaveNoClean ==
    /\ At("leave")
    /\ handlers' = IF handlers = 0 THEN 0 ELSE handlers - 1
    /\ result' = IF buffers = <<>> THEN NoBuffer ELSE Active
    /\ Goto("return")
    /\ UNCHANGED <<req, output, exc, reply, history, answer, process>>

\* The end of execute: restore_error_handler() drops whatever handler is on top,
\* ob_get_clean() takes whatever buffer is active and returns false when there
\* is none.
Leave ==
    /\ At("leave")
    /\ handlers' = IF handlers = 0 THEN 0 ELSE handlers - 1
    /\ IF buffers = <<>>
       THEN result' = NoBuffer /\ UNCHANGED output
       ELSE result' = Active /\ EndClean
    /\ Goto("return")
    /\ UNCHANGED <<req, exc, reply, history, answer, process>>

\* execute returns: PHP frees its variables, which are those of the evaluated code.
Return ==
    /\ At("return")
    /\ Goto("resolve")
    /\ UNCHANGED <<req, output, handlers, exc, result, reply, history, answer, process>>

\* Mutant of CatchErrorException: the inner clause takes every Exception.
CatchAnyException ==
    /\ At("catch")
    /\ exc.class \in {"ErrorException", "Exception"}
    /\ \/ /\ Logs(<<>>)
          /\ result' = getMessage(exc)
          /\ exc' = NoExc
          /\ Goto("resolve")
       \/ /\ \E class \in Classes : LogRaises(class, <<>>)
          /\ Goto("outer")
          /\ UNCHANGED result
    /\ UNCHANGED <<req, handlers, reply, printed, tampered, raised, late, answer, process>>

\* catch (ErrorException $e), the inner clause.  execute was left by unwinding:
\* its buffer and its error handler stay where they are.  What the logger throws
\* here is caught by the outer clause.
CatchErrorException ==
    /\ At("catch")
    /\ exc.class = "ErrorException"
    /\ \/ /\ Logs(<<>>)
          /\ result' = getMessage(exc)
          /\ exc' = NoExc
          /\ Goto("resolve")
       \/ /\ \E class \in Classes : LogRaises(class, <<>>)
          /\ Goto("outer")
          /\ UNCHANGED result
    /\ UNCHANGED <<req, handlers, reply, printed, tampered, raised, late, answer, process>>

\* A PHP Error is no Exception: it passes both clauses and leaves the handler.
CatchNothing ==
    /\ At("catch")
    /\ exc.class = "Error"
    /\ Goto("errorHandler")
    /\ UNCHANGED <<req, output, handlers, exc, result, reply, history, answer, process>>

\* json_encode() returns false for text that is not UTF-8, and writing false to
\* the response body is a TypeError, which is no Exception either.  Either way
\* handleRequestExecutor is left, and $result is gone.
Respond(kind, text) ==
    /\ result' = <<>>
    /\ IF Encodable(text)
       THEN /\ reply' = [kind |-> kind, text |-> text, type |-> "application/json"]
            /\ exc' = NoExc
            /\ Goto("emit")
       ELSE /\ exc' = [NoExc EXCEPT !.class = "Error"]
            /\ Goto("errorHandler")
            /\ UNCHANGED reply

Resolve ==
    /\ At("resolve")
    /\ Respond("resolved", result)
    /\ UNCHANGED <<req, output, handlers, history, answer, process>>

\* catch (Exception $e), the outer clause; what the logger throws here leaves
\* the handler.
CatchException ==
    /\ At("outer") \/ (At("catch") /\ exc.class = "Exception")
    /\ \/ Logs(<<>>) /\ Respond("rejected", getMessage(exc))
       \/ /\ \E class \in Classes : LogRaises(class, <<>>)
          /\ Goto("errorHandler")
          /\ UNCHANGED <<result, reply>>
    /\ UNCHANGED <<req, handlers, printed, tampered, raised, late, answer, process>>

-----------------------------------------------------------------------------
(***************************************************************************)
(* The handler code, evaluated by execute, and the code it leaves behind:    *)
(* destructors run when execute returns, shutdown functions and the other    *)
(* destructors first thing in the request shutdown.  (What runs while a      *)
(* throwable unwinds execute does what it could have done before the throw.) *)
(***************************************************************************)

UserCode ==
    /\ process = "running"
    /\ pc = "eval" \/ (late > 0 /\ pc \in {"return", "shutdown"})

\* A step of code that runs after the handler, which is to be blamed for what it does
Blamed == IF pc = "eval" THEN causes ELSE causes \cup {"late"}
Left == IF pc = "eval" THEN late ELSE late - 1

\* Anything that leaves output and error handlers alone, caught exceptions included
UserWork ==
    /\ UserCode
    /\ causes' = Blamed
    /\ late' = Left
    /\ UNCHANGED <<pc, req, output, handlers, exc, result, reply, printed, tampered, raised, log,
                   answer, process>>

\* echo, print_r, or the print_r of the value func() returned.
UserPrint(seg) ==
    /\ UserCode
    /\ pc = "eval" => Len(printed) < MaxPrints
    /\ printed' = IF pc = "eval" THEN Append(printed, seg) ELSE printed
    /\ Write(<<seg>>)
    /\ causes' = Blamed
    /\ late' = Left
    /\ UNCHANGED <<pc, req, handlers, exc, result, reply, tampered, raised, log, answer, process>>

\* ob_start(), with a callback or without
UserBufferStart ==
    /\ UserCode
    /\ Len(buffers) < MaxBuffers
    /\ buffers' = Append(buffers, <<>>)
    /\ callbacks' \in {callbacks, callbacks \cup {Len(buffers) + 1}}
    /\ tampered' = TRUE
    /\ causes' = Blamed
    /\ late' = Left
    /\ UNCHANGED <<pc, req, handlers, exc, result, reply, headers, body, printed, raised, log,
                   answer, process>>

\* ob_end_clean() and ob_end_flush(); without a buffer they raise a notice.
UserBufferEnd ==
    /\ UserCode
    /\ buffers # <<>>
    /\ EndClean \/ \E text \in Flushed : EndFlush(text)
    /\ tampered' = TRUE
    /\ causes' = Blamed
    /\ late' = Left
    /\ UNCHANGED <<pc, req, handlers, exc, result, reply, printed, raised, log, answer, process>>

\* set_error_handler() and restore_error_handler()
UserHandlers ==
    /\ UserCode
    /\ \/ handlers < MaxHandlers /\ handlers' = handlers + 1
       \/ handlers > 0 /\ handlers' = handlers - 1
    /\ tampered' = TRUE
    /\ causes' = Blamed
    /\ late' = Left
    /\ UNCHANGED <<pc, req, output, exc, result, reply, printed, raised, log, answer, process>>

\* register_shutdown_function(), or an object whose destructor runs later
UserLeavesCode ==
    /\ At("eval")
    /\ late < MaxLate
    /\ late' = late + 1
    /\ UNCHANGED <<pc, req, output, handlers, exc, result, reply, printed, tampered, raised,
                   causes, log, answer, process>>

\* An uncaught throwable: code that does not parse or that calls an undefined
\* function is an Error; a handler of the code's own may throw anything.
UserThrow(class, utf8) ==
    /\ UserCode
    /\ pc # "shutdown"
    /\ exc' = [class |-> class, utf8 |-> utf8, of |-> "code"]
    /\ raised' = TRUE
    /\ causes' = IF utf8 THEN Blamed ELSE Blamed \cup {"binary"}
    /\ late' = Left
    /\ Goto("catch")
    /\ UNCHANGED <<req, output, handlers, result, reply, printed, tampered, log, answer, process>>

\* A warning or a notice runs errorHandler, which logs it and throws an
\* ErrorException, unless the logger throws first; PHP keeps the handler out of
\* the way while it runs, so that a notice of the logger's is displayed.  The
\* exception ends the handler code, or the handler code catches it and goes on
\* (bound: one notice of the logger's here).
errorHandler ==
    /\ UserCode
    /\ pc # "shutdown"
    /\ handlers > 0
    /\ \E e \in {[NoExc EXCEPT !.class = "ErrorException"], LogExc("Exception")} :
          /\ \/ e.of = "code" /\ log' = "open" /\ UNCHANGED output /\ causes' = Blamed
             \/ /\ e.of = "code" /\ log' = "open" /\ "log" \in Faults \ causes
                /\ Write(ErrorText) /\ causes' = Blamed \cup {"log"}
             \/ /\ e.of = "log" /\ log = "closed" /\ "log" \in Faults /\ UNCHANGED <<log, output>>
                /\ causes' = Blamed \cup {"log"}
          /\ \/ exc' = e /\ raised' = TRUE /\ Goto("catch")
             \/ UNCHANGED <<exc, raised, pc>>
    /\ late' = Left
    /\ UNCHANGED <<req, handlers, result, reply, printed, tampered, answer, process>>

\* With no error handler left, PHP displays the warning; in the request shutdown it
\* displays what nothing catches.
UserWarning == errorHandler \/ ((handlers = 0 \/ pc = "shutdown") /\ UserPrint("diag"))

\* func() returns and its value has been printed.
UserReturn ==
    /\ At("eval")
    /\ Goto("leave")
    /\ UNCHANGED <<req, output, handlers, exc, result, reply, history, answer, process>>

\* exit() ends the script, a fatal error displays a diagnostic first.  Nothing after
\* the eval runs, not even Slim's emitter.
UserExit ==
    /\ UserCode
    /\ pc # "shutdown"
    /\ UNCHANGED output \/ Write(ErrorText)
    /\ causes' = Blamed \cup {"exit"}
    /\ late' = Left
    /\ exc' = NoExc
    /\ Goto("shutdown")
    /\ UNCHANGED <<req, handlers, result, reply, printed, tampered, raised, log, answer, process>>

-----------------------------------------------------------------------------
(***************************************************************************)
(* The end of a request.                                                    *)
(***************************************************************************)

\* Mutant of ErrorHandler: an Error is not taken, as if it were declared for
\* Exceptions only.
ErrorHandlerExceptionsOnly ==
    /\ At("errorHandler")
    /\ exc' = NoExc
    /\ IF exc.class = "Exception"
       THEN /\ reply' = [kind |-> "rejected", text |-> getMessage(exc), type |-> "text/html"]
            /\ Goto("emit")
            /\ UNCHANGED output
       ELSE /\ Write(ErrorText)
            /\ Goto("shutdown")
            /\ UNCHANGED reply
    /\ UNCHANGED <<req, handlers, result, history, answer, process>>

\* The default error handler: a fresh response, with no content type and with
\* status 200.  Nothing catches what its logger or its json_encode() throws: the
\* request ends in a fatal error that PHP displays.
ErrorHandler ==
    /\ At("errorHandler")
    /\ \/ /\ exc.utf8
          /\ Logs(<<>>)
          /\ exc' = NoExc
          /\ reply' = [kind |-> "rejected", text |-> getMessage(exc), type |-> "text/html"]
          /\ Goto("emit")
       \/ /\ (~exc.utf8 /\ Logs(ErrorText) /\ exc' = NoExc)
             \/ \E class \in Classes : LogRaises(class, ErrorText)
          /\ Goto("shutdown")
          /\ UNCHANGED reply
    /\ UNCHANGED <<req, handlers, result, printed, tampered, raised, late, answer, process>>

\* Slim's emitter sets the headers unless they are gone, then echoes the body
\* into whatever buffer is active.
Emit ==
    /\ At("emit")
    /\ IF buffers = <<>>
       THEN body' = Append(body, "json") /\ UNCHANGED <<buffers, callbacks>>
       ELSE /\ buffers' = [buffers EXCEPT ![Len(buffers)] = Append(@, "json")]
            /\ UNCHANGED <<body, callbacks>>
    /\ headers' = IF headers = "unsent" THEN reply.type ELSE headers
    /\ Goto("shutdown")
    /\ UNCHANGED <<req, handlers, exc, result, reply, history, answer, process>>

\* memory_limit is reached, in the handler code or anywhere else: a fatal error.
OutOfMemory ==
    /\ "memory" \in Faults
    /\ process = "running"
    /\ pc \notin {"idle", "shutdown", "flush"}
    /\ Write(ErrorText)
    /\ causes' = causes \cup {"memory"}
    /\ reply' = NoReply
    /\ exc' = NoExc
    /\ result' = <<>>
    /\ Goto("shutdown")
    /\ UNCHANGED <<req, handlers, printed, tampered, raised, late, log, answer, process>>

\* php_request_shutdown has run the shutdown functions and the destructors, the
\* logger's among them, which closes the log.
ShutdownFunctions ==
    /\ At("shutdown")
    /\ late' = 0
    /\ log' = "closed"
    /\ Goto("flush")
    /\ UNCHANGED <<req, output, handlers, exc, result, reply, printed, tampered, raised, causes,
                   answer, process>>

\* Mutant of FlushBuffer: the buffers that are left are discarded.
FlushDiscards ==
    /\ At("flush")
    /\ buffers # <<>>
    /\ EndClean
    /\ causes' = IF Len(buffers) \in callbacks THEN causes \cup {"callback"} ELSE causes
    /\ UNCHANGED <<pc, req, handlers, exc, result, reply, printed, tampered, raised, late, log,
                   answer, process>>

\* It then flushes the buffers that are left, innermost first, through their
\* callbacks; when the memory is exhausted it may discard them.
FlushBuffer ==
    /\ At("flush")
    /\ buffers # <<>>
    /\ \/ \E text \in Flushed : EndFlush(text)
       \/ "memory" \in causes /\ EndClean
    /\ causes' = IF Len(buffers) \in callbacks THEN causes \cup {"callback"} ELSE causes
    /\ UNCHANGED <<pc, req, handlers, exc, result, reply, printed, tampered, raised, late, log,
                   answer, process>>

\* Mutant of Clear: the error handlers survive the request.
ClearNoHandlers ==
    /\ buffers' = <<>>
    /\ callbacks' = {}
    /\ exc' = NoExc
    /\ result' = <<>>
    /\ reply' = NoReply
    /\ headers' = "unsent"
    /\ body' = <<>>
    /\ printed' = <<>>
    /\ tampered' = FALSE
    /\ raised' = FALSE
    /\ causes' = {}
    /\ late' = 0
    /\ log' = "closed"
    /\ UNCHANGED handlers

\* The end of a request, or of the process, puts everything back.
Clear ==
    /\ buffers' = <<>>
    /\ callbacks' = {}
    /\ handlers' = 0
    /\ exc' = NoExc
    /\ result' = <<>>
    /\ reply' = NoReply
    /\ headers' = "unsent"
    /\ body' = <<>>
    /\ printed' = <<>>
    /\ tampered' = FALSE
    /\ raised' = FALSE
    /\ causes' = {}
    /\ late' = 0
    /\ log' = "closed"

\* The request is over and PHP resets the state of the worker.
Finish ==
    /\ At("flush")
    /\ buffers = <<>>
    /\ answer' = [how |-> IF reply = NoReply THEN "cut" ELSE "emitted",
                  req |-> req, body |-> body, kind |-> reply.kind,
                  text |-> reply.text, printed |-> printed,
                  type |-> IF headers = "unsent" THEN "text/html" ELSE headers,
                  tampered |-> tampered, raised |-> raised, causes |-> causes]
    /\ Goto("idle")
    /\ req' = NoReq
    /\ Clear
    /\ UNCHANGED process

\* Mutant of Die: no request_terminate_timeout while handler code runs.
DieNoTimeout ==
    /\ process = "running"
    /\ pc \notin {"idle", "eval"}
    /\ process' = "dead"
    /\ Goto("dead")
    /\ Clear
    /\ UNCHANGED <<req, answer>>

\* request_terminate_timeout is over, or the process crashed.
Die ==
    /\ process = "running"
    /\ pc # "idle"
    /\ process' = "dead"
    /\ Goto("dead")
    /\ Clear
    /\ UNCHANGED <<req, answer>>

\* The master starts a new worker; nginx reports the lost request as a 502.
Respawn ==
    /\ process = "dead"
    /\ process' = "running"
    /\ answer' = [NoAnswer EXCEPT !.how = "lost", !.req = req]
    /\ Goto("idle")
    /\ req' = NoReq
    /\ Clear

-----------------------------------------------------------------------------

\* The steps of src/index.php, of Slim and of the PHP engine.
SystemStep ==
    \/ Prologue \/ PlainRoute \/ ExecutorRoute \/ NoRoute
    \/ DecodeFails \/ Decode \/ CreateClient \/ NoClass \/ ConstructClient \/ EvalArguments
    \/ Execute \/ Leave \/ Return
    \/ CatchErrorException \/ CatchException \/ CatchNothing \/ Resolve
    \/ ErrorHandler \/ Emit \/ ShutdownFunctions \/ FlushBuffer \/ Finish
    \/ Respawn

\* Is a text of the handler code's UTF-8?
Utf8 == IF "binary" \in Faults THEN BOOLEAN ELSE {TRUE}
Printable == {IF utf8 THEN "out" ELSE "bin" : utf8 \in Utf8}

\* The steps of the handler code and of what it leaves behind.
UserStep ==
    \/ UserWork
    \/ \E seg \in Printable : UserPrint(seg)
    \/ UserBufferStart
    \/ UserBufferEnd
    \/ UserHandlers
    \/ UserLeavesCode
    \/ UserWarning
    \/ \E class \in Classes, utf8 \in Utf8 : UserThrow(class, utf8)
    \/ UserReturn
    \/ UserExit

Next ==
    \/ \E r \in Requests : Receive(r)
    \/ SystemStep
    \/ UserStep
    \/ OutOfMemory
    \/ Die

Spec == Init /\ [][Next]_vars

\* PHP goes on with what it is doing, and php-fpm ends a request that takes
\* longer than request_terminate_timeout.  Nothing makes handler code end.
FairSpec == Spec /\ WF_vars(SystemStep) /\ WF_vars(Die)
-----------------------------------------------------------------------------
(***************************************************************************)
(* Properties.                                                              *)
(***************************************************************************)

Labels == {"idle", "start", "route", "decode", "create", "construct", "arguments", "execute",
           "eval", "leave", "return", "catch", "outer", "resolve", "errorHandler", "emit",
           "shutdown", "flush", "dead"}

Texts == Seq(Segments \cup {"false"})

TypeOK ==
    /\ pc \in Labels
    /\ req \in [method : Methods, path : Paths, body : Bodies] \cup {NoReq}
    /\ buffers \in Seq(Texts)
    /\ callbacks \subseteq 1..MaxBuffers
    /\ handlers \in 0..MaxHandlers
    /\ exc \in [class : Classes \cup {"none"}, utf8 : BOOLEAN, of : {"code", "log"}]
    /\ result \in Texts
    /\ reply \in [kind : {"none", "plain", "resolved", "rejected"}, text : Texts,
                  type : {"none", "application/json", "text/html"}]
    /\ headers \in {"unsent", "text/html", "application/json"}
    /\ body \in Texts
    /\ printed \in Texts
    /\ tampered \in BOOLEAN
    /\ raised \in BOOLEAN
    /\ causes \subseteq Causes
    /\ late \in 0..MaxLate
    /\ log \in {"closed", "open"}
    /\ answer.how \in {"none", "emitted", "cut", "lost"}
    /\ process \in {"running", "dead"}

\* However many buffers the handler code opened or left open, and however it ended, a
\* reply that Slim emitted reaches nginx exactly once and as the last thing of the
\* body, unless code that the handler left behind ran after it or a buffer still
\* open at the end has a callback: both may print behind the document or drop it.
EnvelopeIsLast ==
    answer.how = "emitted" /\ answer.causes \cap {"late", "callback"} = {} =>
        /\ answer.body # <<>>
        /\ \A i \in 1..Len(answer.body) : answer.body[i] = "json" <=> i = Len(answer.body)

\* A handler that returns normally, leaves output buffers and error handlers alone
\* and leaves no code behind that runs gets a body that is one JSON document and
\* nothing else, provided that the request had the documented params, that the
\* extension could be loaded and that the log could be written.
CleanReply ==
    /\ answer.how = "emitted"
    /\ ~answer.raised
    /\ ~answer.tampered
    /\ answer.req.body # "bare"
    /\ answer.causes = {}
    => answer.body = <<"json">>

\* What a handler prints is the result it resolves to: all of it, in order, also when
\* it caught errors on the way.  A handler that ended in an error resolves to the
\* text of that error instead, and never to what the logger threw while the error
\* was handled.  Excepted is a handler that caught the error of a failing log, whose
\* notice is then displayed between what the handler prints.
ResolvedIsWhatWasPrinted ==
    /\ answer.kind = "resolved"
    /\ ~answer.tampered
    /\ answer.raised \/ "log" \notin answer.causes
    => answer.text = IF answer.raised THEN ErrorText ELSE answer.printed

\* execute's output buffer and error handler are only left behind by a handler
\* that raised or threw (execute has no finally) or that changed them itself;
\* the code that runs after a normal return is back to PHP's defaults.
LeftoversOnlyAfterThrow ==
    /\ pc \notin {"eval", "leave"}
    /\ ~raised
    /\ ~tampered
    /\ reply # NoReply
    => handlers = 0 /\ buffers = <<>>

\* A request that ends without a document has a reason: the prologue failed, the
\* handler code ended the script, an Error had a text that is not UTF-8, the log
\* failed or the memory was exhausted.
SilenceHasACause == answer.how = "cut" => answer.causes \cap Silencers # {}

\* Every request is answered or its worker is replaced: handler code that never
\* ends is cut off by php-fpm.
EveryRequestEnds == pc # "idle" ~> pc = "idle"

\* src/README.md:30 on /call and /http-call: the response to a request with the
\* documented body is "{ resolved?: any; rejected?: any; }", here whenever Slim
\* emits a reply and the handler left the output buffers alone.
BodyIsOneDocument ==
    /\ answer.how = "emitted"
    /\ <<answer.req.method, answer.req.path>> \in ExecutorRoutes
    /\ answer.req.body = "full"
    /\ ~answer.tampered
    /\ answer.causes = {}
    => answer.body = <<"json">>
=============================================================================
