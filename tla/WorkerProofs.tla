---------------------------- MODULE WorkerProofs ----------------------------
(***************************************************************************)
(* Proofs about Worker: one php-fpm worker with any number of wrapper       *)
(* objects, tokens, urls and requests, and handler code that prints and     *)
(* nests as much as it likes.  The composition inherits what is proved of   *)
(* its two components; what is new is the argument that ties the token of   *)
(* the request in service to the one wrapper a disciplined handler uses.    *)
(***************************************************************************)
EXTENDS Worker, TLAPS

WP == INSTANCE DeepClientWrapperProofs
RP == INSTANCE RequestHandlerProofs

-----------------------------------------------------------------------------
(***************************************************************************)
(* The inductive invariant.                                                 *)
(***************************************************************************)

\* From the constructor to the end of handleRequestExecutor, while $deepClient holds
\* the request's wrapper
Using == {"arguments", "execute", "eval", "leave", "return", "catch", "outer", "resolve"}

\* Before the client is created
Before == {"idle", "start", "route", "decode", "create"}

\* Where the request is says which token and which wrapper it has.  The last part
\* carries the argument: a handler that never broke the discipline, and the code it
\* leaves behind while it still has the wrapper it was given, has it constructed once,
\* with the token of its own request.
Place ==
    /\ pc = "idle" => jwt = None
    /\ pc # "idle" => jwt \in Tokens
    /\ mine \in Objects \cup {None}
    /\ mine # None => W!Live(mine)
    /\ pc \in Before => \A o \in Objects : ~W!Live(o)
    /\ pc \in Using \cup {"construct"} => mine # None
    /\ (pc \in Using \/ late > 0) /\ mine # None /\ sole =>
          st[mine] = "ready" /\ cred[mine].token = jwt

\* Nothing is said to have been sent once every wrapper is gone.
SentByALiveWrapper == outcome.sentAs # None => \E o \in Objects : W!Live(o)

WorkerInv == RP!RequestInv /\ WP!SoleInv /\ Place /\ SentByALiveWrapper

-----------------------------------------------------------------------------
(***************************************************************************)
(* The components.                                                          *)
(***************************************************************************)

\* The constants satisfy what the components assume of theirs.
LEMMA ComponentAssumptions ==
    WP!EmptyAssumption /\ WP!NoneAssumption /\ RP!BoundsAssumption /\ RP!RequestsAssumption
BY WorkerAssumption, RequestsAssumption
   DEF WP!EmptyAssumption, WP!NoneAssumption, RP!BoundsAssumption, RP!RequestsAssumption,
       RP!Methods, RP!Paths, RP!Bodies

\* The request handler of the composition is the one that is proved about.
LEMMA SameHandler ==
    (R!Init <=> RP!Init) /\ (R!Next <=> RP!Next) /\ (UNCHANGED R!vars <=> UNCHANGED RP!vars)
BY Zenon DEF
   R!At, RP!At, R!Goto, RP!Goto, R!output, RP!output, R!history, RP!history, R!vars, RP!vars,
   R!NoReq, RP!NoReq, R!NoExc, RP!NoExc, R!LogExc, RP!LogExc, R!NoReply, RP!NoReply, R!NoAnswer,
   RP!NoAnswer, R!Classes, RP!Classes, R!ErrorText, RP!ErrorText, R!NoBuffer, RP!NoBuffer,
   R!getMessage, RP!getMessage, R!Encodable, RP!Encodable, R!PlainRoutes, RP!PlainRoutes,
   R!ExecutorRoutes, RP!ExecutorRoutes, R!Write, RP!Write, R!Below, RP!Below, R!Active, RP!Active,
   R!Flushed, RP!Flushed, R!EndFlush, RP!EndFlush, R!EndClean, RP!EndClean, R!Put, RP!Put, R!Logs,
   RP!Logs, R!LogRaises, RP!LogRaises, R!Respond, RP!Respond, R!Clear, RP!Clear, R!Receive,
   RP!Receive, R!Prologue, RP!Prologue, R!PlainRoute, RP!PlainRoute, R!ExecutorRoute,
   RP!ExecutorRoute, R!NoRoute, RP!NoRoute, R!DecodeFails, RP!DecodeFails, R!Decode, RP!Decode,
   R!CreateClient, RP!CreateClient, R!NoClass, RP!NoClass, R!ConstructClient, RP!ConstructClient,
   R!EvalArguments, RP!EvalArguments, R!Execute, RP!Execute, R!Leave, RP!Leave, R!Return,
   RP!Return, R!CatchErrorException, RP!CatchErrorException, R!CatchException, RP!CatchException,
   R!CatchNothing, RP!CatchNothing, R!Resolve, RP!Resolve, R!ErrorHandler, RP!ErrorHandler,
   R!Emit, RP!Emit, R!OutOfMemory, RP!OutOfMemory, R!ShutdownFunctions, RP!ShutdownFunctions,
   R!FlushBuffer, RP!FlushBuffer, R!Finish, RP!Finish, R!Die, RP!Die, R!Respawn, RP!Respawn,
   R!UserCode, RP!UserCode, R!Blamed, RP!Blamed, R!Left, RP!Left, R!UserWork, RP!UserWork,
   R!UserPrint, RP!UserPrint, R!UserBufferStart, RP!UserBufferStart, R!UserBufferEnd,
   RP!UserBufferEnd, R!UserHandlers, RP!UserHandlers, R!UserLeavesCode, RP!UserLeavesCode,
   R!errorHandler, RP!errorHandler, R!UserWarning, RP!UserWarning, R!UserThrow, RP!UserThrow,
   R!UserReturn, RP!UserReturn, R!UserExit, RP!UserExit, R!SystemStep, RP!SystemStep, R!UserStep,
   RP!UserStep, R!Utf8, RP!Utf8, R!Printable, RP!Printable, R!Next, RP!Next, R!Init, RP!Init

\* So are the operations of the class.
LEMMA SameWrapper ==
    (W!Init <=> WP!Init) /\ (W!Next <=> WP!Next) /\ (UNCHANGED W!vars <=> UNCHANGED WP!vars)
BY Zenon DEF
   W!vars, WP!vars, W!Blank, WP!Blank, W!Methods, WP!Methods, W!Outcome, WP!Outcome, W!Quiet,
   WP!Quiet, W!Live, WP!Live, W!NoneBut, WP!NoneBut, W!Init, WP!Init, W!Create, WP!Create,
   W!CreateImportFails, WP!CreateImportFails, W!Construct, WP!Construct, W!Clone, WP!Clone,
   W!FinalizedModules, WP!FinalizedModules, W!Destroy, WP!Destroy, W!Packed, WP!Packed,
   W!Required, WP!Required, W!MakeDeepClientRaises, WP!MakeDeepClientRaises, W!MakeDeepClient,
   WP!MakeDeepClient, W!Kinds, WP!Kinds, W!Returns, WP!Returns, W!getPythonErrorText,
   WP!getPythonErrorText, W!HowOf, WP!HowOf, W!CanCall, WP!CanCall, W!CallTooFew, WP!CallTooFew,
   W!CallUnconvertible, WP!CallUnconvertible, W!CallRaises, WP!CallRaises, W!Sendable,
   WP!Sendable, W!CallAnswers, WP!CallAnswers, W!CallEscapes, WP!CallEscapes, W!CallDangling,
   WP!CallDangling, W!Call, WP!Call, W!Respawn, WP!Respawn, W!Next, WP!Next

\* The variables of each component
LEMMA ComponentVars ==
    /\ UNCHANGED rvars /\ UNCHANGED process => UNCHANGED R!vars
    /\ UNCHANGED wvars /\ UNCHANGED process => UNCHANGED W!vars
BY DEF rvars, wvars, R!vars, W!vars

\* The operations of the class need a running process and end in one or in none.
LEMMA OperationsRun ==
    ASSUME NEW o,
           \/ W!Create(o) \/ W!CreateImportFails(o) \/ W!Call(o) \/ W!Destroy(o)
           \/ \E t, u : W!Construct(o, t, u)
           \/ \E p : W!Clone(o, p)
    PROVE  process = "running" /\ process' \in {"running", "dead"}
<1>1. CASE W!Create(o) \/ W!CreateImportFails(o) \/ W!Destroy(o)
    BY <1>1 DEF W!Create, W!CreateImportFails, W!Destroy
<1>2. CASE W!Call(o)
    BY <1>2 DEF W!Call, W!CallTooFew, W!CallUnconvertible, W!CallDangling, W!CallRaises,
                W!CallEscapes, W!CallAnswers, W!Sendable, W!CanCall
<1>3. CASE (\E t, u : W!Construct(o, t, u)) \/ (\E p : W!Clone(o, p))
    BY <1>3 DEF W!Construct, W!Clone
<1>4. QED
    BY <1>1, <1>2, <1>3

\* Every step of the worker is a step of index.php or leaves its state alone.
LEMMA HandlerStep == ASSUME [Next]_vars PROVE [R!Next]_R!vars
<1>1. ASSUME NEW r \in Requests, NEW t \in Tokens, Begin(r, t) PROVE R!Next
    BY <1>1 DEF Begin, R!Next
<1>2. CASE HostStep
    BY <1>2 DEF HostStep, R!Next, R!SystemStep
<1>3. CASE ConstructClient
    BY <1>3 DEF ConstructClient, R!Next, R!SystemStep
<1>4. CASE UserStep
    BY <1>4 DEF UserStep, R!Next
<1>5. ASSUME NEW o \in Objects, CreateClient(o) PROVE R!Next
    BY <1>5 DEF CreateClient, R!Next, R!SystemStep
<1>6. ASSUME NEW o \in Objects, CreateClientDies(o) PROVE R!Next
    BY <1>6 DEF CreateClientDies, R!Next
<1>7. ASSUME NEW o \in Objects, UserCall(o) PROVE R!Next
    BY <1>7 DEF UserCall, Felt, R!Next, R!UserStep, R!Classes, R!Utf8
<1>8. ASSUME NEW o \in Objects, UserObjects(o) PROVE R!Next
    BY <1>8 DEF UserObjects, R!Next, R!UserStep
<1>9. ASSUME NEW o \in Objects, Release(o) PROVE [R!Next]_R!vars
    <2>1. process = "running" /\ process' \in {"running", "dead"}
        BY <1>9, OperationsRun DEF Release
    <2>2. CASE process' = "dead"
        BY <1>9, <2>2 DEF Release, R!Next
    <2>3. CASE process' = "running"
        BY <1>9, <2>1, <2>3, ComponentVars DEF Release
    <2>4. QED
        BY <2>1, <2>2, <2>3
<1>10. CASE Finish \/ Die \/ Respawn
    BY <1>10 DEF Finish, Die, Respawn, R!Next, R!SystemStep
<1>11. CASE UNCHANGED vars
    BY <1>11, ComponentVars DEF vars
<1>12. QED
    BY <1>1, <1>2, <1>3, <1>4, <1>5, <1>6, <1>7, <1>8, <1>9, <1>10, <1>11 DEF Next

\* The composed worker runs index.php as RequestHandler describes it: what is
\* proved of the handler alone holds next to the objects of the class as well.
THEOREM WorkerRunsTheHandler == Spec => R!Spec
<1>1. Init => R!Init
    BY DEF Init
<1>2. QED
    BY <1>1, HandlerStep, PTL DEF Spec, R!Spec

\* Every step of the worker is an operation of the class, leaves its objects alone,
\* or is the death of the process by another cause.
LEMMA WrapperStep ==
    ASSUME WP!SoleInv, RP!TypeOK', Place, [Next]_vars
    PROVE  [W!Next]_W!vars \/ (UNCHANGED wvars /\ process' \in {"running", "dead"})
<1>a. process' \in {"running", "dead"}
    BY DEF RP!TypeOK
<1>1. ASSUME NEW r \in Requests, NEW t \in Tokens, Begin(r, t) PROVE UNCHANGED wvars
    BY <1>1 DEF Begin
<1>2. CASE HostStep \/ UserStep \/ Finish \/ Die
    BY <1>a, <1>2 DEF HostStep, UserStep, Finish, Die
<1>3. CASE ConstructClient
    <2>1. mine \in Objects /\ jwt \in Tokens
        BY <1>3 DEF ConstructClient, R!ConstructClient, R!At, Place, Using
    <2>2. QED
        BY <1>3, <2>1, UrlAssumption DEF ConstructClient, W!Next
<1>4. ASSUME NEW o \in Objects, CreateClient(o) PROVE W!Next
    BY <1>4 DEF CreateClient, W!Next
<1>5. ASSUME NEW o \in Objects, CreateClientDies(o) PROVE W!Next
    BY <1>5 DEF CreateClientDies, W!Next
<1>6. ASSUME NEW o \in Objects, UserCall(o) PROVE W!Next
    BY <1>6 DEF UserCall, W!Next
<1>7. ASSUME NEW o \in Objects, UserObjects(o) PROVE W!Next
    <2>1. CASE W!Create(o) \/ W!CreateImportFails(o)
        BY <2>1 DEF W!Next
    <2>2. CASE \E t \in Tokens, u \in Urls : W!Construct(o, t, u)
        BY <2>2 DEF W!Next
    <2>3. CASE \E p \in Objects : W!Clone(o, p)
        BY <2>3 DEF W!Next
    <2>4. QED
        BY <1>7, <2>1, <2>2, <2>3 DEF UserObjects
<1>8. ASSUME NEW o \in Objects, Release(o) PROVE W!Next
    BY <1>8 DEF Release, W!Next
<1>9. CASE Respawn
    BY <1>9 DEF Respawn, W!Next
<1>10. CASE UNCHANGED vars
    BY <1>a, <1>10 DEF vars
<1>11. QED
    BY <1>a, <1>1, <1>2, <1>3, <1>4, <1>5, <1>6, <1>7, <1>8, <1>9, <1>10 DEF Next

\* What is proved of the class alone holds in the worker.
LEMMA SoleStep ==
    ASSUME WP!SoleInv, RP!TypeOK', Place, [Next]_vars
    PROVE  WP!SoleInv'
<1>1. CASE [W!Next]_W!vars
    BY <1>1, SameWrapper, ComponentAssumptions, WP!SoleStep
<1>2. CASE UNCHANGED wvars /\ process' \in {"running", "dead"}
    BY <1>2 DEF wvars, WP!SoleInv, WP!AnyInv, WP!TypeOK, WP!NeverAnonymous, WP!SoleState, WP!Live
<1>3. QED
    BY <1>1, <1>2, WrapperStep

-----------------------------------------------------------------------------
(***************************************************************************)
(* The request and its wrapper.                                             *)
(***************************************************************************)

\* The steps of index.php that leave the class alone enter neither the constructor
\* nor the part of handleRequestExecutor that has a client from outside it, and leave
\* no code behind.
LEMMA HostPlaces ==
    ASSUME HostStep
    PROVE  /\ pc # "idle" /\ pc' # "idle" /\ pc' # "construct"
           /\ pc' \in Before => pc \in Before
           /\ pc' \in Using => pc \in Using
           /\ late' \in {late, 0}
<1>1. CASE R!Prologue \/ R!PlainRoute \/ R!ExecutorRoute \/ R!NoRoute \/ R!DecodeFails \/ R!Decode
           \/ R!NoClass
    BY <1>1 DEF R!Prologue, R!PlainRoute, R!ExecutorRoute, R!NoRoute, R!DecodeFails, R!Decode,
                R!NoClass, R!At, R!Goto, R!history, Using, Before
<1>2. CASE R!EvalArguments \/ R!Execute \/ R!Leave \/ R!Return
    BY <1>2 DEF R!EvalArguments, R!Execute, R!Leave, R!Return, R!At, R!Goto, R!history, Using, Before
<1>3. CASE R!CatchErrorException \/ R!CatchException \/ R!CatchNothing \/ R!Resolve
    BY <1>3 DEF R!CatchErrorException, R!CatchException, R!CatchNothing, R!Resolve, R!Respond,
                R!At, R!Goto, R!history, Using, Before
<1>4. CASE R!ErrorHandler \/ R!Emit \/ R!OutOfMemory \/ R!ShutdownFunctions \/ R!FlushBuffer
    BY <1>4 DEF R!ErrorHandler, R!Emit, R!OutOfMemory, R!ShutdownFunctions, R!FlushBuffer, R!At,
                R!Goto, R!history, Using, Before
<1>5. QED
    BY <1>1, <1>2, <1>3, <1>4 DEF HostStep

\* The handler code and what it leaves behind go on, or end in the catch clauses, at
\* the end of execute, or with the script.
LEMMA UserPlaces ==
    ASSUME \/ R!UserStep \/ R!UserWork \/ R!UserWarning
           \/ R!UserThrow("Exception", TRUE) \/ R!UserThrow("Error", TRUE)
    PROVE  /\ pc \in {"eval", "return", "shutdown"} /\ (pc \in Using \/ late > 0)
           /\ pc' \in {pc, "catch", "leave", "shutdown"}
           /\ pc = "shutdown" => pc' = "shutdown"
<1>1. CASE R!UserWork \/ R!UserBufferStart \/ R!UserBufferEnd \/ R!UserHandlers
           \/ R!UserLeavesCode \/ \E seg : R!UserPrint(seg)
    BY <1>1 DEF R!UserWork, R!UserBufferStart, R!UserBufferEnd, R!UserHandlers, R!UserLeavesCode,
                R!UserPrint, R!UserCode, R!At, Using
<1>2. CASE R!errorHandler \/ R!UserReturn \/ R!UserExit \/ \E class, utf8 : R!UserThrow(class, utf8)
    BY <1>2 DEF R!errorHandler, R!UserReturn, R!UserExit, R!UserThrow, R!UserCode, R!At, R!Goto, Using
<1>3. QED
    BY <1>1, <1>2 DEF R!UserStep, R!UserWarning

\* The request keeps its token and its wrapper until handleRequestExecutor is left.
LEMMA PlaceStep ==
    ASSUME WP!SoleInv, RP!RequestInv, Place, [Next]_vars
    PROVE  Place'
<1>a. /\ st \in [Objects -> {"free", "created", "ready"}]
      /\ cred \in [Objects -> [token : Tokens, url : Urls]]
      /\ sole => \A o, p \in Objects : W!Live(o) /\ W!Live(p) => o = p
    BY DEF WP!SoleInv, WP!AnyInv, WP!TypeOK, WP!Cred, WP!SoleState, WP!Live, W!Live
<1>b. None \notin Objects /\ None \notin Tokens /\ None # Url
    BY WorkerAssumption, UrlAssumption
<1>c. pc \in Before => mine = None
    BY DEF Place
<1>d. pc \in Before \cup {"construct"} => late = 0
    BY DEF RP!RequestInv, RP!Control, RP!Early, Before
<1>e. ASSUME R!Die PROVE pc' = "dead" /\ late' = 0
    BY <1>e DEF R!Die, R!Clear, R!Goto
<1>1. ASSUME NEW r \in Requests, NEW t \in Tokens, Begin(r, t) PROVE Place'
    <2>1. pc = "idle" /\ pc' = "start" /\ jwt' \in Tokens /\ UNCHANGED <<st, mine>>
        BY <1>1 DEF Begin, R!Receive, R!At, R!Goto, wvars
    <2>2. mine = None
        BY <1>c, <2>1 DEF Before
    <2>3. QED
        BY <2>1, <2>2 DEF Place, W!Live, Using, Before
<1>2. CASE HostStep
    BY <1>2, HostPlaces DEF HostStep, wvars, Place, W!Live
<1>3. CASE UserStep
    <2>1. UNCHANGED <<st, cred, sole, jwt, mine>>
        BY <1>3 DEF UserStep, wvars
    <2>2. /\ pc \in {"eval", "return", "shutdown"} /\ (pc \in Using \/ late > 0)
          /\ pc' \in {pc, "catch", "leave", "shutdown"} /\ (pc = "shutdown" => pc' = "shutdown")
        BY <1>3, UserPlaces DEF UserStep
    <2>3. QED
        BY <2>1, <2>2 DEF Place, W!Live, Using, Before
<1>4. ASSUME NEW o \in Objects, CreateClient(o) PROVE Place'
    <2>1. /\ pc = "create" /\ pc' = "construct" /\ mine' = o /\ st'[o] = "created" /\ jwt' = jwt
          /\ late' = late
        BY <1>a, <1>4 DEF CreateClient, R!CreateClient, R!At, R!Goto, R!history, W!Create
    <2>2. late = 0
        BY <1>d, <2>1 DEF Before
    <2>3. QED
        BY <1>b, <2>1, <2>2 DEF Place, W!Live, Using, Before
<1>5. ASSUME NEW o \in Objects, CreateClientDies(o) PROVE Place'
    BY <1>e, <1>5 DEF CreateClientDies, R!At, W!CreateImportFails, Place, W!Live, Using, Before
<1>6. CASE ConstructClient
    <2>1. pc = "construct" /\ pc' = "arguments" /\ UNCHANGED <<jwt, mine>>
        BY <1>6 DEF ConstructClient, R!ConstructClient, R!At, R!Goto
    <2>2. mine \in Objects /\ mine # None /\ jwt \in Tokens
        BY <2>1 DEF Place, Using
    <2>3. st'[mine] = "ready" /\ cred'[mine] = [token |-> jwt, url |-> Url]
        BY <1>a, <1>b, <1>6, <2>2 DEF ConstructClient, W!Construct
    <2>4. QED
        BY <2>1, <2>2, <2>3 DEF Place, W!Live, Using, Before
<1>f. ASSUME R!Die \/ R!UserWork \/ R!UserWarning
             \/ R!UserThrow("Exception", TRUE) \/ R!UserThrow("Error", TRUE),
             R!UserCode, UNCHANGED <<jwt, mine>>,
             mine # None =>
                /\ st[mine] # "free" => st'[mine] # "free"
                /\ sole' /\ (sole => st[mine] = "ready" /\ cred[mine].token = jwt)
                   => st'[mine] = "ready" /\ cred'[mine].token = jwt
      PROVE  Place'
    <2>1. pc \in {"eval", "return", "shutdown"} /\ (pc \in Using \/ late > 0)
        BY <1>f DEF R!UserCode, Using
    <2>2. mine # None /\ sole => st[mine] = "ready" /\ cred[mine].token = jwt
        BY <2>1 DEF Place
    <2>3. CASE R!Die
        BY <1>e, <1>f, <2>1, <2>3 DEF Place, W!Live, Using, Before
    <2>4. CASE pc' \in {pc, "catch", "leave", "shutdown"} /\ (pc = "shutdown" => pc' = "shutdown")
        BY <1>f, <2>1, <2>2, <2>4 DEF Place, W!Live, Using, Before
    <2>5. QED
        BY <1>f, <2>3, <2>4, UserPlaces
<1>7. ASSUME NEW o \in Objects, UserCall(o) PROVE Place'
    <2>1. UNCHANGED <<st, cred, sole>>
        BY <1>7 DEF UserCall, W!Call, W!CallTooFew, W!CallUnconvertible, W!CallDangling,
                    W!CallRaises, W!CallEscapes, W!CallAnswers
    <2>2. QED
        BY <1>f, <1>7, <2>1 DEF UserCall, Felt
<1>8. ASSUME NEW o \in Objects, UserObjects(o) PROVE Place'
    <2>1. SUFFICES ASSUME mine # None
                   PROVE  /\ st[mine] # "free" => st'[mine] # "free"
                          /\ ~sole' \/ UNCHANGED <<st, cred, sole>>
        <3>1. mine # None =>
                 /\ st[mine] # "free" => st'[mine] # "free"
                 /\ sole' /\ (sole => st[mine] = "ready" /\ cred[mine].token = jwt)
                    => st'[mine] = "ready" /\ cred'[mine].token = jwt
            BY <2>1
        <3>2. R!UserCode /\ (R!Die \/ R!UserWork) /\ UNCHANGED <<jwt, mine>>
            BY <1>8 DEF UserObjects
        <3>3. QED
            BY <1>f, <3>1, <3>2
    <2>2. mine \in Objects /\ W!Live(mine)
        BY <2>1 DEF Place
    <2>4. CASE W!Create(o)
        <3>1. o # mine /\ ~sole'
            BY <2>2, <2>4 DEF W!Create, W!NoneBut, W!Live
        <3>2. st'[mine] = st[mine]
            BY <1>a, <2>2, <2>4, <3>1 DEF W!Create
        <3>3. QED
            BY <3>1, <3>2 DEF W!Live
    <2>5. CASE W!CreateImportFails(o)
        BY <2>2, <2>5 DEF W!CreateImportFails, W!Live
    <2>6. ASSUME NEW t \in Tokens, NEW u \in Urls, W!Construct(o, t, u)
          PROVE  st'[mine] # "free" /\ ~sole'
        <3>0. pc \in Using \/ late > 0
            BY <1>8 DEF UserObjects, R!UserCode, Using
        <3>1. ~sole'
            BY <1>a, <2>1, <2>2, <2>6, <3>0 DEF W!Construct, W!Live, Place
        <3>2. st'[mine] \in {st[mine], "ready"}
            BY <1>a, <2>2, <2>6 DEF W!Construct
        <3>3. QED
            BY <2>2, <3>1, <3>2 DEF W!Live
    <2>7. ASSUME NEW p \in Objects, W!Clone(o, p) PROVE st'[mine] # "free" /\ ~sole'
        BY <1>a, <2>2, <2>7 DEF W!Clone, W!Live
    <2>8. QED
        BY <1>8, <2>4, <2>5, <2>6, <2>7 DEF UserObjects, W!Live
<1>9. ASSUME NEW o \in Objects, Release(o) PROVE Place'
    <2>1. /\ pc \notin Before \cup {"construct"} /\ jwt' = jwt /\ (o = mine => pc \notin Using)
          /\ mine' = (IF o = mine THEN None ELSE mine)
        BY <1>9 DEF Release, Before, Using
    <2>2. UNCHANGED <<pc, late>> \/ (pc' = "dead" /\ late' = 0)
        BY <1>e, <1>9 DEF Release, rvars
    <2>3. CASE o = mine \/ mine = None
        BY <1>b, <2>1, <2>2, <2>3 DEF Place, Using, Before
    <2>4. CASE o # mine /\ mine # None
        <3>1. mine \in Objects /\ W!Live(mine) /\ mine' = mine
            BY <2>1, <2>4 DEF Place
        <3>3. st'[mine] = st[mine] /\ cred'[mine] = cred[mine]
            BY <1>a, <1>9, <2>4, <3>1 DEF Release, W!Destroy
        <3>4. sole' => sole
            BY <1>9, <2>4, <3>1 DEF Release, W!Destroy, W!NoneBut
        <3>5. QED
            BY <2>1, <2>2, <2>4, <3>1, <3>3, <3>4 DEF Place, W!Live, Using, Before
    <2>5. QED
        BY <2>3, <2>4
<1>10. CASE Finish
    BY <1>10 DEF Finish, R!Finish, R!Goto, R!Clear, wvars, Place, W!Live, Using, Before
<1>11. CASE Die
    <2>1. pc # "idle" /\ UNCHANGED <<st, jwt, mine>> /\ R!Die
        BY <1>11 DEF Die, R!Die, wvars
    <2>2. QED
        BY <1>e, <2>1 DEF Place, W!Live, Using, Before
<1>12. CASE Respawn
    BY <1>12 DEF Respawn, R!Respawn, R!Goto, R!Clear, W!Respawn, Place, W!Live, Using, Before
<1>13. CASE UNCHANGED vars
    BY <1>13 DEF vars, rvars, wvars, Place, W!Live
<1>14. QED
    BY <1>1, <1>2, <1>3, <1>4, <1>5, <1>6, <1>7, <1>8, <1>9, <1>10, <1>11, <1>12, <1>13 DEF Next

\* An operation whose outcome is quiet sent nothing.
LEMMA QuietSent == \A how : W!Quiet(how).sentAs = None
BY DEF W!Quiet, W!Outcome

\* A call sends nothing, or ends the process before it has an outcome, or sends a
\* request for a living wrapper, in the name of the client that make_deep_client
\* gives it.
LEMMA CallSends ==
    ASSUME NEW o \in Objects, W!Call(o)
    PROVE  /\ W!Live(o) /\ UNCHANGED <<st, sole>>
           /\ \/ outcome'.sentAs = None
              \/ UNCHANGED outcome
              \/ /\ outcome'.sentAs = W!MakeDeepClient(cred[o])
                 /\ \E m \in W!Methods : W!Sendable(o, m)
<1>1. CASE W!CallTooFew(o) \/ W!CallUnconvertible(o) \/ W!CallDangling(o)
    BY <1>1, QuietSent DEF W!CallTooFew, W!CallUnconvertible, W!CallDangling, W!CanCall
<1>2. ASSUME NEW m \in W!Methods, W!CallRaises(o, m)
      PROVE  outcome'.sentAs = None /\ W!Live(o) /\ UNCHANGED <<st, sole>>
    BY <1>2, QuietSent DEF W!CallRaises, W!CanCall
<1>3. ASSUME NEW m \in W!Methods, W!CallEscapes(o, m)
      PROVE  /\ outcome'.sentAs = W!MakeDeepClient(cred[o]) /\ W!Sendable(o, m)
             /\ W!Live(o) /\ UNCHANGED <<st, sole>>
    BY <1>3 DEF W!CallEscapes, W!Outcome, W!Sendable, W!CanCall
<1>4. ASSUME NEW m \in W!Methods, NEW k \in W!Kinds, W!CallAnswers(o, m, k)
      PROVE  /\ \/ UNCHANGED outcome
                \/ outcome'.sentAs = W!MakeDeepClient(cred[o]) /\ W!Sendable(o, m)
             /\ W!Live(o) /\ UNCHANGED <<st, sole>>
    BY <1>4 DEF W!CallAnswers, W!Outcome, W!Sendable, W!CanCall
<1>5. QED
    BY <1>1, <1>2, <1>3, <1>4 DEF W!Call

\* The other operations send nothing.
LEMMA OthersSendNothing ==
    ASSUME NEW o,
           \/ W!Create(o) \/ W!Destroy(o)
           \/ \E t, u : W!Construct(o, t, u)
           \/ \E p : W!Clone(o, p)
    PROVE  outcome'.sentAs = None
<1>1. CASE W!Create(o) \/ W!Destroy(o)
    BY <1>1, QuietSent DEF W!Create, W!Destroy
<1>2. CASE (\E t, u : W!Construct(o, t, u)) \/ (\E p : W!Clone(o, p))
    BY <1>2, QuietSent DEF W!Construct, W!Clone
<1>3. QED
    BY <1>1, <1>2

\* What the operations do to what was sent.
LEMMA SentStep == ASSUME SentByALiveWrapper, [Next]_vars PROVE SentByALiveWrapper'
<1>1. ASSUME NEW r \in Requests, NEW t \in Tokens, Begin(r, t) PROVE SentByALiveWrapper'
    BY <1>1 DEF Begin, wvars, SentByALiveWrapper, W!Live
<1>2. CASE HostStep \/ UserStep \/ Finish \/ Die
    BY <1>2 DEF HostStep, UserStep, Finish, Die, wvars, SentByALiveWrapper, W!Live
<1>3. CASE ConstructClient
    BY <1>3, OthersSendNothing DEF ConstructClient, SentByALiveWrapper
<1>4. ASSUME NEW o \in Objects, CreateClient(o) PROVE SentByALiveWrapper'
    BY <1>4, OthersSendNothing DEF CreateClient, SentByALiveWrapper
<1>5. ASSUME NEW o \in Objects, CreateClientDies(o) PROVE SentByALiveWrapper'
    BY <1>5 DEF CreateClientDies, W!CreateImportFails, SentByALiveWrapper, W!Live
<1>6. ASSUME NEW o \in Objects, UserCall(o) PROVE SentByALiveWrapper'
    <2>1. W!Live(o) /\ st' = st
        BY <1>6, CallSends DEF UserCall
    <2>2. QED
        BY <2>1 DEF SentByALiveWrapper, W!Live
<1>7. ASSUME NEW o \in Objects, UserObjects(o) PROVE SentByALiveWrapper'
    <2>1. CASE W!CreateImportFails(o)
        BY <2>1 DEF W!CreateImportFails, SentByALiveWrapper, W!Live
    <2>2. QED
        BY <1>7, <2>1, OthersSendNothing DEF UserObjects, SentByALiveWrapper
<1>8. ASSUME NEW o \in Objects, Release(o) PROVE SentByALiveWrapper'
    BY <1>8, OthersSendNothing DEF Release, SentByALiveWrapper
<1>9. CASE Respawn
    BY <1>9, QuietSent DEF Respawn, W!Respawn, SentByALiveWrapper
<1>10. CASE UNCHANGED vars
    BY <1>10 DEF vars, wvars, SentByALiveWrapper, W!Live
<1>11. QED
    BY <1>1, <1>2, <1>3, <1>4, <1>5, <1>6, <1>7, <1>8, <1>9, <1>10 DEF Next

-----------------------------------------------------------------------------
(***************************************************************************)
(* The theorems.                                                            *)
(***************************************************************************)

\* What is proved of the request handler holds in the worker.
LEMMA HandlerInvariant == Spec => []RP!RequestInv
<1>1. Init => RP!Init
    BY SameHandler DEF Init
<1>2. [Next]_vars => [RP!Next]_RP!vars
    BY HandlerStep, SameHandler
<1>3. RP!Spec => []RP!RequestInv
    BY ComponentAssumptions, RP!RequestInvariant
<1>4. QED
    BY <1>1, <1>2, <1>3, PTL DEF Spec, RP!Spec

\* The invariant holds of the worker.
LEMMA WorkerInvariant == Spec => []WorkerInv
<1>1. Init => WP!SoleInv /\ Place /\ SentByALiveWrapper
    <2>1. ASSUME Init PROVE WP!SoleInv
        <3>1. WP!Init
            BY <2>1, SameWrapper DEF Init
        <3>2. WP!AnyInv
            BY <3>1, ComponentAssumptions, WP!AnyInit
        <3>3. \A o \in Objects : ~WP!Live(o)
            BY <3>1 DEF WP!Init, WP!Live
        <3>4. client = None /\ outcome.sentAs = None
            BY <3>1 DEF WP!Init, WP!Quiet, WP!Outcome
        <3>5. QED
            BY <3>2, <3>3, <3>4 DEF WP!SoleInv, WP!SoleState, WP!Live
    <2>2. ASSUME Init PROVE Place
        BY <2>2 DEF Init, R!Init, W!Init, Place, W!Live, Using, Before
    <2>3. ASSUME Init PROVE SentByALiveWrapper
        BY <2>3, QuietSent DEF Init, W!Init, SentByALiveWrapper
    <2>4. QED
        BY <2>1, <2>2, <2>3
<1>2. ASSUME RP!RequestInv, RP!RequestInv', WP!SoleInv /\ Place /\ SentByALiveWrapper, [Next]_vars
      PROVE  (WP!SoleInv /\ Place /\ SentByALiveWrapper)'
    <2>1. RP!TypeOK'
        BY <1>2 DEF RP!RequestInv
    <2>2. QED
        BY <1>2, <2>1, SoleStep, PlaceStep, SentStep
<1>3. QED
    BY <1>1, <1>2, HandlerInvariant, PTL DEF Spec, WorkerInv

\* Between two requests nothing of the previous one is left in the worker.
THEOREM IdleWorkersAreClean == Spec => []IdleIsClean
<1>1. WorkerInv => IdleIsClean
    <2> SUFFICES ASSUME WorkerInv, pc = "idle"
                 PROVE  /\ \A o \in Objects : ~W!Live(o)
                        /\ ~up /\ client = None /\ ~pyerr
                        /\ buffers = <<>> /\ handlers = 0
        BY DEF IdleIsClean
    <2>1. \A o \in Objects : ~W!Live(o)
        BY DEF WorkerInv, Place, Before
    <2>2. ~up /\ client = None /\ ~pyerr
        BY <2>1 DEF WorkerInv, WP!SoleInv, WP!AnyInv, WP!Live, W!Live
    <2>3. buffers = <<>> /\ handlers = 0
        BY DEF WorkerInv, RP!RequestInv, RP!Control, RP!Early
    <2>4. QED
        BY <2>1, <2>2, <2>3
<1>2. QED
    BY <1>1, WorkerInvariant, PTL

\* A request that a disciplined handler sends is sent with the token of the request
\* in service, which is not empty.
LEMMA DisciplinedCallsActAsJwt ==
    ASSUME WorkerInv, NEW o \in Objects, UserCall(o), sole, mine # None, NEW m \in W!Methods, W!Sendable(o, m)
    PROVE  W!MakeDeepClient(cred[o]).token = jwt /\ jwt \notin {None, Empty}
<1>1. WP!AnyInv /\ WP!SoleState
    BY DEF WorkerInv, WP!SoleInv
<1>2. WP!Sendable(o, m) /\ m \in WP!Methods
    BY DEF W!Sendable, WP!Sendable, W!CanCall, WP!CanCall, W!Live, WP!Live, W!Packed, WP!Packed,
           W!Required, WP!Required, W!MakeDeepClientRaises, WP!MakeDeepClientRaises,
           W!Methods, WP!Methods
<1>3. cred[o] \in WP!Cred
    BY <1>1 DEF WP!AnyInv, WP!TypeOK
<1>4. WP!MakeDeepClient(cred[o]) = cred[o] /\ WP!MakeDeepClient(cred[o]).token # Empty
    <2>1. WP!MakeDeepClient(cred[o]) = cred[o]
        BY <1>1, <1>2, ComponentAssumptions, WP!SoleSends
    <2>2. ~WP!MakeDeepClientRaises(cred[o])
        BY <1>2 DEF WP!Sendable
    <2>3. QED
        BY <1>1, <1>3, <2>1, <2>2, ComponentAssumptions, WP!MakeDeepClientComplete
<1>5. W!MakeDeepClient(cred[o]) = WP!MakeDeepClient(cred[o])
    BY DEF W!MakeDeepClient, WP!MakeDeepClient
<1>6. mine \in Objects /\ W!Live(mine) /\ cred[mine].token = jwt /\ jwt \in Tokens
    BY DEF UserCall, R!UserCode, WorkerInv, Place, Using
<1>7. o = mine
    BY <1>1, <1>2, <1>6 DEF WP!Sendable, WP!CanCall, WP!SoleState, WP!Live, W!Live
<1>8. QED
    BY <1>4, <1>5, <1>6, <1>7, WorkerAssumption

\* Every step of the worker is one the abstract specification allows.
LEMMA IsolationStep ==
    ASSUME WorkerInv, [Next]_vars
    PROVE  [Promise!Next]_<<jwt, Acted>>
<1>a. UNCHANGED <<wvars, jwt, mine>> => UNCHANGED <<jwt, Acted>>
    BY DEF wvars, Acted
<1>b. outcome'.sentAs = None /\ UNCHANGED jwt => Promise!Next
    BY DEF Acted, Promise!Next, Promise!Rest
<1>1. ASSUME NEW r \in Requests, NEW t \in Tokens, Begin(r, t) PROVE Promise!Next
    <2>1. jwt = None /\ \A o \in Objects : ~W!Live(o)
        BY <1>1 DEF Begin, R!Receive, R!At, WorkerInv, Place, Before
    <2>2. outcome'.sentAs = None
        BY <1>1, <2>1 DEF Begin, wvars, WorkerInv, SentByALiveWrapper
    <2>3. QED
        BY <1>1, <2>1, <2>2 DEF Begin, Acted, Promise!Next, Promise!Begin
<1>2. CASE HostStep \/ UserStep \/ Die
    BY <1>a, <1>2 DEF HostStep, UserStep, Die
<1>3. CASE ConstructClient
    BY <1>b, <1>3, OthersSendNothing DEF ConstructClient
<1>4. ASSUME NEW o \in Objects, CreateClient(o) PROVE Promise!Next
    BY <1>b, <1>4, OthersSendNothing DEF CreateClient
<1>5. ASSUME NEW o \in Objects, CreateClientDies(o) PROVE UNCHANGED <<jwt, Acted>>
    BY <1>a, <1>5 DEF CreateClientDies, W!CreateImportFails, wvars
<1>6. ASSUME NEW o \in Objects, UserCall(o) PROVE [Promise!Next]_<<jwt, Acted>>
    <2>1. UNCHANGED <<jwt, mine, sole>>
        BY <1>6, CallSends DEF UserCall
    <2>2. CASE outcome'.sentAs = None
        BY <1>b, <2>1, <2>2
    <2>3. CASE UNCHANGED outcome
        BY <2>1, <2>3 DEF Acted
    <2>4. CASE /\ outcome'.sentAs = W!MakeDeepClient(cred[o]) /\ outcome'.sentAs # None
               /\ \E m \in W!Methods : W!Sendable(o, m)
        <3>1. CASE ~sole \/ mine = None
            BY <2>1, <3>1 DEF Acted
        <3>2. CASE sole /\ mine # None
            <4>1. W!MakeDeepClient(cred[o]).token = jwt /\ jwt \notin {None, Empty}
                BY <1>6, <2>4, <3>2, DisciplinedCallsActAsJwt
            <4>2. Acted' = jwt
                BY <2>1, <2>4, <3>2, <4>1 DEF Acted
            <4>3. QED
                BY <2>1, <4>1, <4>2 DEF Promise!Next, Promise!Act
        <3>3. QED
            BY <3>1, <3>2
    <2>5. QED
        BY <1>6, <2>2, <2>3, <2>4, CallSends DEF UserCall
<1>7. ASSUME NEW o \in Objects, UserObjects(o) PROVE [Promise!Next]_<<jwt, Acted>>
    <2>1. CASE W!CreateImportFails(o)
        BY <1>a, <1>7, <2>1 DEF UserObjects, W!CreateImportFails, wvars
    <2>2. QED
        BY <1>b, <1>7, <2>1, OthersSendNothing DEF UserObjects
<1>8. ASSUME NEW o \in Objects, Release(o) PROVE Promise!Next
    BY <1>b, <1>8, OthersSendNothing DEF Release
<1>9. CASE Finish
    <2>1. outcome'.sentAs = None
        BY <1>9 DEF Finish, wvars, WorkerInv, SentByALiveWrapper
    <2>2. QED
        BY <1>9, <2>1 DEF Finish, Acted, Promise!Next, Promise!End
<1>10. CASE Respawn
    BY <1>10, QuietSent DEF Respawn, W!Respawn, Acted, Promise!Next, Promise!End
<1>11. CASE UNCHANGED vars
    BY <1>a, <1>11 DEF vars
<1>12. QED
    BY <1>1, <1>2, <1>3, <1>4, <1>5, <1>6, <1>7, <1>8, <1>9, <1>10, <1>11 DEF Next

\* The worker keeps the promise of IsolatedCalls: whatever other requests of the same
\* worker did with the class, a handler that uses only the client it is given acts
\* with the JWT of its own request, and not at all without one.
THEOREM HandlersAreIsolated == Spec => Isolation
<1>1. Init => Promise!Init
    BY QuietSent DEF Init, W!Init, Promise!Init, Acted
<1>2. QED
    BY <1>1, IsolationStep, WorkerInvariant, PTL DEF Spec, Isolation, Promise!Spec
=============================================================================
